---------------------------- MODULE DaemonProofs ----------------------------
(***************************************************************************)
(* Proofs about the daemon: its scrub schedule, its migration journal and  *)
(* the exclusion of daemon processes that share a state root or a runtime  *)
(* directory.                                                              *)
(***************************************************************************)
EXTENDS ScrubSchedule, DaemonLifecycle, MigrationJournal, TLAPS

-----------------------------------------------------------------------------
(* The scrub schedule, for any workers, intervals, clock and faults.       *)

\* The records the scheduler writes.
LEMMA Records ==
  ASSUME NEW r \in Schedule, NEW t \in Time
  PROVE  /\ r # None /\ r.due \in Time /\ r.interval \in Interval /\ r.interval \in Nat \ {0}
         /\ /\ Started(r, t) \in Schedule /\ Started(r, t).state = "Running"
            /\ Started(r, t).due = r.due /\ Started(r, t).interval = r.interval
         /\ /\ Recovered(r, t) \in Schedule /\ Recovered(r, t).state = "Idle" /\ Recovered(r, t).due <= t
         /\ /\ [r EXCEPT !.state = "Idle"] \in Schedule
            /\ [r EXCEPT !.state = "Idle"].state = "Idle" /\ [r EXCEPT !.state = "Idle"].due = r.due
<1>1. r # None /\ r.due \in Time /\ r.interval \in Interval /\ r.interval \in Nat \ {0}
  BY Zenon, ScrubAssumption DEF Schedule, Time
<1>2. /\ Started(r, t) \in Schedule /\ Started(r, t).state = "Running"
      /\ Started(r, t).due = r.due /\ Started(r, t).interval = r.interval
  BY Zenon DEF Schedule, Started
<1>3. Recovered(r, t) \in Schedule /\ Recovered(r, t).state = "Idle" /\ Recovered(r, t).due <= t
  <2>1. (IF t < r.due THEN t ELSE r.due) \in Time /\ (IF t < r.due THEN t ELSE r.due) <= t
    BY <1>1, ScrubAssumption DEF Time
  <2> QED
    BY Zenon, <2>1 DEF Schedule, Recovered
<1>4. /\ [r EXCEPT !.state = "Idle"] \in Schedule
      /\ [r EXCEPT !.state = "Idle"].state = "Idle" /\ [r EXCEPT !.state = "Idle"].due = r.due
  BY DEF Schedule
<1> QED
  BY Zenon, <1>1, <1>2, <1>3, <1>4

\* The record of an outcome.
LEMMA Outcomes ==
  ASSUME NEW r \in Schedule, NEW t \in Time, t + r.interval <= MaxTime
  PROVE  /\ [r EXCEPT !.state = "Idle", !.due = t + r.interval] \in Schedule
         /\ [r EXCEPT !.state = "Idle", !.due = t + r.interval].state = "Idle"
         /\ [r EXCEPT !.state = "Idle", !.due = t + r.interval].due = t + r.interval
         /\ \A ok \in BOOLEAN : ok \/ r.failures < MaxFailures =>
              /\ Finished(r, t, ok) \in Schedule /\ Finished(r, t, ok).state = "Idle"
              /\ Finished(r, t, ok).due = t + r.interval
<1>1. t + r.interval \in Time
  <2>1. r.interval \in Nat
    BY Zenon, Records
  <2> QED
    BY <2>1, ScrubAssumption DEF Time
<1>2. ASSUME NEW ok \in BOOLEAN, ok \/ r.failures < MaxFailures
      PROVE  (IF ok THEN 0 ELSE r.failures + 1) \in 0 .. MaxFailures
  BY <1>2, ScrubAssumption DEF Schedule
<1>3. \A ok \in BOOLEAN : ok \/ r.failures < MaxFailures =>
        /\ Finished(r, t, ok) \in Schedule /\ Finished(r, t, ok).state = "Idle"
        /\ Finished(r, t, ok).due = t + r.interval
  BY Zenon, <1>1, <1>2 DEF Schedule, Finished
<1> QED
  BY Zenon, <1>1, <1>3 DEF Schedule

\* A new record.
LEMMA Configurations ==
  ASSUME NEW i \in Interval, NEW t \in Time, t + i <= MaxTime
  PROVE  Configured(i, t) \in Schedule /\ Configured(i, t).state = "Idle"
<1>1. t + i \in Time /\ 0 \in 0 .. MaxFailures
  BY ScrubAssumption DEF Time
<1> QED
  BY <1>1 DEF Schedule, Configured

\* What a write leaves on disk.
LEMMA Writes ==
  ASSUME NEW r
  PROVE  /\ WriteOk(r) => file'.now = r /\ file'.past = {} /\ Versions(file') = {r} /\ errors' = errors
         /\ WriteFails(r) => /\ errors < MaxErrors /\ errors' = errors + 1
                             /\ \/ file' = file
                                \/ file'.now = r /\ file'.past # {} /\ Versions(file') = Versions(file) \cup {r}
<1>1. ASSUME WriteOk(r) PROVE file'.now = r /\ file'.past = {} /\ Versions(file') = {r} /\ errors' = errors
  BY <1>1 DEF WriteOk, Synced, Versions
<1>2. ASSUME WriteFails(r)
      PROVE  \/ file' = file
             \/ file'.now = r /\ file'.past # {} /\ Versions(file') = Versions(file) \cup {r}
  <2>1. CASE file' = Unsynced(file, r)
    BY <2>1 DEF Unsynced, Versions
  <2> QED
    BY Zenon, <1>2, <2>1 DEF WriteFails, AfterError
<1> QED
  BY Zenon, <1>1, <1>2 DEF WriteFails

\* A step that writes a record keeps the types of the file and the error count.
LEMMA WriteTypes ==
  ASSUME TypeOK, NEW r \in Schedule, WriteOk(r) \/ WriteFails(r)
  PROVE  Versions(file') \subseteq Schedule \cup {None} /\ errors' \in 0 .. MaxErrors
<1>1. Versions(file') \subseteq Schedule \cup {None}
  <2>1. Versions(file) \subseteq Schedule \cup {None}
    BY Zenon DEF TypeOK
  <2> QED
    BY <2>1, Writes
<1>2. errors' \in 0 .. MaxErrors
  <2>1. errors' = errors \/ (errors < MaxErrors /\ errors' = errors + 1)
    BY Zenon, Writes
  <2> QED
    BY <2>1, ScrubAssumption DEF TypeOK
<1> QED
  BY <1>1, <1>2

\* No schedule is configured at first.
LEMMA InitIInv == Init => IInv
<1> SUFFICES ASSUME Init PROVE IInv
  OBVIOUS
<1>1. Versions(file) = {None} /\ Claimed = {} /\ now \in Time /\ ~Running
  BY ScrubAssumption DEF Init, Versions, Synced, Claimed, Time, Running
<1>2. TypeOK
  <2>1. errors \in 0 .. MaxErrors /\ crashes \in 0 .. MaxCrashes
    BY ScrubAssumption DEF Init
  <2> QED
    BY Zenon, <1>1, <2>1 DEF Init, TypeOK
<1> QED
  BY <1>1, <1>2 DEF Init, IInv, DownInv, ClaimInv, DueInv, FileInv, OwedInv, OneScrub,
       RunningOwned, InterruptedDue

\* The clock only makes things due.
LEMMA TickStep == IInv /\ Tick => IInv'
<1> SUFFICES ASSUME IInv, Tick PROVE IInv'
  OBVIOUS
<1>1. /\ now' = now + 1 /\ now < MaxTime /\ now \in Time
      /\ UNCHANGED <<schedule, file, up, claim, wedged, reconfigured, lastClaim, owed, errors, crashes>>
  BY Zenon DEF Tick, IInv, TypeOK
<1>2. now' \in Time /\ \A x \in Time : x <= now => x <= now'
  BY <1>1, ScrubAssumption DEF Time
<1>3. TypeOK'
  BY Zenon, <1>1, <1>2 DEF IInv, TypeOK
<1>4. Claimed' = Claimed /\ (Running' <=> Running) /\ Versions(file') = Versions(file)
  BY <1>1 DEF Claimed, Running
<1>5. DownInv' /\ ClaimInv' /\ DueInv' /\ OneScrub' /\ RunningOwned'
  BY Zenon, <1>1, <1>4 DEF IInv, DownInv, ClaimInv, DueInv, OneScrub, RunningOwned
<1>6. schedule # None => schedule \in Schedule /\ schedule.due \in Time
  BY Zenon, Records, <1>1 DEF IInv, TypeOK
<1>7. \A v \in Versions(file) : v # None => v.due \in Time
  BY Zenon, Records, <1>1 DEF IInv, TypeOK
<1>8. file.now \in Versions(file)
  BY DEF Versions
<1>9. FileInv'
  BY Zenon, <1>1, <1>2, <1>4, <1>6, <1>7, <1>8 DEF IInv, FileInv, Running
<1>10. OwedInv'
  BY Zenon, <1>1, <1>2, <1>4, <1>7 DEF IInv, OwedInv
<1>11. InterruptedDue'
  BY Zenon, <1>1, <1>2, <1>6 DEF IInv, InterruptedDue, Due
<1> QED
  BY Zenon, <1>3, <1>5, <1>9, <1>10, <1>11 DEF IInv

\* A reading of the clock.
LEMMA Readings == TypeOK => now \in Time /\ \A t \in ReadTime : t \in Time /\ t <= now
  BY ScrubAssumption DEF ReadTime, Time, TypeOK

\* A new configuration is idle, on disk and in memory; a failed one changes the file
\* only, after which its past is not empty.
LEMMA ConfigureStep == ASSUME IInv, NEW i \in Interval, Configure(i) PROVE IInv'
<1>1. PICK t \in ReadTime :
        /\ t + i <= MaxTime
        /\ \/ /\ WriteOk(Configured(i, t)) /\ schedule' = Configured(i, t)
              /\ reconfigured' = (reconfigured \/ Claimed # {}) /\ wedged' = FALSE /\ lastClaim' = None
           \/ WriteFails(Configured(i, t)) /\ UNCHANGED <<schedule, reconfigured, wedged, lastClaim>>
  BY Zenon DEF Configure
<1>2. owed' = FALSE /\ up /\ UNCHANGED <<up, now, claim, crashes>>
  BY Zenon DEF Configure
<1>3. t \in Time /\ TypeOK
  BY Zenon, Readings DEF IInv
<1>4. Configured(i, t) \in Schedule /\ Configured(i, t).state = "Idle" /\ Configured(i, t) # None
  BY Zenon, <1>1, <1>3, Configurations, Records
<1>5. Versions(file') \subseteq Schedule \cup {None} /\ errors' \in 0 .. MaxErrors
  BY Zenon, <1>1, <1>3, <1>4, WriteTypes
<1>6. Claimed' = Claimed
  BY Zenon, <1>2 DEF Claimed
<1>7. OwedInv' /\ InterruptedDue'
  BY Zenon, <1>2 DEF OwedInv, InterruptedDue
<1>8. CASE /\ WriteOk(Configured(i, t)) /\ schedule' = Configured(i, t)
           /\ reconfigured' = (reconfigured \/ Claimed # {}) /\ wedged' = FALSE /\ lastClaim' = None
  <2>1. file'.now = schedule' /\ file'.past = {} /\ schedule' # None /\ schedule' \in Schedule /\ ~Running'
    BY <1>4, <1>8, Writes DEF Running
  <2>2. TypeOK'
    <3>1. reconfigured' \in BOOLEAN /\ wedged' \in BOOLEAN /\ owed' \in BOOLEAN
      BY Zenon, <1>2, <1>8
    <3> QED
      BY Zenon, <1>2, <1>3, <1>5, <1>8, <2>1, <3>1 DEF TypeOK
  <2>3. schedule'.due <= schedule'.due
    <3>1. schedule'.due \in Time
      BY Zenon, <1>3, <2>1, Records
    <3> QED
      BY <3>1 DEF Time
  <2>4. DownInv' /\ DueInv' /\ RunningOwned' /\ FileInv'
    BY Zenon, <1>2, <1>8, <2>1, <2>3 DEF DownInv, DueInv, RunningOwned, FileInv
  <2>5. ~reconfigured' => Claimed' = {}
    BY Zenon, <1>6, <1>8
  <2>6. ClaimInv' /\ OneScrub'
    BY <2>5 DEF ClaimInv, OneScrub
  <2> QED
    BY Zenon, <1>7, <2>2, <2>4, <2>6 DEF IInv
<1>9. CASE WriteFails(Configured(i, t)) /\ UNCHANGED <<schedule, reconfigured, wedged, lastClaim>>
  <2>1. file' = file \/ file'.past # {}
    BY Zenon, <1>9, Writes
  <2>2. Running' <=> Running
    BY Zenon, <1>2, <1>9 DEF Running
  <2>3. TypeOK'
    <3>1. owed' \in BOOLEAN
      BY Zenon, <1>2
    <3> QED
      BY Zenon, <1>2, <1>3, <1>5, <1>9, <3>1 DEF TypeOK
  <2>4. DownInv' /\ DueInv' /\ RunningOwned' /\ ClaimInv' /\ OneScrub'
    BY Zenon, <1>2, <1>6, <1>9, <2>2 DEF IInv, DownInv, DueInv, RunningOwned, ClaimInv, OneScrub
  <2>5. FileInv'
    BY Zenon, <1>2, <1>9, <2>1, <2>2 DEF IInv, FileInv
  <2> QED
    BY Zenon, <1>7, <2>3, <2>4, <2>5 DEF IInv
<1> QED
  BY Zenon, <1>1, <1>8, <1>9

\* A claim: the record runs from now on, on disk or, if it could not be written, in
\* memory only.
LEMMA BeginStep == ASSUME IInv, NEW w \in Worker, Begin(w) PROVE IInv'
<1>1. PICK t \in ReadTime :
        /\ schedule.due <= t /\ schedule' = Started(schedule, t)
        /\ lastClaim' = [at |-> t, interval |-> schedule.interval]
        /\ \/ WriteOk(Started(schedule, t)) /\ claim' = [claim EXCEPT ![w] = t] /\ owed' = FALSE /\ UNCHANGED wedged
           \/ WriteFails(Started(schedule, t)) /\ wedged' = TRUE /\ UNCHANGED <<claim, owed>>
  BY Zenon DEF Begin
<1>2. /\ up /\ claim[w] = None /\ schedule # None /\ schedule.state = "Idle"
      /\ UNCHANGED <<up, now, reconfigured, crashes>>
  BY Zenon DEF Begin
<1>3. TypeOK /\ t \in Time /\ t <= now /\ now \in Time /\ schedule \in Schedule
  BY Zenon, <1>2, Readings DEF IInv, TypeOK
<1>4. /\ schedule' \in Schedule /\ schedule'.state = "Running" /\ schedule'.due = schedule.due
      /\ schedule'.interval = schedule.interval /\ schedule' # None /\ schedule.interval \in Interval
      /\ schedule.due \in Time
  BY Zenon, <1>1, <1>3, Records
<1>5. schedule.due <= now
  BY <1>1, <1>3, <1>4 DEF Time
<1>6. Running' /\ ~Running
  BY <1>2, <1>4 DEF Running
<1>7. ~reconfigured => Claimed = {}
  BY Zenon, <1>6 DEF IInv, ClaimInv
<1>8. lastClaim' # None /\ lastClaim' \in [at : Time, interval : Interval]
  BY <1>1, <1>3, <1>4, ScrubAssumption DEF Time
<1>9. Versions(file') \subseteq Schedule \cup {None} /\ errors' \in 0 .. MaxErrors
  BY Zenon, <1>1, <1>3, <1>4, WriteTypes
<1>10. DownInv' /\ DueInv'
  <2>1. schedule'.state # "Idle"
    BY <1>4
  <2> QED
    BY Zenon, <1>2, <1>4, <2>1 DEF DownInv, DueInv
<1>11. CASE WriteOk(Started(schedule, t)) /\ claim' = [claim EXCEPT ![w] = t] /\ owed' = FALSE /\ UNCHANGED wedged
  <2>1. file'.now = schedule' /\ file'.past = {}
    BY Zenon, <1>1, <1>11, Writes
  <2>2. claim' \in [Worker -> Time \cup {None}] /\ claim'[w] = t /\ Claimed' = Claimed \cup {w}
    BY <1>3, <1>11, ScrubAssumption DEF TypeOK, Claimed, Time
  <2>3. TypeOK'
    <3>1. owed' \in BOOLEAN
      BY Zenon, <1>11
    <3> QED
      BY Zenon, <1>2, <1>3, <1>4, <1>8, <1>9, <1>11, <2>2, <3>1 DEF TypeOK
  <2>4. ~reconfigured' => Claimed' = {w}
    BY <1>2, <1>7, <2>2
  <2>5. ClaimInv' /\ OneScrub'
    BY <1>1, <1>4, <1>6, <2>2, <2>4 DEF ClaimInv, OneScrub
  <2>6. RunningOwned' /\ OwedInv' /\ InterruptedDue'
    BY <1>11, <2>2 DEF RunningOwned, OwedInv, InterruptedDue
  <2>7. FileInv'
    BY <1>2, <1>4, <1>5, <2>1 DEF FileInv
  <2> QED
    BY Zenon, <1>10, <2>3, <2>5, <2>6, <2>7 DEF IInv
<1>12. CASE WriteFails(Started(schedule, t)) /\ wedged' = TRUE /\ UNCHANGED <<claim, owed>>
  <2>1. file' = file \/ (file'.now = schedule' /\ file'.past # {} /\ Versions(file') = Versions(file) \cup {schedule'})
    BY Zenon, <1>1, <1>12, Writes
  <2>2. Claimed' = Claimed
    BY Zenon, <1>12 DEF Claimed
  <2>3. TypeOK'
    <3>1. wedged' \in BOOLEAN
      BY <1>12
    <3> QED
      BY Zenon, <1>2, <1>3, <1>4, <1>8, <1>9, <1>12, <3>1 DEF TypeOK
  <2>4. ClaimInv' /\ OneScrub' /\ RunningOwned' /\ InterruptedDue'
    BY <1>2, <1>7, <1>12, <2>2 DEF ClaimInv, OneScrub, RunningOwned, InterruptedDue
  <2>5. FileInv'
    <3>1. CASE file' = file
      BY Zenon, <1>2, <1>4, <1>5, <3>1 DEF IInv, FileInv
    <3>2. CASE file'.past # {}
      BY Zenon, <1>2, <1>4, <1>5, <3>2 DEF FileInv
    <3> QED
      BY <2>1, <3>1, <3>2
  <2>6. OwedInv'
    BY Zenon, <1>2, <1>4, <1>12, <2>1, <2>2 DEF IInv, OwedInv
  <2> QED
    BY Zenon, <1>10, <2>3, <2>4, <2>5, <2>6 DEF IInv
<1> QED
  BY Zenon, <1>1, <1>11, <1>12

\* An outcome: whatever it is, the record does not run afterwards, and it is due one
\* interval after the claim unless that overflows or the schedule was replaced.
LEMMA FinishStep == ASSUME IInv, NEW w \in Worker, Finish(w) PROVE IInv'
<1> DEFINE t == claim[w]
           Same == UNCHANGED <<file, errors>>
<1>1. /\ up /\ t # None /\ claim' = [claim EXCEPT ![w] = None]
      /\ reconfigured' = (reconfigured /\ Claimed \ {w} # {})
      /\ lastClaim' = IF reconfigured THEN None ELSE lastClaim
      /\ UNCHANGED <<up, now, wedged, owed, crashes>>
  BY Zenon DEF Finish
<1>2. PICK ok \in BOOLEAN :
        \/ ~Running /\ schedule' = schedule /\ Same
        \/ Running /\ t + schedule.interval > MaxTime /\ schedule' = [schedule EXCEPT !.state = "Idle"] /\ Same
        \/ /\ Running /\ t + schedule.interval <= MaxTime
           /\ schedule' = [schedule EXCEPT !.state = "Idle", !.due = t + schedule.interval] /\ Same
        \/ /\ Running /\ t + schedule.interval <= MaxTime /\ (ok \/ schedule.failures < MaxFailures)
           /\ schedule' = Finished(schedule, t, ok)
           /\ WriteOk(Finished(schedule, t, ok)) \/ WriteFails(Finished(schedule, t, ok))
  BY Zenon DEF Finish
<1>3. TypeOK /\ w \in Claimed /\ t \in Time
  BY <1>1 DEF IInv, TypeOK, Claimed
<1>4. claim' \in [Worker -> Time \cup {None}] /\ Claimed' = Claimed \ {w}
  BY <1>1, <1>3 DEF TypeOK, Claimed
<1>5. owed = FALSE
  BY <1>3 DEF IInv, OwedInv, TypeOK
<1>6. ~reconfigured' => Claimed' = {}
  BY Zenon, <1>1, <1>3, <1>4 DEF IInv, OneScrub
<1>7. Running => schedule \in Schedule /\ schedule.interval \in Nat /\ schedule.due \in Time /\ schedule.due <= now
  BY Zenon, <1>3, Records DEF Running, IInv, TypeOK, FileInv
<1>8. ASSUME Running, t + schedule.interval > MaxTime, schedule' = [schedule EXCEPT !.state = "Idle"]
      PROVE  schedule' \in Schedule /\ schedule'.state = "Idle" /\ schedule'.due = schedule.due
  BY Zenon, <1>3, <1>7, <1>8, Records
<1>9. ASSUME Running, t + schedule.interval <= MaxTime,
             \/ schedule' = [schedule EXCEPT !.state = "Idle", !.due = t + schedule.interval]
             \/ (ok \/ schedule.failures < MaxFailures) /\ schedule' = Finished(schedule, t, ok)
      PROVE  schedule' \in Schedule /\ schedule'.state = "Idle" /\ schedule'.due = t + schedule.interval
  <2>1. schedule \in Schedule /\ t \in Time /\ ok \in BOOLEAN /\ t + schedule.interval <= MaxTime
    BY Zenon, <1>3, <1>7, <1>9
  <2>2. CASE schedule' = [schedule EXCEPT !.state = "Idle", !.due = t + schedule.interval]
    BY Zenon, <2>1, <2>2, Outcomes
  <2>3. CASE (ok \/ schedule.failures < MaxFailures) /\ schedule' = Finished(schedule, t, ok)
    BY Zenon, <2>1, <2>3, Outcomes
  <2> QED
    BY Zenon, <1>9, <2>2, <2>3
<1>10. \/ ~Running /\ schedule' = schedule
       \/ Running /\ schedule' \in Schedule /\ schedule'.state = "Idle"
  BY Zenon, <1>2, <1>8, <1>9
<1>11. ~Running'
  <2>1. "Idle" # "Running"
    OBVIOUS
  <2> QED
    BY Zenon, <1>1, <1>10, <2>1 DEF Running
<1>12. TypeOK'
  <2>1. schedule' \in Schedule \cup {None}
    BY Zenon, <1>3, <1>10 DEF TypeOK
  <2>2. Versions(file') \subseteq Schedule \cup {None} /\ errors' \in 0 .. MaxErrors
    <3>1. CASE Same
      BY Zenon, <1>3, <3>1 DEF TypeOK
    <3>2. CASE ~Same
      <4>1. schedule' \in Schedule /\ (WriteOk(schedule') \/ WriteFails(schedule'))
        BY Zenon, <1>2, <1>9, <3>2
      <4> QED
        BY Zenon, <1>3, <4>1, WriteTypes
    <3> QED
      BY <3>1, <3>2
  <2>3. reconfigured' \in BOOLEAN /\ lastClaim' \in [at : Time, interval : Interval] \cup {None}
    BY <1>1, <1>3 DEF TypeOK
  <2> QED
    BY Zenon, <1>1, <1>3, <1>4, <2>1, <2>2, <2>3 DEF TypeOK
<1>13. ClaimInv' /\ OneScrub' /\ RunningOwned' /\ OwedInv' /\ InterruptedDue'
  BY <1>1, <1>5, <1>6, <1>11 DEF ClaimInv, OneScrub, RunningOwned, OwedInv, InterruptedDue
<1>14. DownInv'
  <2>1. lastClaim' # None => lastClaim # None
    BY <1>1
  <2>2. schedule # None => schedule' # None
    BY Zenon, <1>3, <1>10, Records
  <2> QED
    BY Zenon, <1>1, <2>1, <2>2 DEF IInv, DownInv
<1>15. DueInv'
  <2> SUFFICES ASSUME lastClaim' # None, lastClaim'.at + lastClaim'.interval <= MaxTime
               PROVE  schedule'.due >= lastClaim'.at + lastClaim'.interval
    BY Zenon DEF DueInv
  <2>1. ~reconfigured /\ lastClaim' = lastClaim
    BY <1>1
  <2>2. Running /\ lastClaim = [at |-> t, interval |-> schedule.interval]
    BY Zenon, <1>3, <2>1 DEF IInv, ClaimInv
  <2>3. lastClaim'.at = t /\ lastClaim'.interval = schedule.interval
    BY <2>1, <2>2
  <2>4. ~(t + schedule.interval > MaxTime)
    BY <1>3, <1>7, <2>2, <2>3, ScrubAssumption DEF Time
  <2>5. schedule'.due = t + schedule.interval
    BY Zenon, <1>2, <1>9, <2>2, <2>4
  <2> QED
    BY <1>3, <1>7, <2>2, <2>3, <2>5 DEF Time
<1>16. FileInv'
  <2> SUFFICES ASSUME schedule' # None, file'.past = {}
               PROVE  /\ file'.now # None
                      /\ file'.now.state = "Running" \/ file'.now.due <= now \/ file'.now.due <= schedule'.due
    BY Zenon, <1>1, <1>11 DEF FileInv
  <2>1. CASE ~Running /\ schedule' = schedule /\ Same
    BY Zenon, <1>1, <2>1 DEF IInv, FileInv
  <2>2. CASE Running /\ file' = file
    <3>1. file.now # None /\ (file.now.state = "Running" \/ file.now.due <= now \/ file.now.due <= schedule.due)
      BY Zenon, <1>1, <2>2 DEF IInv, FileInv, Running
    <3>2. file.now \in Schedule
      BY <3>1 DEF IInv, TypeOK, Versions
    <3>3. file.now.due \in Time /\ now \in Time
      BY Zenon, <1>3, <3>2, Records DEF IInv, TypeOK
    <3>4. file.now.due <= schedule.due => file.now.due <= now
      BY <1>7, <2>2, <3>3 DEF Time
    <3> QED
      BY Zenon, <2>2, <3>1, <3>4
  <2>3. CASE Running /\ file' # file
    <3>1. WriteOk(schedule') \/ WriteFails(schedule')
      BY Zenon, <1>2, <2>3
    <3>2. file'.now = schedule'
      BY Zenon, <2>3, <3>1, Writes
    <3>3. schedule' \in Schedule
      BY Zenon, <1>10, <2>3
    <3>4. schedule'.due \in Time
      BY Zenon, <1>3, <3>3, Records
    <3> QED
      BY <3>2, <3>4 DEF Time
  <2> QED
    BY Zenon, <1>2, <2>1, <2>2, <2>3
<1> QED
  BY Zenon, <1>12, <1>13, <1>14, <1>15, <1>16 DEF IInv

\* Start-up makes an interrupted scrub idle and due, and takes any other record as it is.
LEMMA OpenStep == IInv /\ Open => IInv'
<1> SUFFICES ASSUME IInv, Open PROVE IInv'
  OBVIOUS
<1> DEFINE Interrupted == file.now # None /\ file.now.state = "Running"
<1>1. PICK t \in ReadTime :
        \/ Interrupted /\ WriteOk(Recovered(file.now, t)) /\ schedule' = Recovered(file.now, t) /\ up' = TRUE
        \/ Interrupted /\ WriteFails(Recovered(file.now, t)) /\ UNCHANGED <<schedule, up>>
        \/ ~Interrupted /\ schedule' = file.now /\ up' = TRUE /\ UNCHANGED <<file, errors>>
  BY Zenon DEF Open
<1>2. ~up /\ UNCHANGED <<now, claim, wedged, reconfigured, lastClaim, owed, crashes>>
  BY Zenon DEF Open
<1>3. TypeOK /\ t \in Time /\ t <= now /\ now \in Time
  BY Zenon, Readings DEF IInv
<1>4. /\ Claimed' = {} /\ Claimed = {} /\ ~wedged /\ ~reconfigured /\ lastClaim = None /\ lastClaim' = None
      /\ schedule = None
  BY Zenon, <1>2 DEF IInv, DownInv, Claimed
<1>5. file.now \in Versions(file) /\ file.now \in Schedule \cup {None}
  BY <1>3 DEF TypeOK, Versions
<1>6. ClaimInv' /\ OneScrub' /\ DueInv'
  BY <1>4 DEF ClaimInv, OneScrub, DueInv
<1>7. ASSUME Interrupted
      PROVE  /\ Recovered(file.now, t) \in Schedule /\ Recovered(file.now, t).state = "Idle"
             /\ Recovered(file.now, t).due <= now /\ Recovered(file.now, t) # None
  <2>1. LET r == Recovered(file.now, t) IN r \in Schedule /\ r.state = "Idle" /\ r.due <= t
    BY Zenon, <1>3, <1>5, <1>7, Records
  <2>2. Recovered(file.now, t).due \in Time /\ Recovered(file.now, t) # None
    BY Zenon, <1>3, <2>1, Records
  <2> QED
    BY <1>3, <2>1, <2>2 DEF Time
<1>8. CASE Interrupted /\ WriteOk(Recovered(file.now, t)) /\ schedule' = Recovered(file.now, t) /\ up' = TRUE
  <2>1. file'.now = schedule' /\ Versions(file') = {schedule'}
    BY Zenon, <1>8, Writes
  <2>2. schedule' \in Schedule /\ schedule'.state = "Idle" /\ schedule'.due <= now' /\ schedule' # None
    BY Zenon, <1>2, <1>7, <1>8
  <2>3. ~Running' /\ Due'
    BY <1>8, <2>2 DEF Running, Due
  <2>4. TypeOK'
    <3>1. Versions(file') \subseteq Schedule \cup {None} /\ errors' \in 0 .. MaxErrors
      BY Zenon, <1>3, <1>8, <2>2, WriteTypes
    <3>2. up' \in BOOLEAN
      BY <1>8
    <3> QED
      BY Zenon, <1>2, <1>3, <2>2, <3>1, <3>2 DEF TypeOK
  <2>5. DownInv' /\ RunningOwned' /\ InterruptedDue'
    BY Zenon, <1>4, <1>8, <2>3 DEF DownInv, RunningOwned, InterruptedDue
  <2>6. FileInv' /\ OwedInv'
    BY Zenon, <1>4, <2>1, <2>2, <2>3 DEF FileInv, OwedInv
  <2> QED
    BY Zenon, <1>6, <2>4, <2>5, <2>6 DEF IInv
<1>9. CASE Interrupted /\ WriteFails(Recovered(file.now, t)) /\ UNCHANGED <<schedule, up>>
  <2>1. TypeOK'
    <3>1. Versions(file') \subseteq Schedule \cup {None} /\ errors' \in 0 .. MaxErrors
      BY Zenon, <1>3, <1>7, <1>9, WriteTypes
    <3> QED
      BY Zenon, <1>2, <1>3, <1>9, <3>1 DEF TypeOK
  <2>2. ~up' /\ ~Running'
    BY Zenon, <1>2, <1>9 DEF Running
  <2>3. DownInv' /\ RunningOwned' /\ InterruptedDue' /\ FileInv'
    BY Zenon, <1>2, <1>4, <1>9, <2>2 DEF DownInv, RunningOwned, InterruptedDue, FileInv
  <2>4. OwedInv'
    <3>1. file' = file \/ Versions(file') = Versions(file) \cup {Recovered(file.now, t)}
      BY Zenon, <1>9, Writes
    <3> QED
      BY Zenon, <1>2, <1>4, <1>7, <1>9, <3>1 DEF IInv, OwedInv
  <2> QED
    BY Zenon, <1>6, <2>1, <2>3, <2>4 DEF IInv
<1>10. CASE ~Interrupted /\ schedule' = file.now /\ up' = TRUE /\ UNCHANGED <<file, errors>>
  <2>1. TypeOK'
    <3>1. up' \in BOOLEAN
      BY <1>10
    <3> QED
      BY Zenon, <1>2, <1>3, <1>5, <1>10, <3>1 DEF TypeOK
  <2>2. ~Running' /\ (schedule' # None => schedule' \in Schedule)
    BY Zenon, <1>5, <1>10 DEF Running
  <2>3. schedule' # None => schedule'.state \in {"Idle", "Running"} /\ schedule'.due \in Time
    BY <2>2 DEF Schedule
  <2>4. schedule' # None => schedule'.state = "Idle" /\ schedule'.due <= schedule'.due
    BY <1>10, <2>3 DEF Time
  <2>5. owed => Due'
    BY Zenon, <1>2, <1>5, <1>10, <2>4 DEF IInv, OwedInv, Due
  <2>6. DownInv' /\ RunningOwned' /\ InterruptedDue'
    BY Zenon, <1>2, <1>4, <1>10, <2>2, <2>5 DEF DownInv, RunningOwned, InterruptedDue
  <2>7. FileInv' /\ OwedInv'
    BY Zenon, <1>2, <1>4, <1>10, <2>2, <2>4 DEF IInv, FileInv, OwedInv
  <2> QED
    BY Zenon, <1>6, <2>1, <2>6, <2>7 DEF IInv
<1> QED
  BY Zenon, <1>1, <1>8, <1>9, <1>10

\* A crash forgets the claims; what it interrupted is on disk as running, or as due.
LEMMA DownStep == IInv /\ (Kill \/ PowerLoss) => IInv'
<1> SUFFICES ASSUME IInv, Kill \/ PowerLoss PROVE IInv'
  OBVIOUS
<1>1. /\ up /\ up' = FALSE /\ crashes < MaxCrashes /\ crashes' = crashes + 1 /\ schedule' = None
      /\ owed' = (owed \/ (Claimed # {} /\ Running /\ file.past = {}))
      /\ claim' = [w \in Worker |-> None] /\ wedged' = FALSE /\ reconfigured' = FALSE /\ lastClaim' = None
      /\ UNCHANGED <<now, errors>>
  BY Zenon DEF Kill, PowerLoss, Down
<1>2. Versions(file') \subseteq Versions(file)
  <2>1. CASE file' = file
    BY <2>1
  <2>2. ASSUME NEW v \in Versions(file), file' = Synced(v) PROVE Versions(file') \subseteq Versions(file)
    BY <2>2 DEF Synced, Versions
  <2> QED
    BY Zenon, <2>1, <2>2 DEF Kill, PowerLoss, AfterPowerLoss
<1>3. TypeOK /\ Claimed' = {} /\ ~Running'
  BY <1>1 DEF IInv, Claimed, Running
<1>4. TypeOK'
  <2>1. crashes' \in 0 .. MaxCrashes /\ claim' \in [Worker -> Time \cup {None}] /\ owed' \in BOOLEAN
    BY <1>1, <1>3, ScrubAssumption DEF TypeOK
  <2>2. Versions(file') \subseteq Schedule \cup {None}
    BY Zenon, <1>2, <1>3 DEF TypeOK
  <2> QED
    BY Zenon, <1>1, <1>3, <2>1, <2>2 DEF TypeOK
<1>5. DownInv' /\ ClaimInv' /\ DueInv' /\ FileInv' /\ OneScrub' /\ RunningOwned' /\ InterruptedDue'
  BY <1>1, <1>3 DEF DownInv, ClaimInv, DueInv, FileInv, OneScrub, RunningOwned, InterruptedDue
<1>6. OwedInv'
  <2>1. ASSUME owed PROVE \A v \in Versions(file') : v # None /\ (v.state = "Running" \/ v.due <= now)
    BY Zenon, <1>2, <2>1 DEF IInv, OwedInv
  <2>2. ASSUME Running, file.past = {}
        PROVE  \A v \in Versions(file') : v # None /\ (v.state = "Running" \/ v.due <= now)
    <3>1. Versions(file) = {file.now}
      BY <2>2 DEF Versions
    <3>2. file.now # None /\ (file.now.state = "Running" \/ file.now.due <= now \/ file.now.due <= schedule.due)
      BY Zenon, <1>1, <2>2 DEF IInv, FileInv, Running
    <3>3. file.now \in Schedule /\ schedule \in Schedule /\ now \in Time /\ schedule.due <= now
      BY Zenon, <1>3, <2>2, <3>1, <3>2 DEF TypeOK, Running, IInv, FileInv
    <3>4. file.now.due \in Time /\ schedule.due \in Time
      BY Zenon, <3>3, Records
    <3>5. file.now.due <= schedule.due => file.now.due <= now
      BY <3>3, <3>4 DEF Time
    <3> QED
      BY Zenon, <1>2, <3>1, <3>2, <3>5
  <2> QED
    BY Zenon, <1>1, <1>3, <2>1, <2>2 DEF OwedInv
<1> QED
  BY Zenon, <1>4, <1>5, <1>6 DEF IInv

\* Every step keeps the invariant.
LEMMA IInvStep == IInv /\ [Next]_vars => IInv'
<1> SUFFICES ASSUME IInv, [Next]_vars PROVE IInv'
  OBVIOUS
<1>1. CASE UNCHANGED vars
  <2>1. UNCHANGED <<schedule, file, up, now, claim, wedged, reconfigured, lastClaim, owed, errors, crashes>>
    BY <1>1 DEF vars
  <2>2. Claimed' = Claimed /\ (Running' <=> Running) /\ (Due' <=> Due)
    BY Zenon, <2>1 DEF Claimed, Running, Due
  <2> QED
    BY ZenonT(60), <2>1, <2>2 DEF IInv, TypeOK, DownInv, ClaimInv, DueInv, FileInv, OwedInv,
         OneScrub, RunningOwned, InterruptedDue
<1> QED
  BY Zenon, <1>1, TickStep, ConfigureStep, BeginStep, FinishStep, OpenStep, DownStep DEF Next

\* The invariant holds in every state of the schedule.
LEMMA Invariance == Spec => []IInv
  BY InitIInv, IInvStep, PTL DEF Spec

\* For any workers, intervals and faults: unless the schedule is replaced under it one
\* worker at most runs a scrub, a record that is running has a worker that will end it,
\* a scrub that a crash interrupted is due at once, and a process keeps the configured
\* distance between two claims.
THEOREM ScrubsAreSafe == Spec => ScrubsSafe
<1> DEFINE Limited ==
      \A w \in Worker :
        claim[w] = None /\ claim'[w] # None /\ lastClaim # None
          /\ lastClaim.at + lastClaim.interval <= MaxTime
          => claim'[w] >= lastClaim.at + lastClaim.interval
<1>1. ASSUME IInv, Next PROVE Limited
  <2>1. ASSUME NEW w \in Worker, Begin(w), NEW v \in Worker, claim[v] = None, claim'[v] # None, lastClaim # None,
               lastClaim.at + lastClaim.interval <= MaxTime
        PROVE  claim'[v] >= lastClaim.at + lastClaim.interval
    <3>1. PICK t \in ReadTime : schedule.due <= t /\ (claim' = [claim EXCEPT ![w] = t] \/ claim' = claim)
      BY Zenon, <2>1 DEF Begin
    <3>2. v = w /\ claim'[v] = t
      BY <1>1, <2>1, <3>1 DEF IInv, TypeOK
    <3>3. schedule # None /\ schedule.state = "Idle"
      BY Zenon, <2>1 DEF Begin
    <3>4. schedule.due >= lastClaim.at + lastClaim.interval
      BY Zenon, <1>1, <2>1, <3>3 DEF IInv, DueInv
    <3>5. t \in Time /\ schedule \in Schedule /\ lastClaim \in [at : Time, interval : Interval]
      BY Zenon, <1>1, <2>1, <3>3, Readings DEF IInv, TypeOK
    <3>6. schedule.due \in Time /\ lastClaim.at \in Time /\ lastClaim.interval \in Nat
      BY Zenon, <3>5, ScrubAssumption DEF Schedule
    <3> QED
      BY <3>1, <3>2, <3>4, <3>5, <3>6 DEF Time
  <2>2. ASSUME NEW w \in Worker, Finish(w) PROVE \A v \in Worker : claim'[v] \in {claim[v], None}
    BY <1>1, <2>2 DEF Finish, IInv, TypeOK
  <2>3. ASSUME Kill \/ PowerLoss PROVE \A v \in Worker : claim'[v] = None
    BY <2>3 DEF Kill, PowerLoss, Down
  <2>4. ASSUME Tick \/ Open \/ \E i \in Interval : Configure(i) PROVE claim' = claim
    BY Zenon, <2>4 DEF Tick, Open, Configure
  <2> QED
    BY Zenon, <1>1, <2>1, <2>2, <2>3, <2>4 DEF Next
<1>2. IInv /\ [Next]_vars => [Limited]_vars
  BY Zenon, <1>1
<1>3. IInv => TypeOK /\ OneScrub /\ RunningOwned /\ InterruptedDue
  BY Zenon DEF IInv
<1> QED
  BY Invariance, <1>2, <1>3, PTL DEF Spec, ScrubsSafe, RateLimited

-----------------------------------------------------------------------------
(* The migration journal, for any number of workers, formats, write errors *)
(* and crashes.                                                            *)

\* The fields of a record.
LEMMA MigrationRecordFields ==
  ASSUME NEW r \in Record
  PROVE  /\ r.from \in Version /\ r.to \in Version /\ r.from \in Int /\ r.to \in Int
         /\ r.from < r.to /\ 1 <= r.from
         /\ r.state \in {"Copying", "Validating", "Published"}
BY DEF Record, Version

\* The active format is a version of the daemon.
LEMMA MigrationActiveVersion ==
  ASSUME MigrationConstants, NEW r \in Record \cup {NoMigration}, NEW b \in Version
  PROVE  ActiveFormat(r, b) \in Version /\ ActiveFormat(r, b) \in Int
<1>1. b \in Int BY DEF Version
<1>2. CASE r = NoMigration BY <1>1, <1>2, Zenon DEF ActiveFormat
<1>3. CASE r \in Record
  <2>1. r # NoMigration BY <1>3 DEF MigrationConstants
  <2>2. ActiveFormat(r, b) = r.to \/ ActiveFormat(r, b) = r.from
    BY <2>1, Zenon DEF ActiveFormat
  <2> QED BY Zenon, <1>3, <2>2, MigrationRecordFields
<1> QED BY <1>2, <1>3

\* The oldest format is one of them.
LEMMA MigrationOneVersion ==
  ASSUME MigrationConstants
  PROVE  1 \in Version
BY DEF MigrationConstants, Version

\* A record decides which format is active, whatever the daemon is configured with.
LEMMA MigrationRecordDecides ==
  ASSUME MigrationConstants, NEW r \in Record, NEW b
  PROVE  /\ ActiveFormat(r, b) = Reached(r) /\ r # NoMigration
         /\ r.state = "Published" => Reached(r) = r.to
         /\ r.state # "Published" => Reached(r) = r.from
         /\ IsPartial(r) <=> r.state # "Published"
         /\ Reached(r) \in Int
<1>1. r # NoMigration BY Zenon DEF MigrationConstants
<1>2. r.state \in {"Copying", "Validating", "Published"} BY MigrationRecordFields
<1>3. r.state = "Published" => Reached(r) = r.to /\ ActiveFormat(r, b) = r.to
  BY Zenon, <1>1 DEF Reached, ActiveFormat
<1>4. r.state # "Published" => Reached(r) = r.from /\ ActiveFormat(r, b) = r.from
  BY Zenon, <1>1 DEF Reached, ActiveFormat
<1>5. IsPartial(r) <=> r.state # "Published" BY <1>1, <1>2 DEF IsPartial
<1>6. Reached(r) \in Int BY Zenon, <1>3, <1>4, MigrationRecordFields
<1> QED BY Zenon, <1>1, <1>3, <1>4, <1>5, <1>6

\* The oldest format is the one a journal without a record makes active.
LEMMA MigrationReachedLow ==
  ASSUME MigrationConstants, NEW r \in Record \cup {NoMigration}, NEW b \in Version
  PROVE  Reached(r) \in Int /\ Reached(r) <= ActiveFormat(r, b)
<1>1. CASE r = NoMigration
  <2>1. Reached(r) = 1 /\ ActiveFormat(r, b) = b
    BY Zenon, <1>1 DEF Reached, ActiveFormat
  <2> QED BY <2>1 DEF Version
<1>2. CASE r \in Record
  <2>1. ActiveFormat(r, b) = Reached(r) /\ Reached(r) \in Int
    BY Zenon, <1>2, MigrationRecordDecides
  <2> QED BY <2>1
<1> QED BY <1>1, <1>2

\* The record begin writes.
LEMMA MigrationNewRecord ==
  ASSUME MigrationConstants, NEW from \in Version, NEW to \in Version, to > from
  PROVE  LET new == [from |-> from, to |-> to, state |-> "Copying"] IN
         /\ new \in Record /\ new.from = from /\ new.to = to /\ new.state = "Copying"
BY DEF Record, Version

\* The record a transition writes.
LEMMA MigrationAdvancedRecord ==
  ASSUME NEW r \in Record
  PROVE  /\ Advanced(r) \in Record /\ Advanced(r).from = r.from /\ Advanced(r).to = r.to
         /\ r.state = "Copying" => Advanced(r).state = "Validating"
         /\ r.state # "Copying" => Advanced(r).state = "Published"
BY DEF Advanced, Record

\* What a write leaves: the new version alone, or the file as it was, or the new
\* version with the earlier ones behind it.
LEMMA MigrationWritten ==
  ASSUME NEW new
  PROVE  /\ JournalWriteOk(new) => journalFile'.now = new /\ JournalVersions(journalFile') = {new} /\ UNCHANGED journalErrors
         /\ JournalWriteFails(new) =>
              \/ journalFile' = journalFile
              \/ journalFile'.now = new /\ JournalVersions(journalFile') = JournalVersions(journalFile) \cup {new}
<1>1. JournalWriteOk(new) => journalFile'.now = new /\ JournalVersions(journalFile') = {new} /\ UNCHANGED journalErrors
  BY DEF JournalWriteOk, JournalSynced, JournalVersions
<1>2. JournalWriteFails(new) =>
        \/ journalFile' = journalFile
        \/ journalFile'.now = new /\ JournalVersions(journalFile') = JournalVersions(journalFile) \cup {new}
  BY DEF JournalWriteFails, JournalAfterError, JournalUnsynced, JournalVersions
<1> QED BY Zenon, <1>1, <1>2

\* The versions of the file after a write: no newer than the one written, if that
\* is no older than the record in memory.
LEMMA MigrationWriteReach ==
  ASSUME MigrationConstants, MigrationTypeOK, ReachInv, daemonUp, NEW new \in Record,
         JournalWriteOk(new) \/ JournalWriteFails(new), active' = active,
         Reached(new) <= active, ActiveFormat(record, binary) <= Reached(new)
  PROVE  /\ JournalVersions(journalFile') \subseteq Record \cup {NoMigration} /\ journalErrors' \in 0 .. MaxJournalErrors
         /\ \A r \in JournalVersions(journalFile') : Reached(r) <= Reached(new)
         /\ \A r \in JournalVersions(journalFile') : /\ Reached(r) <= active'
                                         /\ Reached(r) <= ActiveFormat(journalFile'.now, active')
<1> DEFINE AF == ActiveFormat(record, binary)
<1>1. JournalVersions(journalFile) \subseteq Record \cup {NoMigration} /\ active \in Version /\ active \in Int
  BY DEF MigrationTypeOK, Version
<1>2. AF \in Int
  <2>1. record \in Record \cup {NoMigration} /\ binary \in Version BY Zenon DEF MigrationTypeOK
  <2> QED BY Zenon, <2>1, MigrationActiveVersion
<1>3. Reached(new) \in Int /\ ActiveFormat(new, active) = Reached(new)
  BY Zenon, MigrationRecordDecides
<1>4. ASSUME NEW r \in JournalVersions(journalFile) PROVE Reached(r) \in Int /\ Reached(r) <= Reached(new)
  <2>1. Reached(r) <= AF BY Zenon, <1>4 DEF ReachInv
  <2>2. Reached(r) \in Int BY Zenon, <1>1, <1>4, MigrationReachedLow
  <2> HIDE DEF AF
  <2>3. AF <= Reached(new) BY Zenon DEF AF
  <2> QED BY <2>1, <2>2, <2>3, <1>2, <1>3
<1>5. journalErrors' \in 0 .. MaxJournalErrors
  <2>1. journalErrors \in 0 .. MaxJournalErrors BY Zenon DEF MigrationTypeOK
  <2> QED BY <2>1 DEF JournalWriteOk, JournalWriteFails, MigrationConstants
<1>6. \/ journalFile' = journalFile
      \/ journalFile'.now = new /\ JournalVersions(journalFile') = {new}
      \/ journalFile'.now = new /\ JournalVersions(journalFile') = JournalVersions(journalFile) \cup {new}
  BY Zenon, MigrationWritten
<1>7. CASE journalFile' = journalFile
  <2>1. JournalVersions(journalFile') = JournalVersions(journalFile) /\ journalFile'.now = journalFile.now BY Zenon, <1>7
  <2>2. \A r \in JournalVersions(journalFile) : Reached(r) <= active /\ Reached(r) <= ActiveFormat(journalFile.now, active)
    BY Zenon DEF ReachInv
  <2> QED BY Zenon, <1>1, <1>4, <1>5, <2>1, <2>2
<1>8. CASE journalFile'.now = new /\ JournalVersions(journalFile') \subseteq JournalVersions(journalFile) \cup {new}
  <2>1. Reached(new) <= Reached(new) BY <1>3
  <2>2. \A r \in JournalVersions(journalFile') : Reached(r) \in Int /\ Reached(r) <= Reached(new)
    BY Zenon, <1>3, <1>4, <1>8, <2>1
  <2>3. \A r \in JournalVersions(journalFile') : Reached(r) <= active
    <3> TAKE r \in JournalVersions(journalFile')
    <3>1. Reached(r) \in Int /\ Reached(r) <= Reached(new) BY Zenon, <2>2
    <3> QED BY <1>1, <1>3, <3>1
  <2>4. ActiveFormat(journalFile'.now, active') = Reached(new) BY Zenon, <1>3, <1>8
  <2>5. JournalVersions(journalFile') \subseteq Record \cup {NoMigration} BY Zenon, <1>1, <1>8
  <2> QED BY Zenon, <1>5, <2>2, <2>3, <2>4, <2>5
<1>9. {new} \subseteq JournalVersions(journalFile) \cup {new} OBVIOUS
<1> QED BY Zenon, <1>6, <1>7, <1>8, <1>9

\* While every transition was written: the versions after a write that the
\* catalog follows are followed, and a record that is validating stays alone.
LEMMA MigrationWriteSync ==
  ASSUME MigrationConstants, MigrationTypeOK, SyncInv, ~lagging, NEW new \in Record,
         active' = active, Follows(new),
         JournalWriteOk(new) \/ (JournalWriteFails(new) /\ ~IsValidating(new))
  PROVE  /\ \A r \in JournalVersions(journalFile') : Follows(r)'
         /\ IsValidating(journalFile'.now) => JournalVersions(journalFile') = {journalFile'.now}
<1>1. \A r \in JournalVersions(journalFile) : Follows(r) BY Zenon DEF SyncInv
<1>2. IsValidating(journalFile.now) => JournalVersions(journalFile) = {journalFile.now} BY Zenon DEF SyncInv
<1>3. ASSUME NEW r, Follows(r) PROVE Follows(r)'
  BY Zenon, <1>3 DEF Follows
<1>4. CASE journalFile' = journalFile
  <2>1. JournalVersions(journalFile') = JournalVersions(journalFile) /\ journalFile'.now = journalFile.now BY Zenon, <1>4
  <2> QED BY Zenon, <1>1, <1>2, <1>3, <2>1
<1>5. CASE journalFile'.now = new /\ JournalVersions(journalFile') = {new}
  BY Zenon, <1>3, <1>5
<1>6. CASE journalFile'.now = new /\ JournalVersions(journalFile') = JournalVersions(journalFile) \cup {new} /\ ~IsValidating(new)
  BY Zenon, <1>1, <1>3, <1>6
<1> QED BY Zenon, MigrationWritten, <1>4, <1>5, <1>6

\* begin.
LEMMA MigrationBeginStep ==
  ASSUME MigrationConstants, MigrationIInv, NEW to \in Version, BeginMigration(to)
  PROVE  MigrationIInv'
<1> DEFINE AF == ActiveFormat(record, binary)
           new == [from |-> AF, to |-> to, state |-> "Copying"]
<1>1. /\ MigrationTypeOK /\ ReachInv /\ SyncInv /\ TurnInv /\ daemonUp
      /\ record \in Record \cup {NoMigration} /\ binary \in Version
  BY Zenon DEF MigrationIInv, BeginMigration, MigrationTypeOK
<1>2. AF \in Version /\ AF \in Int BY Zenon, <1>1, MigrationActiveVersion
<1>3. new \in Record /\ new.from = AF /\ new.to = to /\ new.state = "Copying"
  <2>1. to > AF BY Zenon DEF BeginMigration
  <2> HIDE DEF AF
  <2> QED BY Zenon, <1>2, <2>1, MigrationNewRecord
<1>4. /\ ~IsPartial(record) /\ UNCHANGED <<daemonUp, binary, turn, active, copied, lagging, journalCrashes>>
      /\ (JournalWriteOk(new) /\ record' = new) \/ (JournalWriteFails(new) /\ record' = record)
  BY Zenon DEF BeginMigration
<1>5. \A w \in MigrationWorker : turn[w] = NoMigration BY Zenon, <1>1, <1>4 DEF TurnInv
<1> HIDE DEF new
<1>6. /\ Reached(new) = AF /\ new # NoMigration /\ ActiveFormat(new, binary) = AF
      /\ ActiveFormat(new, active) = AF /\ IsPartial(new)
  <2>1. new.state # "Published" BY <1>3
  <2> QED BY Zenon, <1>3, <2>1, MigrationRecordDecides
<1>7. binary <= AF /\ AF <= active BY Zenon, <1>1 DEF ReachInv
<1>8. AF <= AF BY <1>2
<1>9. /\ JournalVersions(journalFile') \subseteq Record \cup {NoMigration} /\ journalErrors' \in 0 .. MaxJournalErrors
      /\ \A r \in JournalVersions(journalFile') : Reached(r) <= Reached(new)
      /\ \A r \in JournalVersions(journalFile') : /\ Reached(r) <= active'
                                   /\ Reached(r) <= ActiveFormat(journalFile'.now, active')
  <2>1. (JournalWriteOk(new) \/ JournalWriteFails(new)) /\ active' = active BY Zenon, <1>4
  <2>2. Reached(new) <= active /\ ActiveFormat(record, binary) <= Reached(new)
    BY Zenon, <1>6, <1>7, <1>8
  <2> HIDE DEF AF
  <2> QED BY Zenon, <1>1, <1>3, <2>1, <2>2, MigrationWriteReach
<1>10. ActiveFormat(record', binary') = AF BY Zenon, <1>4, <1>6
<1>11. MigrationTypeOK'
  <2>1. record' \in Record \cup {NoMigration} BY Zenon, <1>1, <1>3, <1>4
  <2> QED BY Zenon, <1>1, <1>4, <1>9, <2>1 DEF MigrationTypeOK
<1>12. TurnInv' BY Zenon, <1>4, <1>5 DEF TurnInv
<1>13. ReachInv' BY Zenon, <1>1, <1>4, <1>6, <1>7, <1>9, <1>10 DEF ReachInv
<1>14. SyncInv'
  <2> SUFFICES ASSUME ~lagging' PROVE SyncInv' BY Zenon DEF SyncInv
  <2>1. ~lagging BY Zenon, <1>4
  <2>2. AF = active
    <3>1. Follows(record) /\ (record = NoMigration => binary = active)
      BY Zenon, <1>1, <2>1 DEF SyncInv
    <3>2. active = ActiveFormat(record, active) BY Zenon, <1>4, <3>1 DEF Follows
    <3>3. CASE record = NoMigration BY Zenon, <3>1, <3>2, <3>3 DEF ActiveFormat
    <3>4. CASE record \in Record BY Zenon, <3>2, <3>4, MigrationRecordDecides
    <3> QED BY Zenon, <1>1, <3>3, <3>4
  <2>3. Follows(new) BY Zenon, <1>6, <2>2 DEF Follows
  <2>4. ~IsValidating(new) BY <1>3 DEF IsValidating
  <2>5. /\ \A r \in JournalVersions(journalFile') : Follows(r)'
        /\ IsValidating(journalFile'.now) => JournalVersions(journalFile') = {journalFile'.now}
    BY Zenon, <1>1, <1>3, <1>4, <2>1, <2>3, <2>4, MigrationWriteSync
  <2>6. ~IsValidating(record')
    <3>1. ~IsValidating(record) BY <1>4 DEF IsPartial, IsValidating
    <3> QED BY Zenon, <1>4, <2>4, <3>1
  <2>7. Follows(record)' /\ (record' = NoMigration => binary' = active')
    <3>1. Follows(record) /\ (record = NoMigration => binary = active)
      BY Zenon, <1>1, <2>1 DEF SyncInv
    <3>2. record' = new \/ record' = record BY Zenon, <1>4
    <3>3. Follows(record') BY Zenon, <2>3, <3>1, <3>2
    <3>4. active' = active /\ binary' = binary BY Zenon, <1>4
    <3>5. Follows(record)' BY Zenon, <3>3, <3>4 DEF Follows
    <3>6. record' = NoMigration => binary' = active' BY Zenon, <1>6, <3>1, <3>2, <3>4
    <3> QED BY Zenon, <3>5, <3>6
  <2> QED BY Zenon, <2>5, <2>6, <2>7 DEF SyncInv
<1> QED BY Zenon, <1>11, <1>12, <1>13, <1>14 DEF MigrationIInv

\* A worker takes the execution lock and reads the record.
LEMMA MigrationEnterStep ==
  ASSUME MigrationConstants, MigrationIInv, NEW w \in MigrationWorker, Enter(w)
  PROVE  MigrationIInv'
<1> DEFINE t == [record |-> record, step |-> "calling"]
<1>1. /\ MigrationTypeOK /\ ReachInv /\ SyncInv /\ daemonUp /\ IsPartial(record)
      /\ record \in Record \cup {NoMigration} /\ turn \in [MigrationWorker -> Turn \cup {NoMigration}]
      /\ \A v \in MigrationWorker : turn[v] = NoMigration
      /\ turn' = [turn EXCEPT ![w] = t]
      /\ UNCHANGED <<record, journalFile, daemonUp, binary, active, copied, lagging, journalErrors, journalCrashes>>
  BY Zenon DEF MigrationIInv, Enter, MigrationTypeOK
<1>2. record \in Record BY Zenon, <1>1 DEF IsPartial
<1>3. t \in Turn /\ t.record = record /\ t.step = "calling" BY <1>2 DEF Turn
<1> HIDE DEF t
<1>4. turn' \in [MigrationWorker -> Turn \cup {NoMigration}] BY Zenon, <1>1, <1>3
<1>5. turn'[w] = t /\ \A v \in MigrationWorker : v # w => turn'[v] = NoMigration BY Zenon, <1>1
<1>6. MigrationTypeOK' BY Zenon, <1>1, <1>4 DEF MigrationTypeOK
<1>7. ReachInv' BY Zenon, <1>1 DEF ReachInv
<1>8. SyncInv' BY Zenon, <1>1 DEF SyncInv, Follows
<1>9. TurnInv'
  <2> SUFFICES ASSUME NEW v \in MigrationWorker, turn'[v] # NoMigration
               PROVE  /\ daemonUp' /\ record' = turn'[v].record /\ IsPartial(record')
                      /\ turn'[v].step # "called"
                      /\ \A u \in MigrationWorker : turn'[u] # NoMigration => u = v
    BY Zenon DEF TurnInv
  <2>1. v = w BY Zenon, <1>5
  <2>2. turn'[v].step # "called" BY <1>3, <1>5, <2>1
  <2> QED BY Zenon, <1>1, <1>3, <1>5, <2>1, <2>2
<1> QED BY Zenon, <1>6, <1>7, <1>8, <1>9 DEF MigrationIInv

\* What a worker's turn says of the record.
LEMMA MigrationTurnOfRecord ==
  ASSUME MigrationConstants, MigrationIInv, NEW w \in MigrationWorker, turn[w] # NoMigration
  PROVE  /\ daemonUp /\ record = turn[w].record /\ IsPartial(record) /\ record \in Record
         /\ turn[w] \in Turn /\ \A v \in MigrationWorker : v # w => turn[v] = NoMigration
         /\ turn[w].step = "called" /\ record.state = "Validating" => active = record.to
<1>1. /\ daemonUp /\ record = turn[w].record /\ IsPartial(record)
      /\ \A v \in MigrationWorker : v # w => turn[v] = NoMigration
      /\ turn[w].step = "called" /\ record.state = "Validating" => active = record.to
  BY Zenon DEF MigrationIInv, TurnInv
<1>2. turn[w] \in Turn BY Zenon DEF MigrationIInv, MigrationTypeOK
<1>3. record \in Record BY Zenon, <1>1 DEF MigrationIInv, MigrationTypeOK, IsPartial
<1> QED BY Zenon, <1>1, <1>2, <1>3

\* A callback, whether it copies or verifies and publishes.
LEMMA MigrationCallStep ==
  ASSUME MigrationConstants, MigrationIInv, NEW w \in MigrationWorker, Call(w)
  PROVE  MigrationIInv'
<1>1. /\ MigrationTypeOK /\ ReachInv /\ SyncInv /\ turn[w] # NoMigration
      /\ turn \in [MigrationWorker -> Turn \cup {NoMigration}] /\ active \in Version
      /\ turn' = [turn EXCEPT ![w].step = "called"]
      /\ UNCHANGED <<record, journalFile, daemonUp, binary, lagging, journalErrors, journalCrashes>>
  BY Zenon DEF MigrationIInv, Call, MigrationTypeOK
<1>2. /\ daemonUp /\ record = turn[w].record /\ IsPartial(record) /\ record \in Record
      /\ turn[w] \in Turn /\ \A v \in MigrationWorker : v # w => turn[v] = NoMigration
  BY Zenon, <1>1, MigrationTurnOfRecord
<1>3. /\ record.from \in Int /\ record.to \in Version /\ record.to \in Int
      /\ record.from < record.to /\ record # NoMigration /\ Reached(record) = record.from
      /\ ActiveFormat(record, binary) = record.from /\ record.state # "Published"
  BY Zenon, <1>2, MigrationRecordFields, MigrationRecordDecides
<1>4. \/ record.state = "Copying" /\ active' = active /\ copied' = copied \cup {record.to}
      \/ record.state # "Copying" /\ active' = record.to /\ copied' = copied
  BY Zenon, <1>2 DEF Call, Copy, VerifyAndPublish
<1>5. /\ turn' \in [MigrationWorker -> Turn \cup {NoMigration}] /\ turn'[w].record = record
      /\ \A v \in MigrationWorker : v # w => turn'[v] = NoMigration
  BY <1>1, <1>2 DEF Turn
<1>6. MigrationTypeOK'
  <2>1. active' \in Version /\ copied' \subseteq Version
    BY Zenon, <1>1, <1>3, <1>4 DEF MigrationTypeOK
  <2> QED BY Zenon, <1>1, <1>5, <2>1 DEF MigrationTypeOK
<1>7. TurnInv'
  <2> SUFFICES ASSUME NEW v \in MigrationWorker, turn'[v] # NoMigration
               PROVE  /\ daemonUp' /\ record' = turn'[v].record /\ IsPartial(record')
                      /\ turn'[v].step = "called" /\ record'.state = "Validating" => active' = record'.to
                      /\ \A u \in MigrationWorker : turn'[u] # NoMigration => u = v
    BY Zenon DEF TurnInv
  <2>1. v = w BY Zenon, <1>5
  <2>2. record.state = "Validating" => active' = record.to BY <1>4
  <2> QED BY Zenon, <1>1, <1>2, <1>5, <2>1, <2>2
<1>8. CASE active' = active
  <2>1. ReachInv' BY Zenon, <1>1, <1>8 DEF ReachInv
  <2>2. SyncInv' BY Zenon, <1>1, <1>8 DEF SyncInv, Follows
  <2> QED BY Zenon, <1>6, <1>7, <2>1, <2>2 DEF MigrationIInv
<1>9. CASE active' = record.to /\ record.state # "Copying"
  <2>1. ReachInv'
    <3>1. binary <= record.from BY Zenon, <1>2, <1>1, <1>3 DEF ReachInv
    <3>2. record.from <= record.to BY <1>3
    <3>3. ASSUME NEW r \in JournalVersions(journalFile)
          PROVE  /\ Reached(r) <= record.to /\ Reached(r) <= ActiveFormat(journalFile.now, record.to)
                 /\ Reached(r) <= record.from
      <4>1. /\ Reached(r) <= record.from /\ Reached(r) <= ActiveFormat(journalFile.now, active)
            /\ r \in Record \cup {NoMigration}
        BY Zenon, <1>1, <1>2, <1>3, <3>3 DEF ReachInv, MigrationTypeOK
      <4>2. Reached(r) \in Int BY Zenon, <1>1, <4>1, MigrationReachedLow
      <4>3. Reached(r) <= record.to BY <1>3, <4>1, <4>2
      <4>4. CASE journalFile.now = NoMigration
        <5>1. ActiveFormat(journalFile.now, record.to) = record.to
          BY Zenon, <4>4 DEF ActiveFormat
        <5> QED BY Zenon, <4>1, <4>3, <5>1
      <4>5. CASE journalFile.now \in Record BY Zenon, <4>1, <4>3, <4>5, MigrationRecordDecides
      <4>6. journalFile.now \in Record \cup {NoMigration} BY Zenon, <1>1 DEF MigrationTypeOK, JournalVersions
      <4> QED BY Zenon, <4>4, <4>5, <4>6
    <3>4. ActiveFormat(record', binary') = record.from BY Zenon, <1>1, <1>3
    <3>5. journalFile' = journalFile /\ active' = record.to /\ binary' = binary BY Zenon, <1>1, <1>9
    <3>6. \A r \in JournalVersions(journalFile') : /\ Reached(r) <= active'
                                      /\ Reached(r) <= ActiveFormat(journalFile'.now, active')
                                      /\ Reached(r) <= ActiveFormat(record', binary')
      BY Zenon, <3>3, <3>4, <3>5
    <3>7. binary' <= ActiveFormat(record', binary') /\ ActiveFormat(record', binary') <= active'
      BY Zenon, <3>1, <3>2, <3>4, <3>5
    <3> QED BY Zenon, <1>1, <1>2, <3>6, <3>7 DEF ReachInv
  <2>2. SyncInv'
    <3> SUFFICES ASSUME ~lagging' PROVE SyncInv' BY Zenon DEF SyncInv
    <3>1. IsValidating(record) BY <1>3, <1>9, <1>2, MigrationRecordFields DEF IsValidating
    <3>2. JournalVersions(journalFile) = {record} BY Zenon, <1>1, <3>1 DEF SyncInv
    <3>3. Follows(record)' BY Zenon, <1>1, <1>2, <1>9 DEF Follows
    <3>4. journalFile.now = record BY Zenon, <3>2 DEF JournalVersions
    <3> QED BY ZenonT(60), <1>1, <1>3, <3>2, <3>3, <3>4 DEF SyncInv
  <2> QED BY Zenon, <1>6, <1>7, <2>1, <2>2 DEF MigrationIInv
<1> QED BY Zenon, <1>4, <1>8, <1>9

\* A failed callback ends the turn.
LEMMA MigrationCallFailsStep ==
  ASSUME MigrationConstants, MigrationIInv, NEW w \in MigrationWorker, CallFails(w)
  PROVE  MigrationIInv'
<1>1. /\ MigrationTypeOK /\ ReachInv /\ SyncInv /\ turn[w] # NoMigration
      /\ turn \in [MigrationWorker -> Turn \cup {NoMigration}]
      /\ turn' = [turn EXCEPT ![w] = NoMigration]
      /\ UNCHANGED <<record, journalFile, daemonUp, binary, active, copied, lagging, journalErrors, journalCrashes>>
  BY Zenon DEF MigrationIInv, CallFails, MigrationTypeOK
<1>2. \A v \in MigrationWorker : v # w => turn[v] = NoMigration BY Zenon, <1>1, MigrationTurnOfRecord
<1>3. turn' \in [MigrationWorker -> Turn \cup {NoMigration}] /\ \A v \in MigrationWorker : turn'[v] = NoMigration
  BY Zenon, <1>1, <1>2
<1>4. MigrationTypeOK' BY Zenon, <1>1, <1>3 DEF MigrationTypeOK
<1>5. TurnInv' BY Zenon, <1>3 DEF TurnInv
<1>6. ReachInv' BY Zenon, <1>1 DEF ReachInv
<1>7. SyncInv' BY ZenonT(60), <1>1 DEF SyncInv, Follows
<1> QED BY Zenon, <1>4, <1>5, <1>6, <1>7 DEF MigrationIInv

\* A transition, written or not.
LEMMA MigrationTransitionStep ==
  ASSUME MigrationConstants, MigrationIInv, NEW w \in MigrationWorker, Transition(w)
  PROVE  MigrationIInv'
<1> DEFINE new == Advanced(record)
<1>1. /\ MigrationTypeOK /\ ReachInv /\ SyncInv /\ turn[w] # NoMigration /\ turn[w].step = "called"
      /\ turn \in [MigrationWorker -> Turn \cup {NoMigration}] /\ binary \in Version /\ active \in Version
      /\ turn' = [turn EXCEPT ![w] = NoMigration] /\ record' = new
      /\ (JournalWriteOk(new) /\ lagging' = lagging) \/ (JournalWriteFails(new) /\ lagging' = TRUE)
      /\ UNCHANGED <<daemonUp, binary, active, copied, journalCrashes>>
  BY Zenon DEF MigrationIInv, Transition, MigrationTypeOK
<1>2. /\ daemonUp /\ record = turn[w].record /\ IsPartial(record) /\ record \in Record
      /\ \A v \in MigrationWorker : v # w => turn[v] = NoMigration
      /\ record.state = "Validating" => active = record.to
  BY Zenon, <1>1, MigrationTurnOfRecord
<1>3. /\ record.from \in Int /\ record.to \in Int /\ record.from < record.to /\ record # NoMigration
      /\ record.state \in {"Copying", "Validating"}
      /\ ActiveFormat(record, binary) = record.from /\ ActiveFormat(record, active) = record.from
  BY Zenon, <1>2, MigrationRecordFields, MigrationRecordDecides DEF IsPartial
<1>4. /\ new \in Record /\ new.from = record.from /\ new.to = record.to /\ new # NoMigration
      /\ record.state = "Copying" => new.state = "Validating"
      /\ record.state # "Copying" => new.state = "Published"
      /\ ActiveFormat(new, binary) = Reached(new) /\ ActiveFormat(new, active) = Reached(new)
  BY ZenonT(60), <1>2, MigrationAdvancedRecord, MigrationRecordDecides
<1> HIDE DEF new
<1>5. /\ record.state = "Copying" => Reached(new) = record.from
      /\ record.state # "Copying" => Reached(new) = record.to
  <2>1. record.state = "Copying" => new.state # "Published" BY <1>4
  <2> QED BY Zenon, <1>4, <2>1, MigrationRecordDecides
<1>6. binary <= record.from /\ record.from <= active /\ binary \in Int /\ active \in Int
  <2>1. binary \in Int /\ active \in Int BY <1>1 DEF Version
  <2> QED BY Zenon, <1>1, <1>2, <1>3, <2>1 DEF ReachInv
<1>7. Reached(new) <= active /\ record.from <= Reached(new) /\ binary <= Reached(new)
  <2>1. CASE record.state = "Copying"
    <3>1. Reached(new) = record.from BY Zenon, <1>5, <2>1
    <3> QED BY <1>3, <1>6, <3>1
  <2>2. CASE record.state = "Validating"
    <3>1. Reached(new) = record.to /\ active = record.to BY <1>2, <1>5, <2>2
    <3> QED BY SMTT(60), <1>3, <1>6, <3>1
  <2> QED BY Zenon, <1>3, <2>1, <2>2
<1>8. /\ JournalVersions(journalFile') \subseteq Record \cup {NoMigration} /\ journalErrors' \in 0 .. MaxJournalErrors
      /\ \A r \in JournalVersions(journalFile') : Reached(r) <= Reached(new)
      /\ \A r \in JournalVersions(journalFile') : /\ Reached(r) <= active'
                                   /\ Reached(r) <= ActiveFormat(journalFile'.now, active')
  <2>1. (JournalWriteOk(new) \/ JournalWriteFails(new)) /\ active' = active BY Zenon, <1>1
  <2>2. ActiveFormat(record, binary) <= Reached(new) BY Zenon, <1>3, <1>7
  <2> QED BY Zenon, <1>1, <1>2, <1>4, <1>7, <2>1, <2>2, MigrationWriteReach
<1>9. turn' \in [MigrationWorker -> Turn \cup {NoMigration}] /\ \A v \in MigrationWorker : turn'[v] = NoMigration
  BY Zenon, <1>1, <1>2
<1>10. MigrationTypeOK'
  <2>1. record' \in Record \cup {NoMigration} BY Zenon, <1>1, <1>4
  <2>2. lagging' \in BOOLEAN BY Zenon, <1>1 DEF MigrationTypeOK
  <2> QED BY Zenon, <1>1, <1>8, <1>9, <2>1, <2>2 DEF MigrationTypeOK
<1>11. TurnInv' BY Zenon, <1>9 DEF TurnInv
<1>12. ReachInv'
  <2>1. ActiveFormat(record', binary') = Reached(new) BY Zenon, <1>1, <1>4
  <2>2. daemonUp' /\ binary' = binary /\ active' = active BY Zenon, <1>1, <1>2
  <2> QED BY Zenon, <1>7, <1>8, <2>1, <2>2 DEF ReachInv
<1>13. SyncInv'
  <2> SUFFICES ASSUME ~lagging' PROVE SyncInv' BY Zenon DEF SyncInv
  <2>1. JournalWriteOk(new) /\ ~lagging
    <3>1. CASE JournalWriteOk(new) /\ lagging' = lagging BY Zenon, <3>1
    <3>2. CASE lagging' = TRUE BY <3>2
    <3> QED BY Zenon, <1>1, <3>1, <3>2
  <2>2. Follows(record) BY Zenon, <1>1, <1>2, <2>1 DEF SyncInv
  <2>3. Follows(new)
    <3>1. CASE record.state = "Copying"
      <4>1. active # record.from => record.to = active BY Zenon, <1>3, <2>2 DEF Follows
      <4>2. IsPartial(new) BY ZenonT(60), <1>4, <3>1 DEF IsPartial
      <4> QED BY ZenonT(60), <1>4, <1>5, <3>1, <4>1, <4>2 DEF Follows
    <3>2. CASE record.state = "Validating"
      <4>1. ActiveFormat(new, active) = active BY <1>2, <1>4, <1>5, <3>2
      <4> QED BY Zenon, <4>1 DEF Follows
    <3> QED BY Zenon, <1>3, <3>1, <3>2
  <2>4. /\ \A r \in JournalVersions(journalFile') : Follows(r)'
        /\ IsValidating(journalFile'.now) => JournalVersions(journalFile') = {journalFile'.now}
    BY Zenon, <1>1, <1>4, <2>1, <2>3, MigrationWriteSync
  <2>5. JournalVersions(journalFile') = {record'} BY Zenon, <1>1, <2>1, MigrationWritten
  <2>6. Follows(record)' /\ record' # NoMigration BY Zenon, <1>1, <1>4, <2>3 DEF Follows
  <2> QED BY ZenonT(60), <2>4, <2>5, <2>6 DEF SyncInv
<1> QED BY Zenon, <1>10, <1>11, <1>12, <1>13 DEF MigrationIInv

\* A kill or a power loss: memory is gone, one version of the file is left.
LEMMA MigrationDownStep ==
  ASSUME MigrationConstants, MigrationIInv, KillDaemon \/ JournalPowerLoss
  PROVE  MigrationIInv'
<1>1. /\ MigrationTypeOK /\ ReachInv /\ SyncInv /\ ~daemonUp' /\ record' = NoMigration /\ active \in Version
      /\ turn' = [w \in MigrationWorker |-> NoMigration] /\ journalCrashes < MaxJournalCrashes /\ journalCrashes' = journalCrashes + 1
      /\ UNCHANGED <<binary, active, copied, lagging, journalErrors>>
  BY Zenon DEF MigrationIInv, KillDaemon, JournalPowerLoss, DaemonDown, MigrationTypeOK
<1>2. journalFile' = journalFile \/ \E r \in JournalVersions(journalFile) : journalFile'.now = r /\ JournalVersions(journalFile') = {r}
  BY DEF KillDaemon, JournalPowerLoss, JournalAfterPowerLoss, JournalSynced, JournalVersions
<1>3. JournalVersions(journalFile') \subseteq JournalVersions(journalFile) BY Zenon, <1>2
<1>4. MigrationTypeOK'
  <2>1. journalCrashes' \in 0 .. MaxJournalCrashes BY <1>1 DEF MigrationTypeOK, MigrationConstants
  <2>2. daemonUp' \in BOOLEAN BY Zenon DEF KillDaemon, JournalPowerLoss, DaemonDown
  <2>3. turn' \in [MigrationWorker -> Turn \cup {NoMigration}] BY Zenon, <1>1
  <2> QED BY Zenon, <1>1, <1>3, <2>1, <2>2, <2>3 DEF MigrationTypeOK
<1>5. TurnInv'
  <2>1. \A w \in MigrationWorker : turn'[w] = NoMigration BY Zenon, <1>1
  <2> QED BY Zenon, <2>1 DEF TurnInv
<1>6. ReachInv'
  <2>1. \A r \in JournalVersions(journalFile') : Reached(r) <= active'
    BY Zenon, <1>1, <1>3 DEF ReachInv
  <2>2. ASSUME NEW r \in JournalVersions(journalFile') PROVE Reached(r) <= ActiveFormat(journalFile'.now, active')
    <3>1. CASE journalFile' = journalFile BY Zenon, <1>1, <2>2, <3>1 DEF ReachInv
    <3>2. CASE journalFile'.now = r /\ r \in JournalVersions(journalFile)
      <4>1. r \in Record \cup {NoMigration} BY Zenon, <1>1, <3>2 DEF MigrationTypeOK
      <4> QED BY Zenon, <1>1, <3>2, <4>1, MigrationReachedLow
    <3> QED BY Zenon, <1>2, <2>2, <3>1, <3>2
  <2> QED BY Zenon, <1>1, <2>1, <2>2 DEF ReachInv
<1>7. SyncInv'
  <2> SUFFICES ASSUME ~lagging' PROVE SyncInv' BY Zenon DEF SyncInv
  <2>1. \A r \in JournalVersions(journalFile') : Follows(r)'
    BY Zenon, <1>1, <1>3 DEF SyncInv, Follows
  <2>2. IsValidating(journalFile'.now) => JournalVersions(journalFile') = {journalFile'.now}
    BY Zenon, <1>1, <1>2 DEF SyncInv
  <2>3. ~IsValidating(record') BY Zenon, <1>1 DEF IsValidating
  <2> QED BY Zenon, <1>1, <2>1, <2>2, <2>3 DEF SyncInv
<1> QED BY Zenon, <1>4, <1>5, <1>6, <1>7 DEF MigrationIInv

\* A daemon opens the journal.
LEMMA MigrationOpenStep ==
  ASSUME MigrationConstants, MigrationIInv, NEW b \in Version, OpenDaemon(b)
  PROVE  MigrationIInv'
<1>1. /\ MigrationTypeOK /\ ReachInv /\ SyncInv /\ TurnInv /\ ~daemonUp /\ daemonUp' /\ (journalFile.now = NoMigration => b = active)
      /\ ActiveFormat(journalFile.now, b) = b /\ record' = journalFile.now /\ binary' = b
      /\ UNCHANGED <<journalFile, turn, active, copied, lagging, journalErrors, journalCrashes>>
      /\ active \in Version /\ daemonUp' \in BOOLEAN
  BY Zenon DEF MigrationIInv, OpenDaemon, MigrationTypeOK
<1>2. journalFile.now \in JournalVersions(journalFile) BY DEF JournalVersions
<1>3. journalFile.now \in Record \cup {NoMigration} BY Zenon, <1>1, <1>2 DEF MigrationTypeOK
<1>4. b = ActiveFormat(journalFile.now, active)
  <2>1. CASE journalFile.now = NoMigration BY Zenon, <1>1, <2>1 DEF ActiveFormat
  <2>2. CASE journalFile.now \in Record BY Zenon, <1>1, <2>2, MigrationRecordDecides
  <2> QED BY Zenon, <1>3, <2>1, <2>2
<1>5. b <= active /\ b <= b
  <2>1. b \in Int /\ active \in Int BY <1>1 DEF Version
  <2>2. CASE journalFile.now = NoMigration
    <3>1. b = active BY Zenon, <1>1, <2>2
    <3> QED BY <2>1, <3>1
  <2>3. CASE journalFile.now \in Record
    <3>1. b = Reached(journalFile.now) BY Zenon, <1>1, <2>3, MigrationRecordDecides
    <3>2. Reached(journalFile.now) <= active BY Zenon, <1>1, <1>2 DEF ReachInv
    <3> QED BY <2>1, <3>1, <3>2
  <2> QED BY Zenon, <1>3, <2>2, <2>3
<1>6. MigrationTypeOK' BY Zenon, <1>1, <1>3 DEF MigrationTypeOK
<1>7. TurnInv'
  <2>1. \A w \in MigrationWorker : turn[w] = NoMigration BY Zenon, <1>1 DEF TurnInv
  <2> QED BY Zenon, <1>1, <2>1 DEF TurnInv
<1>8. ReachInv'
  <2>1. \A r \in JournalVersions(journalFile') : /\ Reached(r) <= active'
                                  /\ Reached(r) <= ActiveFormat(journalFile'.now, active')
    BY Zenon, <1>1 DEF ReachInv
  <2>2. \A r \in JournalVersions(journalFile') : Reached(r) <= b BY Zenon, <1>1, <1>4, <2>1
  <2>3. ActiveFormat(record', binary') = b BY Zenon, <1>1
  <2> QED BY Zenon, <1>1, <1>5, <2>1, <2>2, <2>3 DEF ReachInv
<1>9. SyncInv' BY Zenon, <1>1, <1>2 DEF SyncInv, Follows
<1> QED BY Zenon, <1>6, <1>7, <1>8, <1>9 DEF MigrationIInv

\* At first there is no record, and the catalog has the oldest format.
LEMMA MigrationInitIInv ==
  ASSUME MigrationConstants, MigrationInit
  PROVE  MigrationIInv
<1>1. 1 \in Version BY Zenon, MigrationOneVersion
<1>2. /\ record = NoMigration /\ journalFile.now = NoMigration /\ JournalVersions(journalFile) = {NoMigration}
      /\ daemonUp = FALSE /\ binary = 1 /\ turn = [w \in MigrationWorker |-> NoMigration]
      /\ active = 1 /\ copied = {1} /\ lagging = FALSE /\ journalErrors = 0 /\ journalCrashes = 0
  BY DEF MigrationInit, JournalSynced, JournalVersions
<1>3. \A w \in MigrationWorker : turn[w] = NoMigration BY Zenon, <1>2
<1>4. MigrationTypeOK
  <2>1. journalErrors \in 0 .. MaxJournalErrors /\ journalCrashes \in 0 .. MaxJournalCrashes
    BY <1>2 DEF MigrationConstants
  <2>2. copied \subseteq Version /\ JournalVersions(journalFile) \subseteq Record \cup {NoMigration}
        /\ daemonUp \in BOOLEAN /\ lagging \in BOOLEAN
    BY Zenon, <1>1, <1>2
  <2>3. turn \in [MigrationWorker -> Turn \cup {NoMigration}] BY Zenon, <1>2
  <2> QED BY Zenon, <1>1, <1>2, <2>1, <2>2, <2>3 DEF MigrationTypeOK
<1>5. TurnInv BY Zenon, <1>3 DEF TurnInv
<1>6. ActiveFormat(NoMigration, 1) = 1 /\ 1 <= 1 BY DEF ActiveFormat
<1>7. ReachInv BY <1>2, <1>6 DEF ReachInv, Reached
<1>8. SyncInv BY <1>2, <1>6 DEF SyncInv, Follows, IsValidating
<1> QED BY Zenon, <1>4, <1>5, <1>7, <1>8 DEF MigrationIInv

\* Every step of the journal preserves the invariant.
LEMMA MigrationIInvStep ==
  ASSUME MigrationConstants, MigrationIInv, [MigrationNext]_migrationVars
  PROVE  MigrationIInv'
<1>1. CASE UNCHANGED migrationVars
  <2>1. UNCHANGED <<record, journalFile, daemonUp, binary, turn, active, copied, lagging, journalErrors, journalCrashes>>
    BY Zenon, <1>1 DEF migrationVars
  <2>2. MigrationTypeOK' BY Zenon, <2>1 DEF MigrationIInv, MigrationTypeOK
  <2>3. TurnInv' BY Zenon, <2>1 DEF MigrationIInv, TurnInv
  <2>4. ReachInv' BY Zenon, <2>1 DEF MigrationIInv, ReachInv
  <2>5. SyncInv' BY Zenon, <2>1 DEF MigrationIInv, SyncInv, Follows
  <2> QED BY Zenon, <2>2, <2>3, <2>4, <2>5 DEF MigrationIInv
<1>2. ASSUME NEW v \in Version, BeginMigration(v) PROVE MigrationIInv' BY Zenon, <1>2, MigrationBeginStep
<1>3. ASSUME NEW v \in Version, OpenDaemon(v) PROVE MigrationIInv' BY Zenon, <1>3, MigrationOpenStep
<1>4. ASSUME NEW w \in MigrationWorker, Enter(w) PROVE MigrationIInv' BY Zenon, <1>4, MigrationEnterStep
<1>5. ASSUME NEW w \in MigrationWorker, Call(w) PROVE MigrationIInv' BY Zenon, <1>5, MigrationCallStep
<1>6. ASSUME NEW w \in MigrationWorker, CallFails(w) PROVE MigrationIInv'
  BY Zenon, <1>6, MigrationCallFailsStep
<1>7. ASSUME NEW w \in MigrationWorker, Transition(w) PROVE MigrationIInv'
  BY Zenon, <1>7, MigrationTransitionStep
<1>8. CASE KillDaemon \/ JournalPowerLoss BY Zenon, <1>8, MigrationDownStep
<1> QED BY Zenon, <1>1, <1>2, <1>3, <1>4, <1>5, <1>6, <1>7, <1>8 DEF MigrationNext

\* The invariant holds in every state of the journal.
LEMMA MigrationInvariance ==
  ASSUME MigrationConstants
  PROVE  MigrationSpec => []MigrationIInv
<1>1. MigrationInit => MigrationIInv BY Zenon, MigrationInitIInv
<1>2. MigrationIInv /\ [MigrationNext]_migrationVars => MigrationIInv' BY Zenon, MigrationIInvStep
<1> QED BY <1>1, <1>2, PTL DEF MigrationSpec

\* The marker in memory and every version of the file that says published names a
\* format the catalog was switched to.
THEOREM MarkersAfterSwitch ==
  ASSUME MigrationConstants
  PROVE  MigrationSpec => []MarkerAfterSwitch
<1>1. MigrationIInv => MarkerAfterSwitch
  <2> SUFFICES ASSUME MigrationIInv, NEW r \in JournalVersions(journalFile) \cup {record}, r # NoMigration, r.state = "Published"
               PROVE  active >= r.to
    BY Zenon DEF MarkerAfterSwitch
  <2>1. r \in Record /\ active \in Int BY DEF MigrationIInv, MigrationTypeOK, Version
  <2>2. Reached(r) = r.to /\ ActiveFormat(r, binary) = r.to /\ r.to \in Int
    BY Zenon, <2>1, MigrationRecordDecides, MigrationRecordFields
  <2>3. Reached(r) <= active
    <3>1. CASE r \in JournalVersions(journalFile) BY Zenon, <3>1 DEF MigrationIInv, ReachInv
    <3>2. CASE r = record
      <4>1. daemonUp BY Zenon, <3>2 DEF MigrationIInv, ReachInv
      <4> QED BY Zenon, <2>2, <3>2, <4>1 DEF MigrationIInv, ReachInv
    <3> QED BY Zenon, <3>1, <3>2
  <2> QED BY <2>1, <2>2, <2>3
<1> QED BY <1>1, MigrationInvariance, PTL

\* A callback runs for the record the journal holds.
THEOREM CallbacksCurrent ==
  ASSUME MigrationConstants
  PROVE  MigrationSpec => []CallbackCurrent
<1>1. MigrationIInv => CallbackCurrent BY Zenon DEF MigrationIInv, TurnInv, CallbackCurrent
<1> QED BY <1>1, MigrationInvariance, PTL

\* The daemon and its record agree on the format the daemon serves.
THEOREM FormatsServed ==
  ASSUME MigrationConstants
  PROVE  MigrationSpec => []ServesItsFormat
<1>1. MigrationIInv => ServesItsFormat BY Zenon DEF MigrationIInv, ReachInv, ServesItsFormat
<1> QED BY <1>1, MigrationInvariance, PTL

\* While every transition was written, the catalog is ahead of the journal by at
\* most the migration the journal holds.
THEOREM SwitchesRecoverable ==
  ASSUME MigrationConstants
  PROVE  MigrationSpec => []SwitchRecoverable
<1>1. MigrationIInv => SwitchRecoverable
  BY Zenon DEF MigrationIInv, SyncInv, SwitchRecoverable, Follows
<1> QED BY <1>1, MigrationInvariance, PTL

\* The catalog is switched to complete formats only and, while every transition
\* was written, to newer ones only.
THEOREM SwitchesForward ==
  ASSUME MigrationConstants
  PROVE  MigrationSpec => SwitchForward
<1> DEFINE Forward == active' # active => active' \in copied /\ (~lagging => active' > active)
<1>1. ASSUME MigrationIInv, MigrationNext PROVE Forward
  <2> SUFFICES ASSUME active' # active PROVE Forward BY Zenon
  <2>1. PICK w \in MigrationWorker : Call(w)
    BY Zenon, <1>1 DEF MigrationNext, BeginMigration, OpenDaemon, Enter, CallFails, Transition,
         KillDaemon, JournalPowerLoss, DaemonDown
  <2>2. turn[w] # NoMigration /\ active' = turn[w].record.to /\ turn[w].record.to \in copied
    BY Zenon, <2>1 DEF Call, Copy, VerifyAndPublish
  <2>3. daemonUp /\ record = turn[w].record /\ IsPartial(record) /\ record \in Record
    BY Zenon, <1>1, <2>2, MigrationTurnOfRecord
  <2>4. /\ record.from \in Int /\ record.to \in Int /\ record.from < record.to
        /\ ActiveFormat(record, active) = record.from
    BY Zenon, <2>3, MigrationRecordFields, MigrationRecordDecides
  <2>5. ~lagging => active = record.from
    <3>1. ~lagging => Follows(record) BY Zenon, <1>1, <2>3 DEF MigrationIInv, SyncInv
    <3> QED BY ZenonT(60), <2>2, <2>3, <2>4, <3>1 DEF Follows
  <2>6. ~lagging => active' > active BY <2>2, <2>3, <2>4, <2>5
  <2> QED BY Zenon, <2>2, <2>6
<1>2. MigrationIInv /\ [MigrationNext]_migrationVars => [Forward]_migrationVars BY Zenon, <1>1
<1>3. MigrationSpec => []MigrationIInv BY ZenonT(60), MigrationInvariance
<1> QED BY <1>2, <1>3, PTL DEF MigrationSpec, SwitchForward

-----------------------------------------------------------------------------
(* Daemon processes exclude each other, for any number of processes, state *)
(* roots and runtime directories, in any configuration.                    *)

\* No process has started at first.
LEMMA LifecycleInitIInv == ProcessInit => ProcessIInv
  BY ZenonT(60) DEF ProcessInit, ProcessIInv, Tables, Held,
       Sound, Inside, ProcessSteps

\* The tables keep their types.
LEMMA LifecycleTablesStep == ProcessIInv /\ [ProcessNext]_processVars => Tables'
<1> SUFFICES ASSUME ProcessIInv, [ProcessNext]_processVars PROVE Tables'
  BY ZenonT(60)
<1> USE DEF ProcessIInv, Tables, ProcessSteps
<1>1. ASSUME NEW p \in Process, StartStep(p) PROVE Tables'
  <2>1. CASE Acquire(p)
    BY <2>1 DEF Acquire
  <2>2. CASE Recover(p)
    BY ZenonT(60), <2>2 DEF Recover, locks
  <2>3. CASE Preflight(p) \/ ReconcileCatalog(p)
    BY ZenonT(60), <2>3 DEF Preflight, ReconcileCatalog, locks
  <2>4. CASE OpenCatalog(p)
    BY ZenonT(60), <2>4 DEF OpenCatalog
  <2>5. CASE BindLock(p)
    BY ZenonT(60), <2>5 DEF BindLock
  <2>6. CASE BindSocket(p)
    BY ZenonT(60), <2>6 DEF BindSocket, locks
  <2> QED
    BY ZenonT(60), <1>1, <2>1, <2>2, <2>3, <2>4, <2>5, <2>6 DEF StartStep
<1>2. ASSUME NEW p \in Process, StartFails(p) \/ KillProcess(p) PROVE Tables'
  BY ZenonT(60), <1>2 DEF Free, StartFails, KillProcess
<1>3. ASSUME NEW p \in Process, Work(p) PROVE Tables'
  BY SMTT(60), <1>3 DEF Work, locks
<1>4. ASSUME NEW p \in Process, Drop(p) PROVE Tables'
  BY ZenonT(60), <1>4 DEF Free, Drop, DropSocket,
       DropRuntimeLock, DropInstanceLock, DropCatalog, locks
<1>5. ASSUME NEW r \in StateRoot, Rebuild(r) PROVE Tables'
  BY ZenonT(60), <1>5 DEF Rebuild, locks
<1>6. CASE UNCHANGED processVars
  BY ZenonT(60), <1>6 DEF processVars, locks
<1> QED
  BY ZenonT(60), <1>1, <1>2, <1>3, <1>4, <1>5, <1>6 DEF ProcessNext

\* A lock is taken only when it is free, and given up by its holder only.
LEMMA LifecycleHeldStep ==
  ASSUME Nobody \notin Process
  PROVE ProcessIInv /\ [ProcessNext]_processVars => Held'
<1> SUFFICES ASSUME ProcessIInv, [ProcessNext]_processVars PROVE Held'
  BY ZenonT(60)
<1> USE DEF ProcessIInv, Tables, Held, Inside, ProcessSteps
<1>1. ASSUME NEW p \in Process, StartStep(p) PROVE Held'
  <2>1. CASE Acquire(p)
    BY ZenonT(60), <2>1 DEF Acquire
  <2>2. CASE Recover(p)
    BY ZenonT(60), <2>2 DEF Recover, locks
  <2>3. CASE Preflight(p) \/ ReconcileCatalog(p)
    BY ZenonT(60), <2>3 DEF Preflight, ReconcileCatalog, locks
  <2>4. CASE OpenCatalog(p)
    BY ZenonT(60), <2>4 DEF OpenCatalog
  <2>5. CASE BindLock(p)
    BY ZenonT(60), <2>5 DEF BindLock
  <2>6. CASE BindSocket(p)
    BY ZenonT(60), <2>6 DEF BindSocket, locks
  <2> QED
    BY ZenonT(60), <1>1, <2>1, <2>2, <2>3, <2>4, <2>5, <2>6 DEF StartStep
<1>2. ASSUME NEW p \in Process, StartFails(p) \/ KillProcess(p) PROVE Held'
  BY SMTT(60), <1>2 DEF Free, StartFails, KillProcess
<1>3. ASSUME NEW p \in Process, Work(p) PROVE Held'
  BY ZenonT(60), <1>3 DEF Work, locks
<1>4. ASSUME NEW p \in Process, Drop(p) PROVE Held'
  <2>1. CASE DropSocket(p)
    BY ZenonT(60), <2>1 DEF DropSocket, locks
  <2>2. CASE DropRuntimeLock(p)
    BY ZenonT(60), <2>2 DEF Free, DropRuntimeLock
  <2>3. CASE DropInstanceLock(p)
    BY ZenonT(60), <2>3 DEF Free, DropInstanceLock
  <2>4. CASE DropCatalog(p)
    BY ZenonT(60), <2>4 DEF Free, DropCatalog
  <2> QED
    BY <1>4, <2>1, <2>2, <2>3, <2>4 DEF Drop
<1>5. ASSUME NEW r \in StateRoot, Rebuild(r) PROVE Held'
  BY ZenonT(60), <1>5 DEF Rebuild, locks
<1>6. CASE UNCHANGED processVars
  BY ZenonT(60), <1>6 DEF processVars, locks
<1> QED
  BY ZenonT(60), <1>1, <1>2, <1>3, <1>4, <1>5, <1>6 DEF ProcessNext

\* What a lock protects is changed by its holder only.
LEMMA LifecycleSoundStep ==
  ASSUME Nobody \notin Process
  PROVE ProcessIInv /\ [ProcessNext]_processVars => Sound'
<1> SUFFICES ASSUME ProcessIInv, [ProcessNext]_processVars PROVE Sound'
  BY Zenon
<1> USE DEF ProcessIInv, Tables, Held, Sound, Inside, ProcessSteps
<1>1. ASSUME NEW p \in Process, StartStep(p) PROVE Sound'
  <2>1. CASE Acquire(p)
    BY ZenonT(60), <2>1 DEF Acquire
  <2>2. CASE Recover(p)
    BY ZenonT(60), <2>2 DEF Recover, locks
  <2>3. CASE Preflight(p) \/ ReconcileCatalog(p)
    BY SMTT(60), <2>3 DEF Preflight, ReconcileCatalog, locks
  <2>4. CASE OpenCatalog(p)
    BY ZenonT(60), <2>4 DEF OpenCatalog
  <2>5. CASE BindLock(p)
    BY SMTT(60), <2>5 DEF BindLock
  <2>6. CASE BindSocket(p)
    BY SMTT(60), <2>6 DEF BindSocket, locks
  <2> QED
    BY ZenonT(60), <1>1, <2>1, <2>2, <2>3, <2>4, <2>5, <2>6 DEF StartStep
<1>2. ASSUME NEW p \in Process, StartFails(p) \/ KillProcess(p) PROVE Sound'
  BY SMTT(60), <1>2 DEF StartFails, KillProcess
<1>3. ASSUME NEW p \in Process, Work(p) PROVE Sound'
  BY SMTT(60), <1>3 DEF Work, locks
<1>4. ASSUME NEW p \in Process, Drop(p) PROVE Sound'
  BY SMTT(60), <1>4 DEF Drop, DropSocket, DropRuntimeLock,
       DropInstanceLock, DropCatalog, locks
<1>5. ASSUME NEW r \in StateRoot, Rebuild(r) PROVE Sound'
  BY SMTT(60), <1>5 DEF Rebuild, locks
<1>6. CASE UNCHANGED processVars
  BY <1>6 DEF processVars, locks
<1> QED
  BY ZenonT(60), <1>1, <1>2, <1>3, <1>4, <1>5, <1>6 DEF ProcessNext

\* The invariant holds whatever the processes do.
LEMMA LifecycleInductiveInvariant ==
  ASSUME Nobody \notin Process
  PROVE ProcessSpec => []ProcessIInv
<1>1. ProcessIInv /\ [ProcessNext]_processVars => ProcessIInv'
  BY ZenonT(60), LifecycleTablesStep, LifecycleHeldStep, LifecycleSoundStep DEF ProcessIInv
<1> QED
  BY LifecycleInitIInv, <1>1, PTL DEF ProcessSpec

\* At most one process is past the instance lock of a state root.
THEOREM InstancesExclude ==
  ASSUME Nobody \notin Process
  PROVE ProcessSpec => []OneInstance
<1>1. ProcessIInv => OneInstance
  BY DEF ProcessIInv, Held, OneInstance
<1> QED
  BY LifecycleInductiveInvariant, <1>1, PTL

\* The socket of a process that serves is its own.
THEOREM ServingReachable ==
  ASSUME Nobody \notin Process
  PROVE ProcessSpec => []SocketReachable
<1>1. ProcessIInv => SocketReachable
  BY ZenonT(60) DEF ProcessIInv, Sound, SocketReachable
<1> QED
  BY LifecycleInductiveInvariant, <1>1, PTL

\* A service finds no work of a dead process recorded as running.
THEOREM ServingRecovered ==
  ASSUME Nobody \notin Process
  PROVE ProcessSpec => []NoForeignWork
<1>1. ProcessIInv => NoForeignWork
  BY ZenonT(60) DEF ProcessIInv, Sound, NoForeignWork
<1> QED
  BY LifecycleInductiveInvariant, <1>1, PTL

\* A service never answers from a catalog whose locations are being rebuilt.
THEOREM ServingWhole ==
  ASSUME Nobody \notin Process
  PROVE ProcessSpec => []ServesWholeCatalog
<1>1. ProcessIInv => ServesWholeCatalog
  BY DEF ProcessIInv, Sound, ServesWholeCatalog
<1> QED
  BY LifecycleInductiveInvariant, <1>1, PTL

\* No process is started more often than the bound says.
LEMMA LifecycleStarts == ProcessSpec => [](starts \in [Process -> 0 .. MaxStarts])
<1> DEFINE Counted == starts \in [Process -> 0 .. MaxStarts]
<1>1. ProcessInit => Counted BY ProcessAssumption DEF ProcessInit
<1>2. ASSUME Counted, [ProcessNext]_processVars PROVE Counted'
  <2>1. ASSUME NEW p \in Process, Acquire(p) PROVE Counted'
    <3>1. starts[p] + 1 \in 0 .. MaxStarts BY <1>2, <2>1, ProcessAssumption DEF Acquire
    <3> QED BY Zenon, <1>2, <2>1, <3>1 DEF Acquire
  <2>2. ASSUME UNCHANGED starts PROVE Counted' BY Zenon, <1>2, <2>2
  <2> QED
    BY Zenon, <1>2, <2>1, <2>2 DEF ProcessNext, StartStep, Recover, Preflight, OpenCatalog,
         ReconcileCatalog, BindLock, BindSocket, StartFails, Work, Drop, DropSocket,
         DropRuntimeLock, DropInstanceLock, DropCatalog, KillProcess, Rebuild, processVars
<1>3. Counted /\ [ProcessNext]_processVars => Counted' BY Zenon, <1>2
<1> QED BY <1>1, <1>3, PTL DEF ProcessSpec

\* Processes exclude each other and serve only what is theirs, recovered and whole,
\* for any number of processes, state roots and runtime directories.
THEOREM ServicesSafe == ProcessSpec => []ServiceSafe
<1>1. ProcessIInv => Tables BY Zenon DEF ProcessIInv
<1>2. Nobody \notin Process BY ProcessAssumption
<1>3. ProcessSpec => []ProcessIInv BY Zenon, <1>2, LifecycleInductiveInvariant
<1>4. ProcessSpec => []OneInstance BY Zenon, <1>2, InstancesExclude
<1>5. ProcessSpec => []SocketReachable BY Zenon, <1>2, ServingReachable
<1>6. ProcessSpec => []NoForeignWork BY Zenon, <1>2, ServingRecovered
<1>7. ProcessSpec => []ServesWholeCatalog BY Zenon, <1>2, ServingWhole
<1> QED
  BY <1>1, <1>3, <1>4, <1>5, <1>6, <1>7, LifecycleStarts, PTL DEF ServiceSafe, ProcessTypeOK

-----------------------------------------------------------------------------
\* Migrations are safe, for any workers, versions, errors and crashes.
THEOREM MigrationsSafe == MigrationSpec => MigrationSafe
<1>1. MigrationIInv => MigrationTypeOK BY Zenon DEF MigrationIInv
<1>2. MigrationSpec => []MigrationIInv BY Zenon, MigrationAssumption, MigrationInvariance
<1>3. MigrationSpec => []MarkerAfterSwitch BY Zenon, MigrationAssumption, MarkersAfterSwitch
<1>4. MigrationSpec => []CallbackCurrent BY Zenon, MigrationAssumption, CallbacksCurrent
<1>5. MigrationSpec => []SwitchRecoverable BY Zenon, MigrationAssumption, SwitchesRecoverable
<1>6. MigrationSpec => []ServesItsFormat BY Zenon, MigrationAssumption, FormatsServed
<1>7. MigrationSpec => SwitchForward BY Zenon, MigrationAssumption, SwitchesForward
<1> QED BY <1>1, <1>2, <1>3, <1>4, <1>5, <1>6, <1>7, PTL DEF MigrationSafe
=============================================================================
