--------------------------- MODULE JobStoreProofs ---------------------------
(***************************************************************************)
(* Proofs about the job queue, for any number of jobs, workers, I/O errors *)
(* and crashes.  The argument is about the versions of a job's file that a *)
(* power loss may bring back: a write adds one version that keeps what was *)
(* promised, and something new is promised only after the directory fsync  *)
(* that leaves that one version alone.  The last part is about the control *)
(* socket through which jobs are enqueued: an owner is carried along for   *)
(* every job, from the request that made it to the answer that names it.   *)
(***************************************************************************)
EXTENDS JobStore, Sequences, ControlSocket, TLAPS

-----------------------------------------------------------------------------
(* Types.                                                                  *)

\* The versions the operations write are records.
LEMMA RecordTypes ==
  /\ \A k \in Kind : NewRecord(k) \in Record
  /\ \A r \in Record :
       /\ r.attempts < MaxAttempts => Claimed(r) \in Record
       /\ Succeeded(r) \in Record
       /\ Failed(r) \in Record
       /\ Requeued(r) \in Record
<1>1. \A k \in Kind : NewRecord(k) \in Record
  BY LimitAssumption DEF NewRecord, Record, States
<1>2. ASSUME NEW r \in Record, r.attempts < MaxAttempts
      PROVE  Claimed(r) \in Record
  <2>1. r.attempts + 1 \in 0 .. MaxAttempts
    BY <1>2, LimitAssumption DEF Record
  <2>2. QED
    BY Zenon, <2>1 DEF Claimed, Record, States
<1>3. ASSUME NEW r \in Record
      PROVE  Succeeded(r) \in Record /\ Failed(r) \in Record
  BY Zenon DEF Succeeded, Failed, Record, States
<1>4. ASSUME NEW r \in Record
      PROVE  Requeued(r) \in Record
  BY DEF Requeued, Record, States
<1>5. QED
  BY <1>1, <1>2, <1>3, <1>4

\* A file that exists holds a record.
LEMMA DiskRecord ==
  ASSUME TypeOK, NEW i \in JobId, disk[i] # None
  PROVE  disk[i] \in Record
BY DEF TypeOK, Version

\* write_record_locked, successful or not, leaves well-typed files.
LEMMA WriteType ==
  ASSUME TypeOK, NEW i \in JobId, NEW r \in Record, Publish(i, r) \/ WriteFails(i, r)
  PROVE  /\ disk' \in [JobId -> Version]
         /\ past' \in [JobId -> SUBSET Version]
         /\ leftover' \in BOOLEAN
         /\ errors' \in 0 .. MaxErrors
<1>1. /\ disk \in [JobId -> Version] /\ past \in [JobId -> SUBSET Version]
      /\ leftover \in BOOLEAN /\ errors \in 0 .. MaxErrors
  BY DEF TypeOK
<1>2. r \in Version /\ disk[i] \in Version
  BY <1>1 DEF Version
<1>3. CASE Publish(i, r)
  BY <1>1, <1>2, <1>3 DEF Publish
<1>4. CASE WriteFails(i, r)
  <2>1. errors' \in 0 .. MaxErrors
    BY <1>1, <1>4, LimitAssumption DEF WriteFails
  <2>2. leftover' \in BOOLEAN
    BY Zenon, <1>1, <1>4 DEF WriteFails
  <2>3. disk' \in [JobId -> Version] /\ past' \in [JobId -> SUBSET Version]
    BY ZenonT(60), <1>1, <1>2, <1>4 DEF WriteFails
  <2>4. QED
    BY <2>1, <2>2, <2>3
<1>5. QED
  BY <1>3, <1>4

\* succeed and fail leave well-typed files.
LEMMA SettleType ==
  ASSUME TypeOK, NEW i \in JobId, Succeed(i) \/ Fail(i)
  PROVE  /\ disk' \in [JobId -> Version]
         /\ past' \in [JobId -> SUBSET Version]
         /\ leftover' \in BOOLEAN
         /\ errors' \in 0 .. MaxErrors
         /\ reported' \subseteq JobId
<1>1. disk[i] \in Record
  BY DiskRecord DEF Succeed, Fail, InState
<1>2. Succeeded(disk[i]) \in Record /\ Failed(disk[i]) \in Record
  BY <1>1, RecordTypes
<1>3. \/ Publish(i, Succeeded(disk[i])) \/ WriteFails(i, Succeeded(disk[i]))
      \/ Publish(i, Failed(disk[i])) \/ WriteFails(i, Failed(disk[i]))
  BY DEF Succeed, Fail
<1>4. reported' \subseteq JobId
  BY DEF Succeed, Fail, TypeOK
<1>5. QED
  BY <1>2, <1>3, <1>4, WriteType

\* The initial state has its type.
LEMMA InitType == Init => TypeOK
<1> SUFFICES ASSUME Init
             PROVE  TypeOK
  OBVIOUS
<1>1. errors \in 0 .. MaxErrors /\ crashes \in 0 .. MaxCrashes
  BY LimitAssumption DEF Init
<1>2. /\ disk \in [JobId -> Version] /\ past \in [JobId -> SUBSET Version]
      /\ work \in [Worker -> (JobId \X (0 .. MaxAttempts)) \cup {None}]
  BY DEF Init, Version
<1>3. QED
  BY Zenon, <1>1, <1>2 DEF Init, TypeOK

\* Every step keeps the types.
LEMMA TypeStep == TypeOK /\ [Next]_vars => TypeOK'
<1> SUFFICES ASSUME TypeOK, [Next]_vars
             PROVE  TypeOK'
  OBVIOUS
<1>1. ASSUME NEW i \in JobId, NEW k \in Kind, Enqueue(i, k)
      PROVE  TypeOK'
  <2>1. NewRecord(k) \in Record
    BY RecordTypes
  <2>2. Publish(i, NewRecord(k)) \/ WriteFails(i, NewRecord(k))
    BY <1>1 DEF Enqueue
  <2>3. acked' \subseteq JobId /\ UNCHANGED <<phase, work, ran, reported, crashes>>
    BY <1>1 DEF Enqueue, TypeOK
  <2>4. QED
    BY <2>1, <2>2, <2>3, WriteType DEF TypeOK
<1>2. ASSUME NEW i \in JobId, Start(i)
      PROVE  TypeOK'
  <2>1. Claimed(disk[i]) \in Record
    BY <1>2, DiskRecord, RecordTypes DEF Start, InState
  <2>2. QED
    BY <1>2, <2>1, WriteType DEF Start, TypeOK, history
<1>3. ASSUME NEW i \in JobId, Retry(i) \/ RecoverRunning(i)
      PROVE  TypeOK'
  <2>1. Requeued(disk[i]) \in Record
    BY <1>3, DiskRecord, RecordTypes DEF Retry, RecoverRunning, InState
  <2>2. QED
    BY <1>3, <2>1, WriteType DEF Retry, RecoverRunning, TypeOK, history
<1>4. ASSUME NEW i \in JobId, ClientSettle(i)
      PROVE  TypeOK'
  BY <1>4, SettleType DEF ClientSettle, TypeOK
<1>5. ASSUME NEW w \in Worker, Claim(w)
      PROVE  TypeOK'
  <2>1. PICK i \in JobId :
          /\ disk[i] # None /\ disk[i].attempts < MaxAttempts
          /\ \/ /\ Publish(i, Claimed(disk[i]))
                /\ work' = [work EXCEPT ![w] = <<i, disk[i].attempts + 1>>]
                /\ ran' = ran \cup {<<i, disk[i].attempts + 1>>}
             \/ WriteFails(i, Claimed(disk[i])) /\ UNCHANGED <<work, ran>>
    BY <1>5 DEF Claim, NextMatching, InState
  <2>2. disk[i] \in Record
    BY <2>1, DiskRecord
  <2>3. Claimed(disk[i]) \in Record
    BY <2>1, <2>2, RecordTypes
  <2>4. disk[i].attempts + 1 \in 0 .. MaxAttempts
    BY <2>1, <2>2, LimitAssumption DEF Record
  <2>5. work' \in [Worker -> (JobId \X (0 .. MaxAttempts)) \cup {None}]
    BY <2>1, <2>4 DEF TypeOK
  <2>6. ran' \subseteq JobId \X (0 .. MaxAttempts)
    BY <2>1, <2>4 DEF TypeOK
  <2>7. UNCHANGED <<phase, acked, reported, crashes>>
    BY <1>5 DEF Claim
  <2>8. QED
    BY <2>1, <2>3, <2>5, <2>6, <2>7, WriteType DEF TypeOK
<1>6. ASSUME NEW w \in Worker, Settle(w)
      PROVE  TypeOK'
  <2>1. work[w][1] \in JobId
    BY <1>6 DEF Settle, TypeOK
  <2>2. work' \in [Worker -> (JobId \X (0 .. MaxAttempts)) \cup {None}]
    BY <1>6 DEF Settle, TypeOK
  <2>3. UNCHANGED <<phase, ran, acked, crashes>>
    BY <1>6 DEF Settle
  <2>4. CASE Succeed(work[w][1]) \/ Fail(work[w][1])
    BY <2>1, <2>2, <2>3, <2>4, SettleType DEF TypeOK
  <2>5. CASE UNCHANGED <<fileVars, reported, errors>>
    BY <2>2, <2>3, <2>5 DEF TypeOK, fileVars
  <2>6. QED
    BY <1>6, <2>4, <2>5 DEF Settle
<1>7. ASSUME RemoveTemporaries
      PROVE  TypeOK'
  <2>1. errors' \in 0 .. MaxErrors
    BY <1>7, LimitAssumption DEF RemoveTemporaries, TypeOK
  <2>2. past' \in [JobId -> SUBSET Version]
    BY <1>7 DEF RemoveTemporaries, TypeOK
  <2>3. QED
    BY Zenon, <1>7, <2>1, <2>2 DEF RemoveTemporaries, TypeOK, history
<1>8. ASSUME Open
      PROVE  TypeOK'
  BY <1>8 DEF Open, TypeOK, history, fileVars
<1>9. ASSUME Kill
      PROVE  TypeOK'
  <2>1. crashes' \in 0 .. MaxCrashes
    BY <1>9, LimitAssumption DEF Kill, TypeOK
  <2>2. leftover' \in BOOLEAN
    BY Zenon, <1>9 DEF Kill, TypeOK
  <2>3. QED
    BY <1>9, <2>1, <2>2 DEF Kill, TypeOK, history
<1>10. ASSUME PowerLoss
       PROVE  TypeOK'
  <2>1. disk' \in [JobId -> Version]
    BY <1>10 DEF PowerLoss, TypeOK, Versions
  <2>2. QED
    BY <1>10, <2>1, LimitAssumption DEF PowerLoss, TypeOK, history
<1>11. ASSUME UNCHANGED vars
       PROVE  TypeOK'
  BY <1>11 DEF vars, fileVars, history, TypeOK
<1>12. QED
  BY <1>1, <1>2, <1>3, <1>4, <1>5, <1>6, <1>7, <1>8, <1>9, <1>10, <1>11 DEF Next, Recover

\* The state of the queue always has its type; an attempt count never overflows.
THEOREM TypeCorrect == Spec => []TypeOK
BY InitType, TypeStep, PTL DEF Spec

-----------------------------------------------------------------------------
(* The invariant.                                                          *)

\* A write adds at most the version it writes, and only to its own job.
LEMMA WriteVersions ==
  ASSUME TypeOK, NEW i \in JobId, NEW r, Publish(i, r) \/ WriteFails(i, r),
         NEW j \in JobId, NEW v \in Versions(j)'
  PROVE  v \in Versions(j) \/ (j = i /\ v = r)
<1>1. CASE Publish(i, r)
  BY <1>1 DEF Publish, Versions, TypeOK
<1>2. CASE WriteFails(i, r)
  BY Zenon, <1>2 DEF WriteFails, Versions, TypeOK
<1>3. QED
  BY <1>1, <1>2

\* A successful write leaves the version it wrote, alone.
LEMMA PublishVersions ==
  ASSUME TypeOK, NEW i \in JobId, NEW r, Publish(i, r)
  PROVE  \A v \in Versions(i)' : v = r
BY DEF Publish, Versions, TypeOK

\* The visible version of a job keeps what was promised of it.
LEMMA DiskKeeps ==
  ASSUME IInv, NEW i \in JobId
  PROVE  Keeps(i, disk[i]) /\ (disk[i] # None => Valid(disk[i]))
BY DEF IInv, RecordsValid, Versions

\* A step that promises nothing new and brings no new version keeps the invariant.
LEMMA NoNewVersion ==
  ASSUME IInv, UNCHANGED history, \A i \in JobId : Versions(i)' \subseteq Versions(i)
  PROVE  IInv'
<1>1. RecordsValid'
  BY DEF IInv, RecordsValid
<1>2. ASSUME NEW i \in JobId, NEW v \in Versions(i)'
      PROVE  Keeps(i, v)'
  BY DEF IInv, Keeps, history
<1>3. QED
  BY <1>1, <1>2 DEF IInv

\* A write keeps the invariant when its version is valid and keeps what was
\* promised before the step, and what the step itself promises.
LEMMA WriteKeeps ==
  ASSUME TypeOK, IInv, NEW i \in JobId, NEW r \in Record, Valid(r),
         Publish(i, r) \/ WriteFails(i, r),
         \A j \in JobId : \A v \in Versions(j)' : Keeps(j, v) => Keeps(j, v)',
         Keeps(i, r)
  PROVE  IInv'
<1>1. ASSUME NEW j \in JobId, NEW v \in Versions(j)'
      PROVE  Keeps(j, v) /\ (v # None => Valid(v))
  <2>1. v \in Versions(j) \/ (j = i /\ v = r)
    BY WriteVersions
  <2>2. QED
    BY <2>1 DEF IInv, RecordsValid
<1>2. RecordsValid'
  BY <1>1 DEF RecordsValid
<1>3. QED
  BY <1>1, <1>2 DEF IInv

\* A later version keeps the promises of a version that is not final.
LEMMA LaterKeeps ==
  ASSUME NEW i \in JobId, NEW r \in Record, NEW q \in Record, Keeps(i, r),
         r.state # "Succeeded", r.attempts <= q.attempts
  PROVE  Keeps(i, q)
<1>1. i \notin reported
  BY DEF Keeps
<1>2. q # None
  BY NoneAssumption
<1>3. ASSUME NEW n \in 0 .. MaxAttempts, <<i, n>> \in ran
      PROVE  n <= q.attempts
  <2>1. n <= r.attempts
    BY <1>3 DEF Keeps
  <2>2. r.attempts \in Int /\ q.attempts \in Int /\ n \in Int
    BY LimitAssumption DEF Record
  <2>3. QED
    BY <2>1, <2>2
<1>4. QED
  BY <1>1, <1>2, <1>3 DEF Keeps

\* What the operations write is valid and keeps the promises of the version they
\* start from.
LEMMA SuccessorKeeps ==
  ASSUME TypeOK, IInv, NEW i \in JobId, disk[i] # None, disk[i].state # "Succeeded"
  PROVE  /\ disk[i].attempts < MaxAttempts
              => Valid(Claimed(disk[i])) /\ Keeps(i, Claimed(disk[i]))
         /\ disk[i].state = "Running"
              => /\ Valid(Succeeded(disk[i])) /\ Keeps(i, Succeeded(disk[i]))
                 /\ Valid(Failed(disk[i])) /\ Keeps(i, Failed(disk[i]))
         /\ Valid(Requeued(disk[i])) /\ Keeps(i, Requeued(disk[i]))
<1> DEFINE r == disk[i]
<1>1. r \in Record /\ Valid(r) /\ Keeps(i, r) /\ r.state # "Succeeded"
  BY DiskRecord, DiskKeeps
<1> HIDE DEF r
<1>2. r.attempts \in Nat
  BY <1>1, LimitAssumption DEF Record
<1>3. /\ Claimed(r).state = "Running" /\ Claimed(r).attempts = r.attempts + 1
      /\ Succeeded(r).state = "Succeeded" /\ Succeeded(r).attempts = r.attempts
      /\ Succeeded(r).error = "none"
      /\ Failed(r).state = "Failed" /\ Failed(r).attempts = r.attempts
      /\ Failed(r).error = "some"
      /\ Requeued(r).state = "Queued" /\ Requeued(r).attempts = r.attempts
  BY <1>1 DEF Claimed, Succeeded, Failed, Requeued, Record
<1>4. r.attempts < MaxAttempts => Valid(Claimed(r)) /\ Keeps(i, Claimed(r))
  <2>1. Valid(Claimed(r))
    BY SMTT(60), <1>2, <1>3 DEF Valid
  <2>2. ASSUME r.attempts < MaxAttempts
        PROVE  Keeps(i, Claimed(r))
    BY SMTT(60), <1>1, <1>2, <1>3, <2>2, RecordTypes, LaterKeeps
  <2>3. QED
    BY ZenonT(60), <2>1, <2>2
<1>5. r.state = "Running" => Valid(Succeeded(r)) /\ Valid(Failed(r))
  BY <1>1, <1>3 DEF Valid
<1>6. Valid(Requeued(r))
  BY <1>3 DEF Valid
<1>7. Keeps(i, Succeeded(r)) /\ Keeps(i, Failed(r)) /\ Keeps(i, Requeued(r))
  <2>1. r.attempts <= r.attempts
    BY <1>2
  <2>2. Succeeded(r) \in Record /\ Failed(r) \in Record /\ Requeued(r) \in Record
    BY <1>1, RecordTypes
  <2>3. QED
    BY <1>1, <1>3, <2>1, <2>2, LaterKeeps
<1>8. QED
  BY <1>4, <1>5, <1>6, <1>7 DEF r

\* A write that promises nothing new, of a version with the two properties above.
LEMMA SilentWrite ==
  ASSUME TypeOK, IInv, UNCHANGED history, NEW i \in JobId, NEW r \in Record,
         Valid(r), Keeps(i, r), Publish(i, r) \/ WriteFails(i, r)
  PROVE  IInv'
<1>1. \A j \in JobId : \A v \in Versions(j)' : Keeps(j, v) => Keeps(j, v)'
  BY DEF Keeps, history
<1>2. QED
  BY <1>1, WriteKeeps

\* succeed and fail keep the invariant: success is reported once it is durable.
LEMMA SettleKeeps ==
  ASSUME TypeOK, IInv, UNCHANGED <<ran, acked>>, NEW i \in JobId, Succeed(i) \/ Fail(i)
  PROVE  IInv'
<1>1. disk[i] # None /\ disk[i].state = "Running"
  BY ZenonT(60) DEF Succeed, Fail, InState
<1>2. /\ Succeeded(disk[i]) \in Record /\ Failed(disk[i]) \in Record
      /\ Valid(Succeeded(disk[i])) /\ Keeps(i, Succeeded(disk[i]))
      /\ Valid(Failed(disk[i])) /\ Keeps(i, Failed(disk[i]))
  BY <1>1, DiskRecord, RecordTypes, SuccessorKeeps
<1>3. CASE Publish(i, Succeeded(disk[i])) /\ reported' = reported \cup {i}
  <2>1. Succeeded(disk[i]).state = "Succeeded" /\ Succeeded(disk[i]) # None
    BY Zenon, <1>1, <1>2, DiskRecord, NoneAssumption DEF Succeeded, Record
  <2>2. \A v \in Versions(i)' : v # None /\ v.state = "Succeeded"
    BY <1>3, <2>1, PublishVersions
  <2>3. ASSUME NEW j \in JobId, NEW v \in Versions(j)', Keeps(j, v)
        PROVE  Keeps(j, v)'
    BY ZenonT(60), <1>3, <2>2, <2>3 DEF Keeps
  <2>4. QED
    BY <1>2, <1>3, <2>3, WriteKeeps
<1>4. CASE WriteFails(i, Succeeded(disk[i])) /\ UNCHANGED reported
  BY <1>2, <1>4, SilentWrite DEF history
<1>5. CASE Fail(i)
  BY <1>2, <1>5, SilentWrite DEF Fail, history
<1>6. QED
  BY ZenonT(60), <1>3, <1>4, <1>5 DEF Succeed

\* Every step keeps the invariant.
LEMMA InvStep == TypeOK /\ IInv /\ [Next]_vars => IInv'
<1> SUFFICES ASSUME TypeOK, IInv, [Next]_vars
             PROVE  IInv'
  OBVIOUS
<1>1. ASSUME NEW i \in JobId, NEW k \in Kind, Enqueue(i, k)
      PROVE  IInv'
  <2> DEFINE r == NewRecord(k)
  <2>1. r \in Record /\ r # None
    BY RecordTypes, NoneAssumption
  <2>2. Valid(r)
    BY DEF NewRecord, Valid
  <2>3. Keeps(i, None)
    BY <1>1, DiskKeeps DEF Enqueue
  <2>4. Keeps(i, r)
    BY <2>3 DEF Keeps
  <2> HIDE DEF r
  <2>5. CASE Publish(i, r) /\ acked' = acked \cup {i}
    <3>1. \A v \in Versions(i)' : v # None
      BY <2>1, <2>5, PublishVersions
    <3>2. ASSUME NEW j \in JobId, NEW v \in Versions(j)', Keeps(j, v)
          PROVE  Keeps(j, v)'
      BY ZenonT(60), <1>1, <2>5, <3>1, <3>2 DEF Keeps, Enqueue
    <3>3. QED
      BY <2>1, <2>2, <2>4, <2>5, <3>2, WriteKeeps
  <2>6. CASE WriteFails(i, r) /\ UNCHANGED acked
    BY <1>1, <2>1, <2>2, <2>4, <2>6, SilentWrite DEF Enqueue, history
  <2>7. QED
    BY <1>1, <2>5, <2>6 DEF Enqueue, r
<1>2. ASSUME NEW i \in JobId, Start(i)
      PROVE  IInv'
  <2>1. disk[i] # None /\ disk[i].state = "Queued" /\ disk[i].attempts < MaxAttempts
    BY <1>2 DEF Start, InState
  <2>2. Claimed(disk[i]) \in Record /\ Valid(Claimed(disk[i])) /\ Keeps(i, Claimed(disk[i]))
    BY ZenonT(60), <2>1, DiskRecord, RecordTypes, SuccessorKeeps
  <2>3. QED
    BY ZenonT(60), <1>2, <2>2, SilentWrite DEF Start
<1>3. ASSUME NEW i \in JobId, Retry(i) \/ RecoverRunning(i)
      PROVE  IInv'
  <2>1. disk[i] # None /\ disk[i].state # "Succeeded"
    BY <1>3 DEF Retry, RecoverRunning, InState
  <2>2. Requeued(disk[i]) \in Record /\ Valid(Requeued(disk[i])) /\ Keeps(i, Requeued(disk[i]))
    BY <2>1, DiskRecord, RecordTypes, SuccessorKeeps
  <2>3. QED
    BY ZenonT(60), <1>3, <2>2, SilentWrite DEF Retry, RecoverRunning
<1>4. ASSUME NEW i \in JobId, ClientSettle(i)
      PROVE  IInv'
  BY ZenonT(60), <1>4, SettleKeeps DEF ClientSettle
<1>5. ASSUME NEW w \in Worker, Claim(w)
      PROVE  IInv'
  <2>1. PICK i \in JobId :
          /\ disk[i] # None /\ disk[i].state = "Queued" /\ disk[i].attempts < MaxAttempts
          /\ \/ /\ Publish(i, Claimed(disk[i]))
                /\ ran' = ran \cup {<<i, disk[i].attempts + 1>>}
             \/ WriteFails(i, Claimed(disk[i])) /\ UNCHANGED ran
    BY ZenonT(60), <1>5 DEF Claim, NextMatching, InState
  <2>2. Claimed(disk[i]) \in Record /\ Valid(Claimed(disk[i])) /\ Keeps(i, Claimed(disk[i]))
    BY ZenonT(60), <2>1, DiskRecord, RecordTypes, SuccessorKeeps
  <2>3. UNCHANGED <<acked, reported>>
    BY ZenonT(60), <1>5 DEF Claim
  <2>4. CASE Publish(i, Claimed(disk[i])) /\ ran' = ran \cup {<<i, disk[i].attempts + 1>>}
    <3>1. /\ Claimed(disk[i]) # None
          /\ Claimed(disk[i]).attempts = disk[i].attempts + 1
          /\ disk[i].attempts + 1 \in Nat
      <4>1. Claimed(disk[i]) # None
        BY <2>2, NoneAssumption
      <4>2. disk[i] \in Record
        BY <2>1, DiskRecord
      <4>3. Claimed(disk[i]).attempts = disk[i].attempts + 1
        BY <4>2 DEF Claimed, Record
      <4>4. disk[i].attempts + 1 \in Nat
        BY SMTT(60), <4>2, LimitAssumption DEF Record
      <4>5. QED
        BY <4>1, <4>3, <4>4
    <3>2. \A v \in Versions(i)' : v # None /\ disk[i].attempts + 1 <= v.attempts
      BY <2>4, <3>1, PublishVersions
    <3>3. ASSUME NEW j \in JobId, NEW v \in Versions(j)', Keeps(j, v)
          PROVE  Keeps(j, v)'
      BY <2>3, <2>4, <3>2, <3>3 DEF Keeps
    <3>4. QED
      BY <2>2, <2>4, <3>3, WriteKeeps
  <2>5. CASE WriteFails(i, Claimed(disk[i])) /\ UNCHANGED ran
    BY <2>2, <2>3, <2>5, SilentWrite DEF history
  <2>6. QED
    BY ZenonT(60), <2>1, <2>4, <2>5
<1>6. ASSUME NEW w \in Worker, Settle(w)
      PROVE  IInv'
  <2>1. work[w][1] \in JobId /\ UNCHANGED <<ran, acked>>
    BY <1>6 DEF Settle, TypeOK
  <2>2. CASE Succeed(work[w][1]) \/ Fail(work[w][1])
    BY <2>1, <2>2, SettleKeeps
  <2>3. CASE UNCHANGED <<fileVars, reported, errors>>
    BY <2>1, <2>3, NoNewVersion DEF fileVars, history, Versions
  <2>4. QED
    BY <1>6, <2>2, <2>3 DEF Settle
<1>7. ASSUME RemoveTemporaries \/ Open \/ Kill
      PROVE  IInv'
  BY Zenon, <1>7, NoNewVersion DEF RemoveTemporaries, Open, Kill, fileVars, Versions
<1>8. ASSUME PowerLoss
      PROVE  IInv'
  BY <1>8, NoNewVersion DEF PowerLoss, Versions
<1>9. ASSUME UNCHANGED vars
      PROVE  IInv'
  BY <1>9, NoNewVersion DEF vars, fileVars, Versions
<1>10. QED
  BY <1>1, <1>2, <1>3, <1>4, <1>5, <1>6, <1>7, <1>8, <1>9 DEF Next, Recover

\* The inductive invariant holds in every reachable state.
THEOREM Invariant == Spec => [](TypeOK /\ IInv)
<1>1. Init => TypeOK /\ IInv
  <2> SUFFICES ASSUME Init
               PROVE  TypeOK /\ IInv
    OBVIOUS
  <2>1. TypeOK
    BY InitType
  <2>2. \A i \in JobId : \A r \in Versions(i) : r = None
    BY DEF Init, Versions
  <2>3. IInv
    BY <2>2 DEF Init, IInv, RecordsValid, Keeps
  <2>4. QED
    BY <2>1, <2>3
<1>2. TypeOK /\ IInv /\ [Next]_vars => (TypeOK /\ IInv)'
  BY TypeStep, InvStep
<1>3. QED
  BY <1>1, <1>2, PTL DEF Spec

\* An acknowledged job keeps its record, and a success that was reported stays,
\* across every kill, power loss and I/O error.
THEOREM AcknowledgedStays == Spec => []AcknowledgedKept
<1>1. TypeOK /\ IInv => AcknowledgedKept
  BY DEF TypeOK, IInv, Keeps, Versions, AcknowledgedKept, InState
<1>2. QED
  BY <1>1, Invariant, PTL

\* No record the queue can read back after any crash is refused by validate.
THEOREM RecordsStayValid == Spec => []RecordsValid
<1>1. TypeOK /\ IInv => RecordsValid
  BY DEF IInv
<1>2. QED
  BY <1>1, Invariant, PTL

\* A handler is never given the same attempt of a job twice.
THEOREM AttemptsRunOnce == Spec => OneRunPerAttempt
<1>1. ASSUME TypeOK, IInv, [Next]_vars, NEW w \in Worker, work'[w] \notin {work[w], None}
      PROVE  work'[w] \notin ran
  <2>1. ASSUME NEW u \in Worker, Claim(u)
        PROVE  work'[w] \notin ran
    <3>1. PICK i \in JobId :
            /\ disk[i] # None /\ disk[i].attempts < MaxAttempts
            /\ \/ work' = [work EXCEPT ![u] = <<i, disk[i].attempts + 1>>]
               \/ work' = work
      BY ZenonT(60), <2>1 DEF Claim, NextMatching, InState
    <3>2. work'[w] = <<i, disk[i].attempts + 1>>
      BY ZenonT(60), <1>1, <3>1 DEF TypeOK
    <3>3. disk[i].attempts \in Nat /\ disk[i].attempts + 1 \in 0 .. MaxAttempts
      BY <3>1, DiskRecord, <1>1, LimitAssumption DEF Record
    <3>4. ~(disk[i].attempts + 1 <= disk[i].attempts)
      BY <3>3
    <3>5. Keeps(i, disk[i])
      BY <1>1, DiskKeeps
    <3>6. QED
      BY ZenonT(60), <3>2, <3>3, <3>4, <3>5 DEF Keeps
  <2>2. ASSUME NEW u \in Worker, Settle(u)
        PROVE  FALSE
    BY <1>1, <2>2 DEF Settle, TypeOK
  <2>3. ASSUME Kill \/ PowerLoss
        PROVE  FALSE
    BY ZenonT(60), <1>1, <2>3 DEF Kill, PowerLoss
  <2>4. ASSUME UNCHANGED work
        PROVE  FALSE
    BY ZenonT(60), <1>1, <2>4
  <2>5. \/ \E u \in Worker : Claim(u) \/ Settle(u)
        \/ Kill \/ PowerLoss
        \/ UNCHANGED work
    BY <1>1 DEF Next, Recover, Enqueue, Start, Retry, ClientSettle, RemoveTemporaries,
                RecoverRunning, Open, vars
  <2>6. QED
    BY ZenonT(60), <2>1, <2>2, <2>3, <2>4, <2>5
<1>2. TypeOK /\ IInv /\ [Next]_vars
        => [\A w \in Worker : work'[w] \notin {work[w], None} => work'[w] \notin ran]_vars
  BY <1>1
<1>3. QED
  BY <1>2, Invariant, PTL DEF Spec, OneRunPerAttempt

-----------------------------------------------------------------------------
(* The socket through which clients enqueue and change jobs.               *)

\* Answers, and which of them are success.
LEMMA SocketReplies ==
  /\ <<"ok">> \in Reply /\ <<"gone">> \in Reply /\ <<"closed">> \in Reply
  /\ <<"error job-store">> \in Reply /\ <<"error invalid-request">> \in Reply
  /\ <<"error unsupported-request">> \in Reply /\ <<"error job-not-found">> \in Reply
  /\ <<"error invalid-transition">> \in Reply
  /\ \A id \in Nat, s \in JobState : <<"ok", id, s>> \in Reply
  /\ \A id \in Nat : <<"ok", id, "queued">>[1] = "ok"
  /\ <<"gone">>[1] # "ok" /\ <<"closed">>[1] # "ok" /\ <<"error job-store">>[1] # "ok"
  /\ <<"error invalid-request">>[1] # "ok"
BY DEF Reply, JobState

\* One more at the end of a sequence.
LEMMA SocketAtEnd ==
  ASSUME NEW S, NEW s \in Seq(S), NEW e \in S
  PROVE  /\ Append(s, e) \in Seq(S) /\ Len(s) \in Nat /\ Len(Append(s, e)) = Len(s) + 1
         /\ \A i \in 1 .. Len(s) : i \in 1 .. Len(s) + 1 /\ i # Len(s) + 1 /\ Append(s, e)[i] = s[i]
         /\ \A i \in 1 .. Len(s) + 1 : i \in 1 .. Len(s) \/ i = Len(s) + 1
         /\ Len(s) + 1 \in 1 .. Len(s) + 1 /\ Append(s, e)[Len(s) + 1] = e
OBVIOUS

\* One less at its beginning.
LEMMA SocketFromStart ==
  ASSUME NEW S, NEW s \in Seq(S), s # <<>>
  PROVE  /\ Tail(s) \in Seq(S) /\ Len(s) \in Nat /\ 1 \in 1 .. Len(s) /\ Head(s) = s[1] /\ s[1] \in S
         /\ \A i \in 1 .. Len(Tail(s)) : i + 1 \in 1 .. Len(s) /\ i + 1 # 1 /\ Tail(s)[i] = s[i + 1]
         /\ \A i, j \in 1 .. Len(Tail(s)) : i # j => i + 1 # j + 1
<1>1. Tail(s) \in Seq(S) /\ Len(s) \in Nat /\ Len(s) > 0 /\ Len(Tail(s)) = Len(s) - 1 /\ Head(s) = s[1]
  OBVIOUS
<1>2. 1 \in 1 .. Len(s) BY <1>1
<1>3. s[1] \in S BY <1>2
<1>4. \A i \in 1 .. Len(Tail(s)) : i + 1 \in 1 .. Len(s) /\ i + 1 # 1 BY <1>1
<1>5. \A i \in 1 .. Len(Tail(s)) : Tail(s)[i] = s[i + 1] BY <1>1
<1>6. \A i, j \in 1 .. Len(Tail(s)) : i # j => i + 1 # j + 1 BY <1>1
<1> QED BY Zenon, <1>1, <1>2, <1>3, <1>4, <1>5, <1>6

\* What a request does to the jobs, and its answer.
LEMMA SocketExecutes ==
  ASSUME NEW r \in [verb : Verb, id : Nat], jobs \in Seq(JobState)
  PROVE  /\ Execute(r)[1] \in Reply /\ Execute(r)[2] \in Seq(JobState)
         /\ r.verb = "enqueue" => /\ Execute(r)[1] = <<"ok", Len(jobs) + 1, "queued">>
                                  /\ Execute(r)[2] = Append(jobs, "queued")
         /\ r.verb # "enqueue" => Len(Execute(r)[2]) = Len(jobs)
<1>1. r.verb \in Verb /\ r.id \in Nat /\ Len(jobs) \in Nat OBVIOUS
<1>2. CASE r.verb = "enqueue"
  <2>1. Execute(r) = <<<<"ok", Len(jobs) + 1, "queued">>, Append(jobs, "queued")>>
    BY <1>2 DEF Execute
  <2>2. "queued" \in JobState /\ Len(jobs) + 1 \in Nat BY <1>1 DEF JobState
  <2>3. Append(jobs, "queued") \in Seq(JobState) BY <2>2
  <2>4. <<"ok", Len(jobs) + 1, "queued">> \in Reply BY Zenon, <2>2, SocketReplies
  <2> QED BY <1>2, <2>1, <2>3, <2>4
<1>3. CASE r.verb # "enqueue"
  <2>1. CASE \E a \in Reply : Execute(r) = <<a, jobs>>
    BY <1>3, <2>1
  <2>2. CASE \A a \in Reply : Execute(r) # <<a, jobs>>
    <3>1. r.verb \notin {"status", "enqueue", "invalid", "unsupported"}
          /\ r.id \in DOMAIN jobs /\ jobs[r.id] \in From[r.verb]
      BY ZenonT(60), <1>3, <2>2, SocketReplies DEF Execute
    <3>2. r.verb \in {"start", "succeed", "fail", "retry", "get"} BY <1>1, <3>1 DEF Verb
    <3> DEFINE s == To(r.verb, jobs[r.id])
    <3>3. jobs[r.id] \in JobState BY <3>1
    <3>4. s \in JobState BY <3>2, <3>3 DEF To, JobState
    <3>5. Execute(r) = <<<<"ok", r.id, s>>, [jobs EXCEPT ![r.id] = s]>>
      BY Zenon, <3>1 DEF Execute
    <3>6. <<"ok", r.id, s>> \in Reply BY Zenon, <1>1, <3>4, SocketReplies
    <3> HIDE DEF s
    <3>7. [jobs EXCEPT ![r.id] = s] \in Seq(JobState) /\ Len([jobs EXCEPT ![r.id] = s]) = Len(jobs)
      BY <3>1, <3>4
    <3> QED BY <1>3, <3>5, <3>6, <3>7
  <2> QED BY Zenon, <2>1, <2>2
<1> QED BY Zenon, <1>2, <1>3

\* Jobs keep their owners in a step that executes nothing, keeps who is served and
\* what was answered, and answers no one with success.
LEMMA SocketOwnersKept ==
  ASSUME SocketConstants, SocketIInv, UNCHANGED <<request, jobs, executed>>,
         \A c \in Client : executed[c] = 1 /\ serving = c => serving' = c,
         \A c \in Client : executed[c] = 1 /\ answer[c] # NoClient => answer'[c] = answer[c],
         \A c \in Client : \A a \in {answer'[c], response'} : Says(c, a)' /\ a[1] = "ok" => Says(c, a)
  PROVE  Owned'
<1>1. request' = request /\ jobs' = jobs /\ executed' = executed BY Zenon
<1>2. PICK owner \in [1 .. Len(jobs) -> Client] : Apart(owner) /\ Earned(owner) /\ Named(owner)
  BY Zenon DEF SocketIInv, Owned
<1>3. \A i, j \in 1 .. Len(jobs) : i # j => owner[i] # owner[j] BY Zenon, <1>2 DEF Apart
<1>4. ASSUME NEW i \in 1 .. Len(jobs)
      PROVE  /\ request[owner[i]].verb = "enqueue" /\ executed[owner[i]] = 1
             /\ serving' = owner[i] \/ answer'[owner[i]] \in {<<"gone">>, <<"error job-store">>, <<"ok", i, "queued">>}
  <2>1. /\ request[owner[i]].verb = "enqueue" /\ executed[owner[i]] = 1
        /\ serving = owner[i] \/ answer[owner[i]] \in {<<"gone">>, <<"error job-store">>, <<"ok", i, "queued">>}
    BY Zenon, <1>2 DEF Earned
  <2>2. owner[i] \in Client BY Zenon, <1>2
  <2>3. CASE serving = owner[i] BY ZenonT(60), <2>1, <2>2, <2>3
  <2>4. CASE answer[owner[i]] \in {<<"gone">>, <<"error job-store">>, <<"ok", i, "queued">>}
    <3>1. i \in Nat /\ "queued" \in JobState BY DEF JobState
    <3>2. <<"ok", i, "queued">> \in Reply /\ <<"gone">> \in Reply /\ <<"error job-store">> \in Reply
      BY Zenon, <3>1, SocketReplies
    <3>3. answer[owner[i]] \in Reply BY Zenon, <2>4, <3>2
    <3>4. answer[owner[i]] # NoClient BY Zenon, <3>3 DEF SocketConstants
    <3> QED BY Zenon, <2>1, <2>2, <2>4, <3>4
  <2> QED BY Zenon, <2>1, <2>3, <2>4
<1>5. ASSUME NEW c \in Client, NEW a \in {answer'[c], response'},
             request[c].verb = "enqueue", Says(c, a)', a[1] = "ok"
      PROVE  \E i \in 1 .. Len(jobs) : owner[i] = c /\ a = <<"ok", i, "queued">>
  <2>1. Says(c, a) BY Zenon, <1>5
  <2>2. a \in {answer[c], response} BY Zenon, <2>1 DEF Says
  <2> QED BY ZenonT(60), <1>2, <1>5, <2>1, <2>2 DEF Named
<1>6. (Apart(owner) /\ Earned(owner) /\ Named(owner))'
  <2>1. \A i, j \in 1 .. Len(jobs') : i # j => owner[i] # owner[j] BY Zenon, <1>1, <1>3
  <2>2. \A i \in 1 .. Len(jobs') :
          /\ request'[owner[i]].verb = "enqueue" /\ executed'[owner[i]] = 1
          /\ serving' = owner[i] \/ answer'[owner[i]] \in {<<"gone">>, <<"error job-store">>, <<"ok", i, "queued">>}
    BY Zenon, <1>1, <1>4
  <2>3. ASSUME NEW c \in Client, NEW a \in {answer'[c], response'},
               request'[c].verb = "enqueue", Says(c, a)', a[1] = "ok"
        PROVE  \E i \in 1 .. Len(jobs') : owner[i] = c /\ a = <<"ok", i, "queued">>
    <3>1. request[c].verb = "enqueue" BY Zenon, <1>1, <2>3
    <3>2. PICK i \in 1 .. Len(jobs) : owner[i] = c /\ a = <<"ok", i, "queued">>
      BY ZenonT(60), <1>5, <2>3, <3>1
    <3> QED BY Zenon, <1>1, <3>2
  <2>4. Apart(owner)' BY ONLY Zenon, <2>1 DEF Apart
  <2>5. Earned(owner)' BY ONLY Zenon, <2>2 DEF Earned
  <2>6. Named(owner)' BY ONLY ZenonT(60), <2>3 DEF Named
  <2> QED BY Zenon, <2>4, <2>5, <2>6
<1> QED BY Zenon, <1>1, <1>2, <1>6 DEF Owned

\* The same for what was executed and who was told of it.
LEMMA SocketExecutionsKept ==
  ASSUME SocketIInv, UNCHANGED <<request, executed>>, sent \subseteq sent',
         \A c \in Client : executed[c] = 1 /\ serving' = c => serving = c /\ response' = response,
         \A c \in Client : \A a \in {answer'[c], response'} : Says(c, a)' /\ a[1] = "ok" => Says(c, a)
  PROVE  Executions'
<1>1. request' = request /\ executed' = executed BY Zenon
<1>2. ASSUME NEW c \in Client
      PROVE  /\ executed[c] = 1 => c \in sent' \ Foreign
             /\ \A a \in {answer'[c], response'} : Says(c, a)' /\ a[1] = "ok" => executed[c] = 1
             /\ request[c].verb = "enqueue" /\ executed[c] = 1 /\ serving' = c =>
                  response'[1] = "ok" \/ response' = <<"error job-store">>
  <2>1. executed[c] = 1 => c \in sent' \ Foreign BY Zenon DEF SocketIInv, Executions
  <2>2. ASSUME NEW a \in {answer'[c], response'}, Says(c, a)', a[1] = "ok" PROVE executed[c] = 1
    <3>1. Says(c, a) BY Zenon, <2>2
    <3>2. a \in {answer[c], response} BY Zenon, <3>1 DEF Says
    <3> QED BY Zenon, <2>2, <3>1, <3>2 DEF SocketIInv, Executions
  <2>3. ASSUME request[c].verb = "enqueue", executed[c] = 1, serving' = c
        PROVE  response'[1] = "ok" \/ response' = <<"error job-store">>
    BY Zenon, <2>3 DEF SocketIInv, Executions
  <2> QED BY Zenon, <2>1, <2>2, <2>3
<1> QED BY Zenon, <1>1, <1>2 DEF Executions

\* A client connects: it never did before.
LEMMA SocketConnectStep ==
  ASSUME SocketConstants, SocketIInv, NEW c \in Client, Connect(c)
  PROVE  SocketIInv'
<1>1. /\ Typed /\ Places /\ c \notin open /\ answer[c] = NoClient
      /\ open' = open \cup {c} /\ backlog' = Append(backlog, c)
      /\ UNCHANGED <<request, sent, serving, response, answer, jobs, socketErrors, executed>>
  BY Zenon DEF SocketIInv, Connect
<1>2. executed[c] = 0 BY Zenon, <1>1 DEF Places
<1>3. ~Waiting(c) /\ serving # c
  <2>1. Connected(c) => answer[c] = <<"gone">> BY Zenon, <1>1 DEF Places
  <2>2. <<"gone">> # NoClient BY Zenon, SocketReplies DEF SocketConstants
  <2> QED BY Zenon, <1>1, <2>1, <2>2 DEF Connected
<1>4. /\ backlog' \in Seq(Client) /\ Len(backlog) \in Nat /\ Len(backlog') = Len(backlog) + 1
      /\ \A i \in 1 .. Len(backlog) : i \in 1 .. Len(backlog) + 1 /\ i # Len(backlog) + 1 /\ backlog'[i] = backlog[i]
      /\ \A i \in 1 .. Len(backlog) + 1 : i \in 1 .. Len(backlog) \/ i = Len(backlog) + 1
      /\ Len(backlog) + 1 \in 1 .. Len(backlog) + 1 /\ backlog'[Len(backlog) + 1] = c
  <2>1. backlog \in Seq(Client) BY Zenon, <1>1 DEF Typed
  <2>2. /\ Append(backlog, c) \in Seq(Client) /\ Len(backlog) \in Nat /\ Len(Append(backlog, c)) = Len(backlog) + 1
        /\ \A i \in 1 .. Len(backlog) :
             i \in 1 .. Len(backlog) + 1 /\ i # Len(backlog) + 1 /\ Append(backlog, c)[i] = backlog[i]
        /\ \A i \in 1 .. Len(backlog) + 1 : i \in 1 .. Len(backlog) \/ i = Len(backlog) + 1
        /\ Len(backlog) + 1 \in 1 .. Len(backlog) + 1 /\ Append(backlog, c)[Len(backlog) + 1] = c
    BY ZenonT(60), <2>1, SocketAtEnd
  <2>3. backlog' = Append(backlog, c) BY Zenon, <1>1
  <2> QED BY Zenon, <2>2, <2>3
<1>5. \A i \in 1 .. Len(backlog') :
         \/ i \in 1 .. Len(backlog) /\ backlog'[i] = backlog[i] /\ backlog[i] # c
         \/ i = Len(backlog) + 1 /\ backlog'[i] = c
  BY Zenon, <1>3, <1>4 DEF Waiting
<1>6. \A d \in Client : Waiting(d)' => Waiting(d) \/ d = c
  BY Zenon, <1>5 DEF Waiting
<1>7. Typed' BY Zenon, <1>1, <1>4 DEF Typed
<1>8. Places'
  <2>1. ASSUME NEW i \in 1 .. Len(backlog'), NEW j \in 1 .. Len(backlog'), i # j PROVE backlog'[i] # backlog'[j]
    <3>1. CASE i = Len(backlog) + 1 BY Zenon, <1>4, <1>5, <2>1, <3>1
    <3>2. CASE j = Len(backlog) + 1 BY ZenonT(60), <1>4, <1>5, <2>1, <3>2
    <3>3. CASE /\ i \in 1 .. Len(backlog) /\ backlog'[i] = backlog[i]
               /\ j \in 1 .. Len(backlog) /\ backlog'[j] = backlog[j]
      <4>1. backlog[i] # backlog[j] BY ZenonT(60), <1>1, <2>1, <3>3 DEF Places
      <4> QED BY Zenon, <3>3, <4>1
    <3> QED BY ZenonT(60), <1>5, <3>1, <3>2, <3>3
  <2>2. \A i \in 1 .. Len(backlog') : backlog'[i] # serving'
    BY Zenon, <1>1, <1>3, <1>5 DEF Places
  <2>3. \A d \in Client : Waiting(d)' \/ (serving' = d /\ response' = NoClient) => executed'[d] = 0
    BY Zenon, <1>1, <1>2, <1>6 DEF Places
  <2>4. \A d \in open' : answer'[d] = NoClient BY Zenon, <1>1 DEF Places
  <2>5. \A d \in Client \ open' : Connected(d)' => answer'[d] = <<"gone">>
    BY Zenon, <1>1, <1>6 DEF Places, Connected
  <2>6. \A d \in Client \ open' : answer'[d] = NoClient => executed'[d] = 0
    BY Zenon, <1>1 DEF Places
  <2> QED BY Zenon, <2>1, <2>2, <2>3, <2>4, <2>5, <2>6 DEF Places
<1>9. Executions' BY Zenon, <1>1, SocketExecutionsKept DEF Says
<1>10. Owned' BY Zenon, <1>1, SocketOwnersKept DEF Says
<1> QED BY Zenon, <1>7, <1>8, <1>9, <1>10 DEF SocketIInv

\* A client ends its line, or nothing happens.
LEMMA SocketSendStep ==
  ASSUME SocketConstants, SocketIInv, (\E c \in Client : SendLine(c)) \/ UNCHANGED socketVars
  PROVE  SocketIInv'
<1>1. /\ Typed /\ Places /\ sent \subseteq sent' /\ sent' \subseteq Client
      /\ UNCHANGED <<request, open, backlog, serving, response, answer, jobs, executed>>
  BY Zenon DEF SocketIInv, SendLine, Typed, socketVars
<1>2. Typed' BY Zenon, <1>1 DEF Typed
<1>3. Places' BY ZenonT(60), <1>1 DEF Places, Waiting, Connected
<1>4. Executions' BY Zenon, <1>1, SocketExecutionsKept DEF Says
<1>5. Owned' BY Zenon, <1>1, SocketOwnersKept DEF Says
<1> QED BY Zenon, <1>2, <1>3, <1>4, <1>5 DEF SocketIInv

\* A client hangs up.
LEMMA SocketHangUpStep ==
  ASSUME SocketConstants, SocketIInv, NEW c \in Client, HangUp(c)
  PROVE  SocketIInv'
<1>1. /\ Typed /\ Places /\ c \in open /\ answer[c] = NoClient /\ open' = open \ {c}
      /\ UNCHANGED <<request, sent, backlog, serving, response, jobs, socketErrors, executed>>
  BY Zenon DEF SocketIInv, HangUp, Places
<1>2. answer' = [answer EXCEPT ![c] = <<"gone">>] BY Zenon, <1>1 DEF HangUp
<1>3. /\ answer \in [Client -> Reply \cup {NoClient}] /\ answer'[c] = <<"gone">>
      /\ \A d \in Client \ {c} : answer'[d] = answer[d]
  BY Zenon, <1>1, <1>2 DEF Typed
<1>4. Typed'
  <2>1. answer' \in [Client -> Reply \cup {NoClient}] BY Zenon, <1>2, <1>3, SocketReplies
  <2> QED BY Zenon, <1>1, <2>1 DEF Typed
<1>5. <<"gone">> # NoClient /\ <<"gone">>[1] # "ok" BY Zenon, SocketReplies DEF SocketConstants
<1>6. Places'
  <2>1. open \subseteq Client BY Zenon, <1>1 DEF Typed
  <2>2. \A d \in open' : answer'[d] = NoClient BY Zenon, <1>1, <1>3, <2>1 DEF Places
  <2>3. \A d \in Client \ open' : Connected(d)' => answer'[d] = <<"gone">>
    BY Zenon, <1>1, <1>3 DEF Places, Connected, Waiting
  <2>4. \A d \in Client \ open' : answer'[d] = NoClient => executed'[d] = 0
    BY Zenon, <1>1, <1>3, <1>5 DEF Places
  <2> QED BY ZenonT(60), <1>1, <2>2, <2>3, <2>4 DEF Places, Waiting
<1>7. \A d \in Client : \A a \in {answer'[d], response'} : Says(d, a)' /\ a[1] = "ok" => Says(d, a)
  BY Zenon, <1>1, <1>3, <1>5 DEF Says
<1>8. Executions' BY Zenon, <1>1, <1>7, SocketExecutionsKept
<1>9. Owned' BY ZenonT(60), <1>1, <1>3, <1>7, SocketOwnersKept
<1> QED BY Zenon, <1>4, <1>6, <1>8, <1>9 DEF SocketIInv

\* The first waiting connection is served, or closed if it is another user's.
LEMMA SocketAcceptStep ==
  ASSUME SocketConstants, SocketIInv, Accept
  PROVE  SocketIInv'
<1> DEFINE c == Head(backlog)
<1>1. /\ Typed /\ Places /\ serving = NoClient /\ backlog # <<>> /\ backlog' = Tail(backlog)
      /\ UNCHANGED <<request, sent, response, jobs, socketErrors, executed>>
  BY Zenon DEF SocketIInv, Accept
<1>2. response = NoClient BY Zenon, <1>1 DEF Typed
<1>3. /\ Tail(backlog) \in Seq(Client) /\ 1 \in 1 .. Len(backlog) /\ c = backlog[1] /\ backlog[1] \in Client
      /\ \A i \in 1 .. Len(Tail(backlog)) : i + 1 \in 1 .. Len(backlog) /\ i + 1 # 1 /\ Tail(backlog)[i] = backlog[i + 1]
      /\ \A i, j \in 1 .. Len(Tail(backlog)) : i # j => i + 1 # j + 1
  <2>1. backlog \in Seq(Client) BY Zenon, <1>1 DEF Typed
  <2> QED BY Zenon, <1>1, <2>1, SocketFromStart
<1>4. \/ c \in Foreign /\ open' = open \ {c} /\ answer' = [answer EXCEPT ![c] = <<"closed">>] /\ serving' = NoClient
      \/ c \notin Foreign /\ serving' = c /\ open' = open /\ answer' = answer
  BY Zenon, <1>1 DEF Accept
<1> HIDE DEF c
<1>5. c \in Client /\ Waiting(c) /\ executed[c] = 0
  BY Zenon, <1>1, <1>3 DEF Waiting, Places
<1>6. /\ \A i, j \in 1 .. Len(backlog') : i # j => backlog'[i] # backlog'[j]
      /\ \A i \in 1 .. Len(backlog') : backlog'[i] # c
      /\ \A d \in Client : Waiting(d)' => Waiting(d) /\ d # c
  <2> DEFINE t == Tail(backlog)
  <2>t. backlog' = t BY Zenon, <1>1
  <2>h. c = backlog[1] /\ 1 \in 1 .. Len(backlog) BY Zenon, <1>3
  <2>e. \A i \in 1 .. Len(t) : i + 1 \in 1 .. Len(backlog) /\ i + 1 # 1 /\ t[i] = backlog[i + 1]
    BY Zenon, <1>3
  <2>d. \A i, j \in 1 .. Len(t) : i # j => i + 1 # j + 1 BY Zenon, <1>3
  <2>p. \A i, j \in 1 .. Len(backlog) : i # j => backlog[i] # backlog[j]
    BY Zenon, <1>1 DEF Places
  <2> HIDE DEF t
  <2>1. ASSUME NEW i \in 1 .. Len(backlog'), NEW j \in 1 .. Len(backlog'), i # j PROVE backlog'[i] # backlog'[j]
    <3>1. i \in 1 .. Len(t) /\ j \in 1 .. Len(t) BY Zenon, <2>t
    <3>2. /\ t[i] = backlog[i + 1] /\ t[j] = backlog[j + 1] /\ i + 1 # j + 1
          /\ i + 1 \in 1 .. Len(backlog) /\ j + 1 \in 1 .. Len(backlog)
      BY Zenon, <2>1, <2>d, <2>e, <3>1
    <3>3. backlog[i + 1] # backlog[j + 1] BY Zenon, <2>p, <3>2
    <3> QED BY Zenon, <2>t, <3>2, <3>3
  <2>2. ASSUME NEW i \in 1 .. Len(backlog') PROVE backlog'[i] # c
    <3>1. i \in 1 .. Len(t) BY Zenon, <2>t
    <3>2. t[i] = backlog[i + 1] /\ i + 1 \in 1 .. Len(backlog) /\ i + 1 # 1 BY Zenon, <2>e, <3>1
    <3>3. backlog[i + 1] # backlog[1] BY Zenon, <2>h, <2>p, <3>2
    <3> QED BY Zenon, <2>h, <2>t, <3>2, <3>3
  <2>3. \A d \in Client : Waiting(d)' => Waiting(d) /\ d # c
    BY Zenon, <1>1, <1>3, <2>2 DEF Waiting
  <2> QED BY Zenon, <2>1, <2>2, <2>3
<1>7. <<"closed">> # NoClient /\ <<"closed">>[1] # "ok" BY Zenon, SocketReplies DEF SocketConstants
<1>8. /\ \A d \in Client \ {c} : answer'[d] = answer[d] /\ (d \in open' <=> d \in open)
      /\ answer'[c] \in {answer[c], <<"closed">>} /\ answer' \in [Client -> Reply \cup {NoClient}]
      /\ open' \subseteq open /\ (c \in open' => answer'[c] = answer[c])
  <2>1. answer \in [Client -> Reply \cup {NoClient}] /\ <<"closed">> \in Reply
    BY Zenon, <1>1, SocketReplies DEF Typed
  <2>2. CASE open' = open \ {c} /\ answer' = [answer EXCEPT ![c] = <<"closed">>]
    BY Zenon, <1>5, <2>1, <2>2
  <2>3. CASE open' = open /\ answer' = answer BY Zenon, <2>1, <2>3
  <2> QED BY Zenon, <1>4, <2>2, <2>3
<1>9. Typed'
  <2>1. serving' \in (Client \ Foreign) \cup {NoClient} BY Zenon, <1>4, <1>5
  <2> QED BY ZenonT(60), <1>1, <1>2, <1>3, <1>8, <2>1 DEF Typed
<1>10. Places'
  <2>1. \A i \in 1 .. Len(backlog') : backlog'[i] # serving'
    <3>1. ASSUME NEW i \in 1 .. Len(backlog') PROVE backlog'[i] # NoClient
      <4>1. backlog' \in Seq(Client) BY Zenon, <1>1, <1>3
      <4>2. backlog'[i] \in Client BY SMTT(60), <4>1
      <4> QED BY Zenon, <4>2 DEF SocketConstants
    <3> QED BY Zenon, <1>4, <1>6, <3>1
  <2>2. \A d \in Client : Waiting(d)' \/ (serving' = d /\ response' = NoClient) => executed'[d] = 0
    <3>1. NoClient \notin Client BY Zenon DEF SocketConstants
    <3> QED BY Zenon, <1>1, <1>4, <1>5, <1>6, <3>1 DEF Places
  <2>3. \A d \in open' : answer'[d] = NoClient
    <3>1. open \subseteq Client BY Zenon, <1>1 DEF Typed
    <3> QED BY Zenon, <1>1, <1>8, <3>1 DEF Places
  <2>4. ASSUME NEW d \in Client \ open', Connected(d)' PROVE answer'[d] = <<"gone">>
    <3>1. CASE d # c
      <4>1. Waiting(d)
        BY Zenon, <1>4, <1>6, <2>4, <3>1 DEF Connected, SocketConstants
      <4> QED BY ZenonT(60), <1>1, <1>8, <2>4, <3>1, <4>1 DEF Places, Connected
    <3>2. CASE d = c
      <4>1. serving' = c BY Zenon, <1>6, <2>4, <3>2 DEF Connected
      <4>2. open' = open /\ answer' = answer BY Zenon, <1>4, <1>5, <4>1 DEF SocketConstants
      <4> QED BY ZenonT(60), <1>1, <1>5, <2>4, <3>2, <4>2 DEF Places, Connected
    <3> QED BY Zenon, <3>1, <3>2
  <2>5. \A d \in Client \ open' : answer'[d] = NoClient => executed'[d] = 0
    BY Zenon, <1>1, <1>5, <1>8 DEF Places
  <2> QED BY ZenonT(60), <1>6, <2>1, <2>2, <2>3, <2>4, <2>5 DEF Places
<1>11. \A d \in Client : \A a \in {answer'[d], response'} : Says(d, a)' /\ a[1] = "ok" => Says(d, a)
  BY ZenonT(60), <1>1, <1>2, <1>7, <1>8 DEF Says
<1>12. \A d \in Client : executed[d] = 1 => d # c
  <2>1. 0 # 1 OBVIOUS
  <2> QED BY Zenon, <1>5, <2>1
<1>13. Executions'
  <2>1. \A d \in Client : executed[d] = 1 => serving' # d
    BY ZenonT(60), <1>4, <1>12 DEF SocketConstants
  <2> QED BY Zenon, <1>1, <1>11, <2>1, SocketExecutionsKept
<1>14. Owned'
  <2>1. \A d \in Client : serving # d BY Zenon, <1>1 DEF SocketConstants
  <2> QED BY Zenon, <1>1, <1>8, <1>11, <1>12, <2>1, SocketOwnersKept
<1> QED BY Zenon, <1>9, <1>10, <1>13, <1>14 DEF SocketIInv

\* A whole line is executed, once, and one that is not whole is not.
LEMMA SocketHandleStep ==
  ASSUME SocketConstants, SocketIInv, Handle
  PROVE  SocketIInv'
<1> DEFINE r == request[serving]
<1>1. /\ Typed /\ Places /\ Executions /\ serving # NoClient /\ response = NoClient
      /\ UNCHANGED <<request, sent, open, backlog, serving, answer>>
  BY Zenon DEF SocketIInv, Handle
<1>2. serving \in Client /\ serving \notin Foreign /\ executed[serving] = 0
  BY Zenon, <1>1 DEF Typed, Places
<1>3. r \in [verb : Verb, id : Nat] /\ jobs \in Seq(JobState)
  <2>1. request \in [Client -> [verb : Verb, id : Nat]]
    BY Zenon, <1>1 DEF Typed, SocketConstants
  <2> QED BY Zenon, <1>1, <1>2, <2>1 DEF Typed
<1>4. /\ Execute(r)[1] \in Reply /\ Execute(r)[2] \in Seq(JobState)
      /\ r.verb = "enqueue" => /\ Execute(r)[1] = <<"ok", Len(jobs) + 1, "queued">>
                               /\ Execute(r)[2] = Append(jobs, "queued")
      /\ r.verb # "enqueue" => Len(Execute(r)[2]) = Len(jobs)
  BY Zenon, <1>3, SocketExecutes
<1>5. \/ /\ serving \in sent /\ executed' = [executed EXCEPT ![serving] = executed[serving] + 1]
         /\ \/ response' = Execute(r)[1] /\ jobs' = Execute(r)[2]
            \/ response' = <<"error job-store">> /\ jobs' \in {jobs, Execute(r)[2]}
      \/ /\ serving \notin open /\ response' = <<"error invalid-request">>
         /\ executed' = executed /\ jobs' = jobs
  BY Zenon DEF Handle
<1> HIDE DEF r
<1>6. /\ executed \in [Client -> {0, 1}] /\ executed' \in [Client -> {0, 1}]
      /\ \A d \in Client \ {serving} : executed'[d] = executed[d]
      /\ executed'[serving] = 1 => serving \in sent
  <2>1. executed \in [Client -> {0, 1}] BY Zenon, <1>1 DEF Typed
  <2>2. CASE executed' = executed
    <3>1. executed'[serving] # 1 BY <1>2, <2>2
    <3> QED BY Zenon, <2>1, <2>2, <3>1
  <2>3. CASE serving \in sent /\ executed' = [executed EXCEPT ![serving] = executed[serving] + 1]
    <3>1. executed[serving] + 1 = 1 BY <1>2
    <3>2. executed' = [executed EXCEPT ![serving] = 1] BY Zenon, <2>3, <3>1
    <3> QED BY Zenon, <1>2, <2>1, <2>3, <3>2
  <2> QED BY Zenon, <1>5, <2>2, <2>3
<1>7. response' \in Reply /\ response' # NoClient /\ jobs' \in Seq(JobState)
  <2>1. response' \in Reply BY Zenon, <1>4, <1>5, SocketReplies
  <2>2. jobs' \in Seq(JobState) BY Zenon, <1>3, <1>4, <1>5
  <2> QED BY Zenon, <2>1, <2>2 DEF SocketConstants
<1>8. Typed' BY Zenon, <1>1, <1>6, <1>7 DEF Typed
<1>9. Places'
  <2>1. \A d \in Client : Waiting(d)' \/ (serving' = d /\ response' = NoClient) => executed'[d] = 0
    <3>1. \A d \in Client : Waiting(d)' => Waiting(d) /\ d # serving
      BY Zenon, <1>1 DEF Waiting, Places
    <3> QED BY Zenon, <1>1, <1>6, <1>7, <3>1 DEF Places
  <2>2. \A d \in Client \ open' : Connected(d)' => answer'[d] = <<"gone">>
    BY Zenon, <1>1 DEF Places, Connected, Waiting
  <2>3. ASSUME NEW d \in Client \ open', answer'[d] = NoClient PROVE executed'[d] = 0
    <3>1. d \notin open /\ answer[d] = NoClient BY Zenon, <1>1, <2>3
    <3>2. d # serving
      <4>1. serving \notin open => answer[serving] = <<"gone">>
        BY Zenon, <1>1, <1>2 DEF Places, Connected
      <4>2. <<"gone">> # NoClient BY Zenon, SocketReplies DEF SocketConstants
      <4> QED BY Zenon, <3>1, <4>1, <4>2
    <3> QED BY Zenon, <1>1, <1>6, <3>1, <3>2 DEF Places
  <2> QED BY ZenonT(60), <1>1, <2>1, <2>2, <2>3 DEF Places
<1>10. executed'[serving] = 1 \/ response' = <<"error invalid-request">>
  <2>1. CASE executed' = [executed EXCEPT ![serving] = executed[serving] + 1]
    <3>1. executed[serving] + 1 = 1 BY <1>2
    <3> QED BY ZenonT(60), <1>2, <1>6, <2>1, <3>1
  <2> QED BY Zenon, <1>5, <2>1
<1>11. answer' = answer /\ request' = request /\ serving' = serving /\ sent' = sent
  BY Zenon, <1>1
<1>12. \A d \in Client : executed[d] = 1 => executed'[d] = 1 /\ d # serving
  <2>1. 0 # 1 OBVIOUS
  <2> QED BY Zenon, <1>2, <1>6, <2>1
<1>13. Executions'
  <2>1. ASSUME NEW d \in Client, executed'[d] = 1 PROVE d \in sent' \ Foreign
    BY ZenonT(60), <1>1, <1>2, <1>6, <1>11, <2>1 DEF Executions
  <2>2. ASSUME NEW d \in Client, NEW a \in {answer'[d], response'}, Says(d, a)', a[1] = "ok" PROVE executed'[d] = 1
    <3>1. CASE answer[d] = a /\ a # NoClient
      <4>1. Says(d, a) /\ a \in {answer[d], response} BY Zenon, <3>1 DEF Says
      <4>2. executed[d] = 1 BY ZenonT(60), <1>1, <2>2, <4>1 DEF Executions
      <4> QED BY Zenon, <1>12, <4>2
    <3>2. CASE serving = d /\ response' = a
      <4>1. response' # <<"error invalid-request">> BY ZenonT(60), <2>2, <3>2, SocketReplies
      <4> QED BY Zenon, <1>10, <3>2, <4>1
    <3> QED BY Zenon, <1>11, <2>2, <3>1, <3>2 DEF Says
  <2>3. ASSUME NEW d \in Client, request'[d].verb = "enqueue", executed'[d] = 1, serving' = d
        PROVE  response'[1] = "ok" \/ response' = <<"error job-store">>
    <3>1. r.verb = "enqueue" /\ d = serving BY Zenon, <1>11, <2>3 DEF r
    <3>2. CASE response' = Execute(r)[1]
      <4>1. Len(jobs) + 1 \in Nat BY <1>3
      <4>2. response' = <<"ok", Len(jobs) + 1, "queued">> BY Zenon, <1>4, <3>1, <3>2
      <4>3. <<"ok", Len(jobs) + 1, "queued">>[1] = "ok" BY ZenonT(60), <4>1, SocketReplies
      <4> QED BY Zenon, <4>2, <4>3
    <3>3. executed' # executed
      <4>1. 0 # 1 OBVIOUS
      <4> QED BY Zenon, <1>2, <2>3, <3>1, <4>1
    <3> QED BY Zenon, <1>5, <3>2, <3>3
  <2> QED BY Zenon, <2>1, <2>2, <2>3 DEF Executions
<1>14. Owned'
  <2>1. PICK owner \in [1 .. Len(jobs) -> Client] : Apart(owner) /\ Earned(owner) /\ Named(owner)
    BY Zenon DEF SocketIInv, Owned
  <2>2. ASSUME NEW i \in 1 .. Len(jobs)
        PROVE  /\ owner[i] \in Client /\ request[owner[i]].verb = "enqueue" /\ executed'[owner[i]] = 1
               /\ owner[i] # serving
               /\ answer[owner[i]] \in {<<"gone">>, <<"error job-store">>, <<"ok", i, "queued">>}
    BY Zenon, <1>12, <2>1 DEF Earned
  <2>3. ASSUME NEW d \in Client, NEW a, request[d].verb = "enqueue", a # NoClient, answer[d] = a, a[1] = "ok"
        PROVE  \E i \in 1 .. Len(jobs) : owner[i] = d /\ a = <<"ok", i, "queued">>
    BY Zenon, <2>1, <2>3 DEF Named, Says
  <2>4. \A i, j \in 1 .. Len(jobs) : i # j => owner[i] # owner[j]
    BY Zenon, <2>1 DEF Apart
  <2>5. CASE jobs' = Append(jobs, "queued") /\ r.verb = "enqueue" /\ executed' # executed
    <3> DEFINE n == Len(jobs) + 1
    <3>1. "queued" \in JobState BY DEF JobState
    <3>2. /\ Len(jobs) \in Nat /\ Len(jobs') = n /\ n \in 1 .. n
          /\ \A i \in 1 .. Len(jobs) : i \in 1 .. n /\ i # n
          /\ \A i \in 1 .. n : i \in 1 .. Len(jobs) \/ i = n
      BY ZenonT(60), <1>3, <2>5, <3>1, SocketAtEnd
    <3>9. /\ n \in 1 .. Len(jobs') /\ \A i \in 1 .. Len(jobs) : i \in 1 .. Len(jobs') /\ i # n
          /\ \A i \in 1 .. Len(jobs') : i \in 1 .. Len(jobs) \/ i = n
      BY Zenon, <3>2
    <3> HIDE DEF n
    <3>3. PICK more \in [1 .. Len(jobs') -> Client] : more[n] = serving /\ \A i \in 1 .. Len(jobs) : more[i] = owner[i]
      <4> DEFINE extended == [i \in 1 .. Len(jobs') |-> IF i = n THEN serving ELSE owner[i]]
      <4>1. extended \in [1 .. Len(jobs') -> Client] BY Zenon, <1>2, <2>2, <3>9
      <4>2. extended[n] = serving /\ \A i \in 1 .. Len(jobs) : extended[i] = owner[i]
        BY ZenonT(60), <3>9
      <4> QED BY Zenon, <4>1, <4>2
    <3>4. ASSUME NEW i \in 1 .. Len(jobs'), NEW j \in 1 .. Len(jobs'), i # j PROVE more[i] # more[j]
      <4>1. CASE i \in 1 .. Len(jobs) /\ j \in 1 .. Len(jobs) BY ZenonT(60), <2>4, <3>3, <3>4, <4>1
      <4>2. CASE i = n /\ j \in 1 .. Len(jobs) BY Zenon, <2>2, <3>3, <4>2
      <4>3. CASE j = n /\ i \in 1 .. Len(jobs) BY ZenonT(60), <2>2, <3>3, <4>3
      <4> QED BY Zenon, <3>9, <3>4, <4>1, <4>2, <4>3
    <3>5. executed'[serving] = 1
      <4>1. executed' = [executed EXCEPT ![serving] = executed[serving] + 1]
        BY Zenon, <1>5, <2>5
      <4>2. executed[serving] + 1 = 1 BY <1>2
      <4> QED BY Zenon, <1>2, <1>6, <4>1, <4>2
    <3>6. ASSUME NEW i \in 1 .. Len(jobs')
          PROVE  /\ request'[more[i]].verb = "enqueue" /\ executed'[more[i]] = 1
                 /\ serving' = more[i] \/ answer'[more[i]] \in {<<"gone">>, <<"error job-store">>, <<"ok", i, "queued">>}
      <4>1. CASE i \in 1 .. Len(jobs) BY Zenon, <1>11, <2>2, <3>3, <4>1
      <4>2. CASE i = n BY ZenonT(60), <1>11, <2>5, <3>3, <3>5, <4>2 DEF r
      <4> QED BY ZenonT(60), <3>9, <4>1, <4>2
    <3>7. ASSUME NEW d \in Client, NEW a \in {answer'[d], response'},
                 request'[d].verb = "enqueue", Says(d, a)', a[1] = "ok"
          PROVE  \E i \in 1 .. Len(jobs') : more[i] = d /\ a = <<"ok", i, "queued">>
      <4>1. CASE a # NoClient /\ answer[d] = a
        <5>1. request[d].verb = "enqueue" BY Zenon, <1>11, <3>7
        <5>2. PICK i \in 1 .. Len(jobs) : owner[i] = d /\ a = <<"ok", i, "queued">>
          BY ZenonT(60), <2>3, <3>7, <4>1, <5>1
        <5> QED BY Zenon, <3>9, <3>3, <5>2
      <4>2. CASE serving = d /\ response' = a
        <5>1. response' # <<"error job-store">> /\ response' # <<"error invalid-request">>
          BY ZenonT(60), <3>7, <4>2, SocketReplies
        <5>2. response' = Execute(r)[1] BY Zenon, <1>5, <5>1
        <5>3. a = <<"ok", n, "queued">> BY ZenonT(60), <1>4, <2>5, <4>2, <5>2 DEF n
        <5> QED BY Zenon, <3>9, <3>3, <4>2, <5>3
      <4> QED BY Zenon, <1>11, <3>7, <4>1, <4>2 DEF Says
    <3>8. (Apart(more) /\ Earned(more) /\ Named(more))'
      <4>1. Apart(more)' BY ONLY Zenon, <3>4 DEF Apart
      <4>2. Earned(more)' BY ONLY Zenon, <3>6 DEF Earned
      <4>3. Named(more)' BY ONLY ZenonT(60), <3>7 DEF Named
      <4> QED BY Zenon, <4>1, <4>2, <4>3
    <3> QED BY Zenon, <3>3, <3>8 DEF Owned
  <2>6. CASE Len(jobs') = Len(jobs) /\ (r.verb = "enqueue" => response'[1] # "ok")
    <3>1. \A i, j \in 1 .. Len(jobs') : i # j => owner[i] # owner[j] BY Zenon, <2>4, <2>6
    <3>2. ASSUME NEW i \in 1 .. Len(jobs')
          PROVE  /\ request'[owner[i]].verb = "enqueue" /\ executed'[owner[i]] = 1
                 /\ serving' = owner[i] \/ answer'[owner[i]] \in {<<"gone">>, <<"error job-store">>, <<"ok", i, "queued">>}
      BY Zenon, <1>11, <2>2, <2>6
    <3>3. ASSUME NEW d \in Client, NEW a \in {answer'[d], response'},
                 request'[d].verb = "enqueue", Says(d, a)', a[1] = "ok"
          PROVE  \E i \in 1 .. Len(jobs') : owner[i] = d /\ a = <<"ok", i, "queued">>
      <4>1. request[d].verb = "enqueue" BY Zenon, <1>11, <3>3
      <4>2. CASE a # NoClient /\ answer[d] = a
        <5>1. PICK i \in 1 .. Len(jobs) : owner[i] = d /\ a = <<"ok", i, "queued">>
          BY ZenonT(60), <2>3, <3>3, <4>1, <4>2
        <5> QED BY Zenon, <2>6, <5>1
      <4>3. CASE serving = d /\ response' = a BY Zenon, <2>6, <3>3, <4>1, <4>3 DEF r
      <4> QED BY Zenon, <1>11, <3>3, <4>2, <4>3 DEF Says
    <3>4. (Apart(owner) /\ Earned(owner) /\ Named(owner))'
      <4>1. Apart(owner)' BY ONLY Zenon, <3>1 DEF Apart
      <4>2. Earned(owner)' BY ONLY Zenon, <3>2 DEF Earned
      <4>3. Named(owner)' BY ONLY Zenon, <3>3 DEF Named
      <4> QED BY ZenonT(60), <4>1, <4>2, <4>3
    <3>5. owner \in [1 .. Len(jobs') -> Client] BY ZenonT(60), <2>1, <2>6
    <3> QED BY Zenon, <3>4, <3>5 DEF Owned
  <2>7. \/ jobs' = Append(jobs, "queued") /\ r.verb = "enqueue" /\ executed' # executed
        \/ Len(jobs') = Len(jobs) /\ (r.verb = "enqueue" => response'[1] # "ok")
    <3>1. CASE executed' = executed
      <4>1. response' = <<"error invalid-request">> /\ jobs' = jobs
        <5>1. executed' # [executed EXCEPT ![serving] = executed[serving] + 1]
          <6>1. executed[serving] + 1 # executed[serving] BY <1>2
          <6> QED BY ZenonT(60), <1>2, <1>6, <3>1, <6>1
        <5> QED BY Zenon, <1>5, <5>1
      <4> QED BY Zenon, <4>1, SocketReplies
    <3>2. CASE executed' # executed /\ jobs' = Execute(r)[2]
      BY ZenonT(60), <1>4, <1>5, <3>2, SocketReplies
    <3>3. CASE executed' # executed /\ jobs' # Execute(r)[2]
      BY Zenon, <1>5, <3>3, SocketReplies
    <3> QED BY Zenon, <3>1, <3>2, <3>3
  <2> QED BY Zenon, <2>5, <2>6, <2>7
<1> QED BY Zenon, <1>8, <1>9, <1>13, <1>14 DEF SocketIInv

\* The answer is written, unless the client hung up.
LEMMA SocketRespondStep ==
  ASSUME SocketConstants, SocketIInv, Respond
  PROVE  SocketIInv'
<1>1. /\ Typed /\ Places /\ Executions /\ response # NoClient /\ open' = open \ {serving}
      /\ serving' = NoClient /\ response' = NoClient
      /\ UNCHANGED <<request, sent, backlog, jobs, executed>>
  BY Zenon DEF SocketIInv, Respond
<1>2. serving \in Client \ Foreign /\ serving # NoClient /\ response \in Reply
  BY Zenon, <1>1 DEF Typed
<1>3. answer \in [Client -> Reply \cup {NoClient}] /\ open \subseteq Client
  BY Zenon, <1>1 DEF Typed
<1>4. \/ serving \in open /\ answer[serving] = NoClient /\ answer' = [answer EXCEPT ![serving] = response]
      \/ serving \notin open /\ answer[serving] = <<"gone">> /\ answer' = answer
  BY Zenon, <1>1, <1>2 DEF Respond, Places, Connected
<1>5. /\ answer' \in [Client -> Reply \cup {NoClient}] /\ answer'[serving] \in {response, <<"gone">>}
      /\ answer'[serving] = response \/ (answer'[serving] = answer[serving] /\ answer[serving] = <<"gone">>)
      /\ \A d \in Client \ {serving} : answer'[d] = answer[d]
  <2>1. CASE answer' = [answer EXCEPT ![serving] = response] BY Zenon, <1>2, <1>3, <2>1
  <2>2. CASE answer' = answer /\ answer[serving] = <<"gone">> BY Zenon, <1>3, <2>2
  <2> QED BY Zenon, <1>4, <2>1, <2>2
<1>6. <<"gone">> # NoClient /\ <<"gone">>[1] # "ok" /\ NoClient \notin Client
  BY Zenon, SocketReplies DEF SocketConstants
<1>7. Typed' BY ZenonT(60), <1>1, <1>3, <1>5 DEF Typed
<1>8. Places'
  <2>1. \A i \in 1 .. Len(backlog') : backlog'[i] # serving'
    <3>1. backlog \in Seq(Client) BY Zenon, <1>1 DEF Typed
    <3>2. \A i \in 1 .. Len(backlog) : backlog[i] \in Client BY <3>1
    <3> QED BY Zenon, <1>1, <1>6, <3>2
  <2>2. \A d \in Client : Waiting(d)' \/ (serving' = d /\ response' = NoClient) => executed'[d] = 0
    BY Zenon, <1>1, <1>6 DEF Places, Waiting
  <2>3. \A d \in open' : answer'[d] = NoClient BY Zenon, <1>1, <1>3, <1>5 DEF Places
  <2>4. ASSUME NEW d \in Client \ open', Connected(d)' PROVE answer'[d] = <<"gone">>
    <3>1. Waiting(d) BY Zenon, <1>1, <1>6, <2>4 DEF Connected, Waiting
    <3>2. d # serving BY Zenon, <1>1, <3>1 DEF Places, Waiting
    <3> QED BY Zenon, <1>1, <1>5, <2>4, <3>1, <3>2 DEF Places, Connected
  <2>5. \A d \in Client \ open' : answer'[d] = NoClient => executed'[d] = 0
    BY Zenon, <1>1, <1>5, <1>6 DEF Places
  <2>6. \A i, j \in 1 .. Len(backlog') : i # j => backlog'[i] # backlog'[j]
    BY Zenon, <1>1 DEF Places
  <2> QED BY Zenon, <2>1, <2>2, <2>3, <2>4, <2>5, <2>6 DEF Places
<1>9. ASSUME NEW d \in Client, NEW a \in {answer'[d], response'}, Says(d, a)', a[1] = "ok" PROVE Says(d, a)
  <2>1. a # NoClient /\ answer'[d] = a BY Zenon, <1>1, <1>9 DEF Says
  <2>2. CASE d = serving BY Zenon, <1>5, <1>6, <1>9, <2>1, <2>2 DEF Says
  <2>3. CASE d # serving BY ZenonT(60), <1>5, <2>1, <2>3 DEF Says
  <2> QED BY Zenon, <2>2, <2>3
<1>10. Executions'
  <2>1. \A d \in Client : serving' # d BY ZenonT(60), <1>1, <1>6
  <2> QED BY Zenon, <1>1, <1>9, <2>1, SocketExecutionsKept
<1>11. Owned'
  <2>1. PICK owner \in [1 .. Len(jobs) -> Client] : Apart(owner) /\ Earned(owner) /\ Named(owner)
    BY Zenon DEF SocketIInv, Owned
  <2>2. request' = request /\ jobs' = jobs /\ executed' = executed BY Zenon, <1>1
  <2>3. \A i, j \in 1 .. Len(jobs) : i # j => owner[i] # owner[j]
    BY Zenon, <2>1 DEF Apart
  <2>4. ASSUME NEW d \in Client, NEW a \in {answer[d], response}, request[d].verb = "enqueue", Says(d, a), a[1] = "ok"
        PROVE  \E i \in 1 .. Len(jobs) : owner[i] = d /\ a = <<"ok", i, "queued">>
    BY ZenonT(60), <2>1, <2>4 DEF Named
  <2>5. ASSUME NEW i \in 1 .. Len(jobs')
        PROVE  /\ request'[owner[i]].verb = "enqueue" /\ executed'[owner[i]] = 1
               /\ serving' = owner[i] \/ answer'[owner[i]] \in {<<"gone">>, <<"error job-store">>, <<"ok", i, "queued">>}
    <3>0. i \in 1 .. Len(jobs) /\ owner[i] \in Client BY Zenon, <2>1, <2>2
    <3>1. /\ request[owner[i]].verb = "enqueue" /\ executed[owner[i]] = 1
          /\ serving = owner[i] \/ answer[owner[i]] \in {<<"gone">>, <<"error job-store">>, <<"ok", i, "queued">>}
      BY Zenon, <2>1, <3>0 DEF Earned
    <3>2. CASE serving # owner[i] BY Zenon, <1>5, <2>2, <3>0, <3>1, <3>2
    <3>3. CASE serving = owner[i]
      <4>1. response[1] = "ok" \/ response = <<"error job-store">>
        BY Zenon, <1>1, <1>2, <3>1, <3>3 DEF Executions
      <4>2. CASE response[1] = "ok"
        <5>1. Says(serving, response) BY Zenon, <1>1 DEF Says
        <5>2. PICK j \in 1 .. Len(jobs) : owner[j] = serving /\ response = <<"ok", j, "queued">>
          BY ZenonT(60), <1>2, <2>4, <3>1, <3>3, <4>2, <5>1
        <5>3. i = j BY Zenon, <2>3, <3>0, <3>3, <5>2
        <5> QED BY ZenonT(60), <1>5, <2>2, <3>1, <3>3, <5>2, <5>3
      <4>3. CASE response = <<"error job-store">> BY ZenonT(60), <1>5, <2>2, <3>1, <3>3, <4>3
      <4> QED BY ZenonT(60), <4>1, <4>2, <4>3
    <3> QED BY Zenon, <3>2, <3>3
  <2>6. \A i, j \in 1 .. Len(jobs') : i # j => owner[i] # owner[j] BY Zenon, <2>2, <2>3
  <2>7. ASSUME NEW d \in Client, NEW a \in {answer'[d], response'},
               request'[d].verb = "enqueue", Says(d, a)', a[1] = "ok"
        PROVE  \E i \in 1 .. Len(jobs') : owner[i] = d /\ a = <<"ok", i, "queued">>
    <3>1. Says(d, a) BY Zenon, <1>9, <2>7
    <3>2. a \in {answer[d], response} /\ request[d].verb = "enqueue"
      BY ZenonT(60), <2>2, <2>7, <3>1 DEF Says
    <3>3. PICK i \in 1 .. Len(jobs) : owner[i] = d /\ a = <<"ok", i, "queued">>
      BY ZenonT(60), <2>4, <2>7, <3>1, <3>2
    <3> QED BY Zenon, <2>2, <3>3
  <2>8. (Apart(owner) /\ Earned(owner) /\ Named(owner))'
    <3>1. Apart(owner)' BY ONLY Zenon, <2>6 DEF Apart
    <3>2. Earned(owner)' BY ONLY Zenon, <2>5 DEF Earned
    <3>3. Named(owner)' BY ONLY Zenon, <2>7 DEF Named
    <3> QED BY Zenon, <3>1, <3>2, <3>3
  <2>9. owner \in [1 .. Len(jobs') -> Client] BY Zenon, <2>1, <2>2
  <2> QED BY Zenon, <2>8, <2>9 DEF Owned
<1> QED BY Zenon, <1>7, <1>8, <1>10, <1>11 DEF SocketIInv

\* The invariant holds in every state of the socket.
LEMMA SocketInvariance ==
  ASSUME SocketConstants
  PROVE  SocketSpec => []SocketIInv
<1>1. SocketInit => SocketIInv
  <2> SUFFICES ASSUME SocketInit PROVE SocketIInv BY Zenon
  <2>1. Typed
    <3>1. <<>> \in Seq(Client) /\ <<>> \in Seq(JobState) /\ 0 \in {0, 1} OBVIOUS
    <3> QED BY Zenon, <3>1 DEF SocketInit, Typed
  <2>2. \A i \in 1 .. Len(<<>>) : FALSE OBVIOUS
  <2>3. Places
    BY Zenon, <2>2 DEF SocketInit, Places, Waiting, Connected,
         SocketConstants
  <2>4. 0 # 1 OBVIOUS
  <2>5. \A c \in Client : executed[c] = 0 /\ answer[c] = NoClient /\ response = NoClient
    BY Zenon DEF SocketInit
  <2>6. Executions
    <3>1. ASSUME NEW c \in Client, executed[c] = 1 PROVE FALSE BY Zenon, <2>4, <2>5, <3>1
    <3>2. ASSUME NEW c \in Client, NEW a, Says(c, a) PROVE FALSE
      BY Zenon, <2>5, <3>2 DEF Says
    <3> QED BY Zenon, <3>1, <3>2 DEF Executions
  <2>7. PICK owner \in [1 .. Len(jobs) -> Client] : TRUE
    <3>1. [i \in 1 .. Len(jobs) |-> NoClient] \in [1 .. Len(jobs) -> Client]
      BY Zenon, <2>2 DEF SocketInit
    <3> QED BY Zenon, <3>1
  <2>8. Apart(owner) /\ Earned(owner) /\ Named(owner)
    BY Zenon, <2>2, <2>5 DEF SocketInit, Apart, Earned, Named, Says
  <2> QED BY Zenon, <2>1, <2>3, <2>6, <2>8 DEF SocketIInv, Owned
<1>2. SocketIInv /\ [SocketNext]_socketVars => SocketIInv'
  BY Zenon, SocketConnectStep, SocketSendStep, SocketHangUpStep, SocketAcceptStep,
       SocketHandleStep, SocketRespondStep DEF SocketNext
<1> QED BY <1>1, <1>2, PTL DEF SocketSpec

\* A command takes effect at most once, only if its whole line came from the daemon's
\* own user, and a client is told of success only then (serve_one_with, execute).
THEOREM CommandsOwned ==
  ASSUME SocketConstants
  PROVE  SocketSpec => []ExecutedOwned
<1>1. ASSUME SocketIInv PROVE ExecutedOwned
  <2>1. ASSUME NEW c \in Client PROVE /\ executed[c] > 0 => c \in sent \ Foreign
                                      /\ answer[c] # NoClient /\ answer[c][1] = "ok" => executed[c] = 1
    <3>1. executed[c] \in {0, 1} BY Zenon, <1>1 DEF SocketIInv, Typed
    <3>2. executed[c] > 0 => executed[c] = 1 BY <3>1
    <3>3. executed[c] = 1 => c \in sent \ Foreign
      BY Zenon, <1>1 DEF SocketIInv, Executions
    <3>4. answer[c] # NoClient /\ answer[c][1] = "ok" => executed[c] = 1
      BY Zenon, <1>1 DEF SocketIInv, Executions, Says
    <3> QED BY Zenon, <3>2, <3>3, <3>4
  <2> QED BY Zenon, <2>1 DEF ExecutedOwned
<1> QED BY <1>1, SocketInvariance, PTL

\* Every job is the one of another client's enqueue, and a client is told of its own
\* job or cannot be told (handle_socket_command, write_response).
THEOREM JobsOwned ==
  ASSUME SocketConstants
  PROVE  SocketSpec => []EnqueuesTold
<1>1. ASSUME SocketIInv PROVE EnqueuesTold
  <2>1. PICK owner \in [1 .. Len(jobs) -> Client] : Apart(owner) /\ Earned(owner) /\ Named(owner)
    BY Zenon, <1>1 DEF SocketIInv, Owned
  <2>2. jobs \in Seq(JobState) BY Zenon, <1>1 DEF SocketIInv, Typed
  <2>3. DOMAIN jobs = 1 .. Len(jobs) BY <2>2
  <2>4. ASSUME NEW c \in Told PROVE \E i \in 1 .. Len(jobs) : owner[i] = c /\ answer[c] = <<"ok", i, "queued">>
    <3>1. c \in Client /\ request[c].verb = "enqueue" /\ answer[c] # NoClient /\ answer[c][1] = "ok"
      BY Zenon DEF Told
    <3>2. Says(c, answer[c]) BY Zenon, <3>1 DEF Says
    <3> QED BY Zenon, <2>1, <3>1, <3>2 DEF Named
  <2>5. \A i, j \in 1 .. Len(jobs) : i # j => owner[i] # owner[j]
    BY Zenon, <2>1 DEF Apart
  <2>6. ASSUME NEW i \in 1 .. Len(jobs) PROVE owner[i] \in Told \cup Untold
    <3>1. /\ owner[i] \in Client /\ request[owner[i]].verb = "enqueue" /\ executed[owner[i]] = 1
          /\ serving = owner[i] \/ answer[owner[i]] \in {<<"gone">>, <<"error job-store">>, <<"ok", i, "queued">>}
      BY Zenon, <2>1 DEF Earned
    <3>2. CASE answer[owner[i]] = <<"ok", i, "queued">>
      <4>1. i \in Nat /\ "queued" \in JobState BY DEF JobState
      <4>2. answer[owner[i]] \in Reply /\ answer[owner[i]][1] = "ok"
        BY Zenon, <3>2, <4>1, SocketReplies
      <4>3. answer[owner[i]] # NoClient BY Zenon, <4>2 DEF SocketConstants
      <4> QED BY Zenon, <3>1, <4>2, <4>3 DEF Told
    <3>3. CASE serving = owner[i] \/ answer[owner[i]] \in {<<"gone">>, <<"error job-store">>}
      BY Zenon, <3>1, <3>3 DEF Untold
    <3> QED BY Zenon, <3>1, <3>2, <3>3
  <2>7. owner \in [DOMAIN jobs -> Told \cup Untold] BY Zenon, <2>1, <2>3, <2>6
  <2>8. ASSUME NEW i \in DOMAIN jobs, owner[i] \in Told PROVE answer[owner[i]] = <<"ok", i, "queued">>
    <3>1. PICK j \in 1 .. Len(jobs) : owner[j] = owner[i] /\ answer[owner[i]] = <<"ok", j, "queued">>
      BY Zenon, <2>4, <2>8
    <3>2. i = j BY Zenon, <2>3, <2>5, <3>1
    <3> QED BY Zenon, <3>1, <3>2
  <2>9. \A c \in Told : answer[c] \in {<<"ok", id, "queued">> : id \in DOMAIN jobs}
    BY Zenon, <2>3, <2>4
  <2> QED BY Zenon, <2>3, <2>5, <2>7, <2>8, <2>9 DEF EnqueuesTold
<1> QED BY <1>1, SocketInvariance, PTL

\* A command takes effect at most once, for the daemon's own user, every job is the one
\* of another client's enqueue, and the store's errors stay within their bound.
THEOREM SocketsServe == SocketSpec => []SocketServes
<1>1. SocketConstants BY SocketAssumption
<1> DEFINE Errs == socketErrors \in 0 .. MaxSocketErrors
<1>2. SocketInit => Errs BY SMTT(60), <1>1 DEF SocketInit, SocketConstants
<1>3. Errs /\ [SocketNext]_socketVars => Errs'
  <2> SUFFICES ASSUME Errs, [SocketNext]_socketVars PROVE Errs' BY Zenon
  <2>1. UNCHANGED socketErrors \/ (socketErrors < MaxSocketErrors /\ socketErrors' = socketErrors + 1)
    BY ZenonT(60) DEF SocketNext, Connect, SendLine, HangUp, Accept, Handle, Respond, socketVars
  <2> QED BY SMTT(60), <1>1, <2>1 DEF SocketConstants
<1>4. SocketSpec => []SocketIInv BY Zenon, <1>1, SocketInvariance
<1>5. SocketSpec => []ExecutedOwned BY Zenon, <1>1, CommandsOwned
<1>6. SocketSpec => []EnqueuesTold BY Zenon, <1>1, JobsOwned
<1>7. ASSUME SocketIInv, Errs, ExecutedOwned, EnqueuesTold PROVE SocketServes
  <2>1. {0, 1} = 0 .. 1 OBVIOUS
  <2>2. SocketTypeOK BY Zenon, <1>7, <2>1 DEF SocketIInv, Typed, SocketTypeOK
  <2> QED BY Zenon, <1>7, <2>2 DEF SocketServes
<1> HIDE DEF Errs
<1> QED BY <1>2, <1>3, <1>4, <1>5, <1>6, <1>7, PTL DEF SocketSpec
=============================================================================
