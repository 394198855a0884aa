----------------------- MODULE CacheHydrationProofs -----------------------
(***************************************************************************)
(* Proofs about the entries of the cache, for any number of handles,       *)
(* threads, blobs and faults.                                              *)
(*                                                                         *)
(* EntriesSound follows from the invariant IInv of CacheHydration.  Its    *)
(* parts support each other: SingleFlight needs that the map names only    *)
(* threads at work (FlightInv); ValidSurvives needs to know where a moved  *)
(* file is (HeldInv) and that a published entry is not invalid             *)
(* (InvalidInv); UndisturbedSucceeds needs what a thread finds             *)
(* (Undisturbed) and, because a thread of another handle may move the      *)
(* entry it is about to verify, that both hold a lock (LockInv).           *)
(*                                                                         *)
(* The last section is about the filesystem the cache lives on: the image  *)
(* that the privileged helper makes, mounts and grows.                     *)
(***************************************************************************)
EXTENDS CacheHydration, LoopbackImage, TLAPS

\* Every step keeps the types.
LEMMA TypeStep ==
  ASSUME Wellformed, TypeOK, [Next]_vars
  PROVE  TypeOK'
<1> USE DEF Wellformed, TypeOK, EntryStatus, Leading,
            files, sync, local, history,
            Leaf, Goto, Status
<1>1. \A t \in Thread : Key(t) \in Handle \X Blob
  BY DEF Key
<1>2. ASSUME NEW t \in Thread, Check(t) PROVE TypeOK'
  BY ZenonT(60), <1>1, <1>2 DEF Check, Return
<1>3. ASSUME NEW t \in Thread, Join(t) PROVE TypeOK'
  <2>1. flight' \in [Handle \X Blob -> Thread \cup {Free}]
    <3>1. UNCHANGED flight \/ flight' = [flight EXCEPT ![Key(t)] = t]
      BY Zenon, <1>3 DEF Join
    <3> QED
      BY ZenonT(60), <1>1, <3>1
  <2>2. pc' \in [Thread -> {"idle", "dead", "check", "join", "wait", "reconcile", "sweep"} \cup Leading]
    <3>1. \E l \in {"lead", "check", "wait"} : pc' = [pc EXCEPT ![t] = l]
      BY Zenon, <1>3 DEF Join
    <3> QED
      BY SMTT(60), <3>1
  <2> QED
    BY Zenon, <1>3, <2>1, <2>2 DEF Join
<1>4. ASSUME NEW t \in Thread, Complete(t) PROVE TypeOK'
  BY ZenonT(60), <1>1, <1>4 DEF Complete
<1>5. ASSUME NEW t \in Thread, Remove(t) PROVE TypeOK'
  BY ZenonT(60), <1>1, <1>5 DEF Remove
<1>6. ASSUME NEW t \in Thread, Lead(t) PROVE TypeOK'
  BY ZenonT(60), <1>1, <1>6 DEF Lead, Return
<1>7. ASSUME NEW t \in Thread, DiscardLock(t) PROVE TypeOK'
  BY ZenonT(60), <1>1, <1>7 DEF DiscardLock, Lock
<1>8. ASSUME NEW t \in Thread, Inspect(t) PROVE TypeOK'
  BY ZenonT(60), <1>1, <1>8 DEF Inspect, Unlock, AfterDiscard
<1>9. ASSUME NEW t \in Thread, Move(t) PROVE TypeOK'
  BY ZenonT(60), <1>1, <1>9 DEF Move, MoveAway, Unlock, AfterDiscard, Interferes
<1>10. ASSUME NEW t \in Thread, Recheck(t) PROVE TypeOK'
  BY ZenonT(60), <1>1, <1>10 DEF Recheck, Unlock, AfterDiscard, Restored
<1>11. ASSUME NEW t \in Thread, Lookup(t) PROVE TypeOK'
  BY ZenonT(60), <1>1, <1>11 DEF Lookup
<1>12. ASSUME NEW t \in Thread, PublishLock(t) PROVE TypeOK'
  BY ZenonT(60), <1>1, <1>12 DEF PublishLock, Lock
<1>13. ASSUME NEW t \in Thread, Stream(t) PROVE TypeOK'
  BY ZenonT(60), <1>1, <1>13 DEF Stream
<1>14. ASSUME NEW t \in Thread, Link(t) PROVE TypeOK'
  <2>1. lock' \in [Handle \X Blob -> Thread \cup {Free}]
    BY ZenonT(60), <1>1, <1>14 DEF Link, Unlock
  <2>5. leaf' \in [Blob -> {"missing", "valid", "invalid"}]
    <3>1. UNCHANGED leaf \/ leaf' = [leaf EXCEPT ![blob[t]] = IF @ = "missing" THEN "valid" ELSE @]
      BY Zenon, <1>14 DEF Link
    <3> QED
      BY <3>1
  <2>2. pc' \in [Thread -> {"idle", "dead", "check", "join", "wait", "reconcile", "sweep"} \cup Leading]
    BY SMTT(60), <1>1, <1>14 DEF Link, Return
  <2>3. temp' \in [Thread -> BOOLEAN] /\ published' \subseteq Blob
    <3>1. temp' = [temp EXCEPT ![t] = FALSE] /\ (published' = published \/ published' = published \cup {blob[t]})
      BY Zenon, <1>14 DEF Link
    <3> QED
      BY SMTT(60), <3>1
  <2>4. result' \in [Thread -> {"none", "ok", "rejected", "error"}]
    BY ZenonT(60), <1>1, <1>14 DEF Link, Return
  <2> QED
    BY Zenon, <1>14, <2>1, <2>2, <2>3, <2>4, <2>5 DEF Link
<1>15. ASSUME NEW t \in Thread, Verify(t) PROVE TypeOK'
  <2>1. lock' \in [Handle \X Blob -> Thread \cup {Free}]
    BY ZenonT(60), <1>1, <1>15 DEF Verify, Unlock
  <2>2. pc' \in [Thread -> {"idle", "dead", "check", "join", "wait", "reconcile", "sweep"} \cup Leading]
    BY SMTT(60), <1>1, <1>15 DEF Verify, Return
  <2>3. retried' \in [Thread -> BOOLEAN]
    BY ZenonT(60), <1>1, <1>15 DEF Verify
  <2>4. result' \in [Thread -> {"none", "ok", "rejected", "error"}]
    <3>1. UNCHANGED result \/ \E r \in {"ok", "rejected", "error"} : Return(t, r)
      BY ZenonT(60), <1>1, <1>15 DEF Verify
    <3> QED
      BY Zenon, <3>1 DEF Return
  <2> QED
    BY Zenon, <1>15, <2>1, <2>2, <2>3, <2>4 DEF Verify
<1>16. ASSUME NEW t \in Thread, Quarantine(t) PROVE TypeOK'
  BY ZenonT(60), <1>1, <1>16 DEF Quarantine, Unlock, Interferes
<1>17. ASSUME NEW t \in Thread, Sweep(t) PROVE TypeOK'
  BY ZenonT(60), <1>1, <1>17 DEF Sweep
<1>18. ASSUME NEW t \in Thread, Panic(t) PROVE TypeOK'
  BY SMTT(60), <1>1, <1>18 DEF Panic
<1>19. ASSUME NEW t \in Thread, Fail(t) PROVE TypeOK'
  BY SMTT(60), <1>1, <1>19 DEF Fail, Return
<1>20. ASSUME NEW t \in Thread, NEW b \in Blob, Hydrate(t, b) PROVE TypeOK'
  BY SMTT(60), <1>1, <1>20 DEF Hydrate, Call
<1>21. ASSUME NEW t \in Thread, NEW b \in Blob, PublishBlob(t, b) PROVE TypeOK'
  BY SMTT(60), <1>1, <1>21 DEF PublishBlob, Call
<1>22. ASSUME NEW t \in Thread, NEW b \in Blob, OpenVerifiedBlob(t, b) PROVE TypeOK'
  BY SMTT(60), <1>1, <1>22 DEF OpenVerifiedBlob, Call
<1>23. ASSUME NEW t \in Thread, NEW b \in Blob, ReconcileLeaf(t, b) PROVE TypeOK'
  <2>1. lock' \in [Handle \X Blob -> Thread \cup {Free}]
    <3>1. UNCHANGED lock \/ lock' = [lock EXCEPT ![<<HandleOf[t], b>>] = t]
      BY Zenon, <1>23 DEF ReconcileLeaf
    <3> QED
      BY ZenonT(60), <3>1
  <2>2. pc' \in [Thread -> {"idle", "dead", "check", "join", "wait", "reconcile", "sweep"} \cup Leading]
    BY ZenonT(60), <1>1, <1>23 DEF ReconcileLeaf
  <2>3. /\ blob' \in [Thread -> Blob] /\ retried' \in [Thread -> BOOLEAN] /\ direct' \in [Thread -> BOOLEAN]
        /\ result' \in [Thread -> {"none", "ok", "rejected", "error"}] /\ calls' \in [Thread -> 0 .. MaxCalls]
    BY SMTT(60), <1>1, <1>23 DEF ReconcileLeaf, Call
  <2> QED
    BY Zenon, <1>23, <2>1, <2>2, <2>3 DEF ReconcileLeaf
<1>24. ASSUME NEW h \in Handle, NEW b \in Blob, Evict(h, b) PROVE TypeOK'
  BY SMTT(60), <1>1, <1>24 DEF Evict
<1>25. ASSUME NEW b \in Blob, Corrupt(b) PROVE TypeOK'
  BY SMTT(60), <1>1, <1>25 DEF Corrupt
<1>26. CASE Restart
  BY SMTT(60), <1>1, <1>26 DEF Restart
<1>27. CASE UNCHANGED vars
  BY ZenonT(60), <1>1, <1>27 DEF vars
<1> QED
  BY ZenonT(60), <1>2, <1>3, <1>4, <1>5, <1>6, <1>7, <1>8, <1>9, <1>10, <1>11, <1>12, <1>13,
       <1>14, <1>15, <1>16, <1>17, <1>18, <1>19, <1>20, <1>21, <1>22, <1>23, <1>24, <1>25, <1>26, <1>27 DEF Next, Step

\* Steps that only move a thread, within its flight or outside of one.
LEMMA MovesStep ==
  ASSUME TypeOK, FlightInv, DirectInv, SingleFlight,
         NEW t \in Thread, NEW l, pc' = [pc EXCEPT ![t] = l], UNCHANGED <<flight, blob, direct>>,
         flight[Key(t)] = t => l \in Leading \cup {"dead"},
         l \in Leading => direct[t] \/ flight[Key(t)] = t,
         direct[t] => l \in {"idle", "stream", "link", "verify"}
  PROVE  FlightInv' /\ DirectInv' /\ SingleFlight'
<1> USE DEF TypeOK, Key
<1>1. \A u \in Thread : pc'[u] = IF u = t THEN l ELSE pc[u]
  OBVIOUS
<1>2. FlightInv'
  BY SMTT(60), <1>1 DEF FlightInv
<1>3. DirectInv'
  BY <1>1 DEF DirectInv
<1>4. SingleFlight'
  BY ZenonT(60), <1>1 DEF SingleFlight
<1> QED
  BY <1>2, <1>3, <1>4

\* A call begins outside of every flight.
LEMMA CallsStep ==
  ASSUME TypeOK, FlightInv, DirectInv, SingleFlight,
         NEW t \in Thread, NEW b \in Blob, NEW d \in BOOLEAN, NEW r, Call(t, b, d, r),
         NEW l, pc' = [pc EXCEPT ![t] = l], UNCHANGED flight,
         IF d THEN l \in {"idle", "stream", "link", "verify"} ELSE l \notin Leading
  PROVE  FlightInv' /\ DirectInv' /\ SingleFlight'
<1>1. /\ \A u \in Thread : pc'[u] = IF u = t THEN l ELSE pc[u]
      /\ \A u \in Thread : blob'[u] = IF u = t THEN b ELSE blob[u]
      /\ \A u \in Thread : direct'[u] = IF u = t THEN d ELSE direct[u]
      /\ pc[t] = "idle"
  BY DEF TypeOK, Call
<1>2. \A k \in Handle \X Blob : flight[k] # t
  BY <1>1 DEF FlightInv, Leading
<1>3. FlightInv'
  BY <1>1, <1>2 DEF FlightInv, Key
<1>4. DirectInv'
  BY <1>1 DEF DirectInv
<1>5. SingleFlight'
  BY <1>1 DEF SingleFlight, Key
<1> QED
  BY <1>3, <1>4, <1>5

\* The flights, and who leads them, through every step.
LEMMA FlightsStep ==
  ASSUME Wellformed, TypeOK, FlightInv, DirectInv,
         SingleFlight, [Next]_vars
  PROVE  FlightInv' /\ DirectInv' /\ SingleFlight'
<1> DEFINE Flights == FlightInv /\ DirectInv /\ SingleFlight
           Leads(t) == ~direct[t] /\ flight[Key(t)] = t
<1> USE DEF files, sync, local, history, Goto, Leading
<1>1. ASSUME NEW t \in Thread
      PROVE  /\ pc[t] \in Leading /\ ~direct[t] => flight[Key(t)] = t
             /\ flight[Key(t)] = t => ~direct[t] /\ pc[t] \in Leading \cup {"dead"}
             /\ direct[t] => pc[t] \in {"idle", "stream", "link", "verify"}
             /\ Key(t) \in Handle \X Blob
  BY DEF FlightInv, DirectInv, SingleFlight, TypeOK, Wellformed, Key
<1>2. ASSUME NEW t \in Thread, Check(t) PROVE Flights'
  BY ZenonT(60), <1>1, <1>2, MovesStep DEF Check, Return
<1>3. ASSUME NEW t \in Thread, Join(t) PROVE Flights'
  <2>1. CASE flight[Key(t)] # Free
    BY ZenonT(60), <1>1, <1>3, <2>1, MovesStep DEF Join
  <2>2. CASE flight[Key(t)] = Free
    <3>1. /\ \A k \in Handle \X Blob : flight'[k] = IF k = Key(t) THEN t ELSE flight[k]
          /\ \A u \in Thread : pc'[u] = IF u = t THEN "lead" ELSE pc[u]
          /\ UNCHANGED <<blob, direct>> /\ pc[t] = "join" /\ ~direct[t]
      BY ZenonT(60), <1>1, <1>3, <2>2 DEF Join, TypeOK
    <3>2. FlightInv'
      BY <1>1, <3>1 DEF FlightInv, Key
    <3>3. DirectInv'
      BY <3>1 DEF DirectInv
    <3>4. SingleFlight'
      <4> SUFFICES ASSUME NEW u \in Thread, pc'[u] \in Leading, ~direct'[u]
                   PROVE  flight'[Key(u)'] = u
        BY DEF SingleFlight
      <4>1. Key(u)' = Key(u)
        BY ZenonT(60), <3>1 DEF Key
      <4>2. CASE u = t
        BY <1>1, <3>1, <4>1, <4>2
      <4>3. CASE u # t
        <5>1. flight[Key(u)] = u
          BY <1>1, <3>1, <4>3
        <5>2. Key(u) # Key(t)
          BY ZenonT(60), <2>2, <5>1 DEF Wellformed
        <5> QED
          BY SMTT(60), <1>1, <3>1, <4>1, <5>1, <5>2
      <4> QED
        BY <4>2, <4>3
    <3> QED
      BY <3>2, <3>3, <3>4
  <2> QED
    BY <2>1, <2>2
<1>4. ASSUME NEW t \in Thread, Complete(t) PROVE Flights'
  <2>1. /\ \A u \in Thread : pc'[u] = IF u = t THEN "remove"
                                      ELSE IF pc[u] = "wait" /\ Key(u) = Key(t) THEN "check"
                                      ELSE pc[u]
        /\ UNCHANGED <<flight, blob, direct>> /\ pc[t] = "complete"
    BY ZenonT(60), <1>4 DEF Complete, TypeOK
  <2>2. FlightInv'
    BY ZenonT(60), <2>1 DEF FlightInv, Key
  <2>3. DirectInv'
    BY <2>1 DEF DirectInv
  <2>4. SingleFlight'
    BY ZenonT(60), <2>1 DEF SingleFlight, Key
  <2> QED
    BY <2>2, <2>3, <2>4
<1>5. ASSUME NEW t \in Thread, Remove(t) PROVE Flights'
  <2>1. flight[Key(t)] = t /\ ~direct[t] /\ pc[t] = "remove"
    BY <1>1, <1>5 DEF Remove
  <2>2. /\ \A k \in Handle \X Blob : flight'[k] = IF k = Key(t) THEN Free ELSE flight[k]
        /\ \A u \in Thread : pc'[u] = IF u = t THEN "idle" ELSE pc[u]
        /\ UNCHANGED <<blob, direct>>
    BY ZenonT(60), <1>1, <1>5, <2>1 DEF Remove, TypeOK
  <2>3. FlightInv'
    <3> SUFFICES ASSUME NEW k \in Handle \X Blob, NEW u \in Thread, flight'[k] = u
                 PROVE  Key(u) = k /\ ~direct[u] /\ pc'[u] \in Leading \cup {"dead"}
      BY <2>2 DEF FlightInv, Key
    <3>1. k # Key(t) /\ flight[k] = u
      BY <2>2 DEF Wellformed
    <3>2. Key(u) = k /\ ~direct[u] /\ pc[u] \in Leading \cup {"dead"}
      BY ZenonT(60), <3>1 DEF FlightInv
    <3> QED
      BY <2>2, <3>1, <3>2
  <2>4. DirectInv'
    BY <2>2 DEF DirectInv
  <2>5. SingleFlight'
    <3> SUFFICES ASSUME NEW u \in Thread, pc'[u] \in Leading, ~direct'[u]
                 PROVE  flight'[Key(u)] = u
      BY <2>2 DEF SingleFlight, Key
    <3>1. u # t /\ flight[Key(u)] = u
      BY ZenonT(60), <1>1, <2>2
    <3> QED
      BY ZenonT(60), <1>1, <2>1, <2>2, <3>1
  <2> QED
    BY <2>3, <2>4, <2>5
<1>6. ASSUME NEW t \in Thread, Lead(t) PROVE Flights'
  BY <1>1, <1>6, MovesStep DEF Lead, Return
<1>7. ASSUME NEW t \in Thread, DiscardLock(t) PROVE Flights'
  BY Zenon, <1>1, <1>7, MovesStep DEF DiscardLock
<1>8. ASSUME NEW t \in Thread, Inspect(t) PROVE Flights'
  BY ZenonT(60), <1>1, <1>8, MovesStep DEF Inspect, AfterDiscard
<1>9. ASSUME NEW t \in Thread, Move(t) PROVE Flights'
  BY ZenonT(60), <1>1, <1>9, MovesStep DEF Move, AfterDiscard
<1>10. ASSUME NEW t \in Thread, Recheck(t) PROVE Flights'
  BY ZenonT(60), <1>1, <1>10, MovesStep DEF Recheck, AfterDiscard
<1>11. ASSUME NEW t \in Thread, Lookup(t) PROVE Flights'
  BY Zenon, <1>1, <1>11, MovesStep DEF Lookup
<1>12. ASSUME NEW t \in Thread, PublishLock(t) PROVE Flights'
  BY ZenonT(60), <1>1, <1>12, MovesStep DEF PublishLock
<1>13. ASSUME NEW t \in Thread, Stream(t) PROVE Flights'
  BY Zenon, <1>1, <1>13, MovesStep DEF Stream
<1>14. ASSUME NEW t \in Thread, Link(t) PROVE Flights'
  BY ZenonT(60), <1>1, <1>14, MovesStep DEF Link, Return
<1>15. ASSUME NEW t \in Thread, Verify(t) PROVE Flights'
  BY ZenonT(60), <1>1, <1>15, MovesStep DEF Verify, Return
<1>16. ASSUME NEW t \in Thread, Quarantine(t) PROVE Flights'
  BY Zenon, <1>1, <1>16, MovesStep DEF Quarantine
<1>17. ASSUME NEW t \in Thread, Sweep(t) PROVE Flights'
  BY Zenon, <1>1, <1>17, MovesStep DEF Sweep
<1>18. ASSUME NEW t \in Thread, Panic(t) PROVE Flights'
  BY Zenon, <1>1, <1>18, MovesStep DEF Panic
<1>19. ASSUME NEW t \in Thread, Fail(t) PROVE Flights'
  BY Zenon, <1>1, <1>19, MovesStep DEF Fail, Return
<1>20. ASSUME NEW t \in Thread, NEW b \in Blob, Hydrate(t, b) PROVE Flights'
  BY Zenon, <1>1, <1>20, CallsStep DEF Hydrate
<1>21. ASSUME NEW t \in Thread, NEW b \in Blob, PublishBlob(t, b) PROVE Flights'
  BY Zenon, <1>1, <1>21, CallsStep DEF PublishBlob
<1>22. ASSUME NEW t \in Thread, NEW b \in Blob, OpenVerifiedBlob(t, b) PROVE Flights'
  <2>1. pc' = [pc EXCEPT ![t] = "idle"] /\ UNCHANGED flight
    BY <1>22 DEF OpenVerifiedBlob, Call, TypeOK
  <2> QED
    BY Zenon, <1>22, <2>1, CallsStep DEF OpenVerifiedBlob
<1>23. ASSUME NEW t \in Thread, NEW b \in Blob, ReconcileLeaf(t, b) PROVE Flights'
  BY ZenonT(60), <1>1, <1>23, CallsStep DEF ReconcileLeaf
<1>24. ASSUME UNCHANGED <<flight, pc, direct, blob>> PROVE Flights'
  BY SMTT(60), <1>24 DEF FlightInv, DirectInv, SingleFlight, Key
<1>25. CASE Restart
  BY <1>25 DEF Restart, FlightInv, DirectInv, SingleFlight, Wellformed
<1> QED
  BY ZenonT(60), <1>2, <1>3, <1>4, <1>5, <1>6, <1>7, <1>8, <1>9, <1>10, <1>11, <1>12, <1>13,
       <1>14, <1>15, <1>16, <1>17, <1>18, <1>19, <1>20, <1>21, <1>22, <1>23, <1>24, <1>25 DEF Next, Step, Evict, Corrupt, vars

\* A thread that inspects, moves or publishes an entry holds its lock.
LEMMA LocksStep ==
  ASSUME Wellformed, TypeOK, LockInv, [Next]_vars
  PROVE  LockInv'
<1> USE DEF files, sync, local, history, Goto
<1>1. ASSUME NEW t \in Thread
      PROVE  Key(t) \in Handle \X Blob /\ t # Free
  BY DEF TypeOK, Wellformed, Key
<1>2. ASSUME NEW t \in Thread, NEW l, pc' = [pc EXCEPT ![t] = l], UNCHANGED <<lock, blob>>,
             l \in Locking => pc[t] \in Locking
      PROVE  LockInv'
  BY ZenonT(60), <1>2 DEF LockInv, TypeOK, Key
<1>3. ASSUME NEW t \in Thread, NEW l, pc' = [pc EXCEPT ![t] = l], UNCHANGED blob, Lock(t)
      PROVE  LockInv'
  <2>1. /\ \A u \in Thread : pc'[u] = IF u = t THEN l ELSE pc[u]
        /\ \A k \in Handle \X Blob : lock'[k] = IF k = Key(t) THEN t ELSE lock[k]
        /\ lock[Key(t)] = Free
    BY ZenonT(60), <1>3 DEF Lock, TypeOK
  <2> QED
    BY ZenonT(60), <1>1, <1>3, <2>1 DEF LockInv, Key
<1>4. ASSUME NEW t \in Thread, NEW l, pc' = [pc EXCEPT ![t] = l], UNCHANGED blob, Unlock(t),
             pc[t] \in Locking, l \notin Locking
      PROVE  LockInv'
  <2>1. /\ \A u \in Thread : pc'[u] = IF u = t THEN l ELSE pc[u]
        /\ \A k \in Handle \X Blob : lock'[k] = IF k = Key(t) THEN Free ELSE lock[k]
        /\ lock[Key(t)] = t
    BY ZenonT(60), <1>4 DEF Unlock, TypeOK, LockInv
  <2> QED
    BY SMTT(60), <1>1, <1>4, <2>1 DEF LockInv, Key
<1>5. ASSUME NEW t \in Thread, NEW l, pc' = [pc EXCEPT ![t] = l], UNCHANGED blob, l \notin Locking,
             lock' = [k \in Handle \X Blob |-> IF lock[k] = t THEN Free ELSE lock[k]]
      PROVE  LockInv'
  <2>1. \A u \in Thread : pc'[u] = IF u = t THEN l ELSE pc[u]
    BY <1>5 DEF TypeOK
  <2> QED
    BY ZenonT(60), <1>1, <1>5, <2>1 DEF LockInv, Key
<1>6. ASSUME NEW t \in Thread, NEW b \in Blob, NEW d, NEW r, Call(t, b, d, r),
             NEW l, pc' = [pc EXCEPT ![t] = l],
             \/ l \notin Locking /\ UNCHANGED lock
             \/ lock[<<HandleOf[t], b>>] = Free /\ lock' = [lock EXCEPT ![<<HandleOf[t], b>>] = t]
      PROVE  LockInv'
  <2>1. /\ \A u \in Thread : pc'[u] = IF u = t THEN l ELSE pc[u]
        /\ \A u \in Thread : blob'[u] = IF u = t THEN b ELSE blob[u]
        /\ Key(t)' = <<HandleOf[t], b>> /\ <<HandleOf[t], b>> \in Handle \X Blob
    BY ZenonT(60), <1>6 DEF Call, TypeOK, Key, Wellformed
  <2>2. \A u \in Thread \ {t} : Key(u)' = Key(u)
    BY ZenonT(60), <2>1 DEF Key
  <2>3. CASE UNCHANGED lock /\ l \notin Locking
    BY ZenonT(60), <2>1, <2>2, <2>3 DEF LockInv
  <2>4. CASE lock[<<HandleOf[t], b>>] = Free /\ lock' = [lock EXCEPT ![<<HandleOf[t], b>>] = t]
    <3>1. \A k \in Handle \X Blob : lock'[k] = IF k = <<HandleOf[t], b>> THEN t ELSE lock[k]
      BY <2>4 DEF TypeOK
    <3> QED
      BY SMTT(60), <1>1, <2>1, <2>2, <2>4, <3>1 DEF LockInv
  <2> QED
    BY ZenonT(60), <1>6, <2>3, <2>4
<1>7. ASSUME NEW t \in Thread, Complete(t) PROVE LockInv'
  <2>1. /\ \A u \in Thread : pc'[u] \in Locking => pc[u] \in Locking
        /\ UNCHANGED <<lock, blob>>
    BY ZenonT(60), <1>7 DEF Complete, TypeOK, Locking
  <2> QED
    BY ZenonT(60), <2>1 DEF LockInv, Key
<1>8. CASE Restart
  BY ZenonT(60), <1>8 DEF Restart, LockInv, Locking
<1>9. ASSUME UNCHANGED <<lock, pc, blob>> PROVE LockInv'
  BY <1>9 DEF LockInv, Key
<1> USE DEF Locking
<1>10. ASSUME NEW t \in Thread, Check(t) PROVE LockInv'
  BY Zenon, <1>2, <1>10 DEF Check, Return
<1>11. ASSUME NEW t \in Thread, Join(t) PROVE LockInv'
  BY Zenon, <1>2, <1>11 DEF Join
<1>12. ASSUME NEW t \in Thread, Lead(t) PROVE LockInv'
  BY Zenon, <1>2, <1>12 DEF Lead, Return
<1>13. ASSUME NEW t \in Thread, Lookup(t) PROVE LockInv'
  BY Zenon, <1>2, <1>13 DEF Lookup
<1>14. ASSUME NEW t \in Thread, Stream(t) PROVE LockInv'
  BY Zenon, <1>2, <1>14 DEF Stream
<1>15. ASSUME NEW t \in Thread, Remove(t) PROVE LockInv'
  BY Zenon, <1>2, <1>15 DEF Remove
<1>16. ASSUME NEW t \in Thread, Sweep(t) PROVE LockInv'
  BY Zenon, <1>2, <1>16 DEF Sweep
<1>17. ASSUME NEW t \in Thread, DiscardLock(t) PROVE LockInv'
  BY Zenon, <1>3, <1>17 DEF DiscardLock
<1>18. ASSUME NEW t \in Thread, PublishLock(t) PROVE LockInv'
  BY Zenon, <1>3, <1>18 DEF PublishLock
<1>19. ASSUME NEW t \in Thread, Inspect(t) PROVE LockInv'
  BY Zenon, <1>2, <1>4, <1>19 DEF Inspect, AfterDiscard
<1>20. ASSUME NEW t \in Thread, Move(t) PROVE LockInv'
  BY Zenon, <1>2, <1>4, <1>20 DEF Move, AfterDiscard
<1>21. ASSUME NEW t \in Thread, Link(t) PROVE LockInv'
  BY ZenonT(60), <1>2, <1>4, <1>21 DEF Link, Return
<1>22. ASSUME NEW t \in Thread, Recheck(t) PROVE LockInv'
  <2>1. AfterDiscard(t) \notin Locking /\ pc[t] \in Locking
    BY <1>22 DEF Recheck, AfterDiscard
  <2> HIDE DEF Locking
  <2> QED
    BY ZenonT(60), <1>4, <1>22, <2>1 DEF Recheck
<1>23. ASSUME NEW t \in Thread, Verify(t) PROVE LockInv'
  BY Zenon, <1>4, <1>23 DEF Verify, Return
<1>24. ASSUME NEW t \in Thread, Quarantine(t) PROVE LockInv'
  BY Zenon, <1>4, <1>24 DEF Quarantine
<1>25. ASSUME NEW t \in Thread, Panic(t) PROVE LockInv'
  BY Zenon, <1>5, <1>25 DEF Panic
<1>26. ASSUME NEW t \in Thread, Fail(t) PROVE LockInv'
  <2>1. PICK l : pc' = [pc EXCEPT ![t] = l] /\ l \in {"complete", "idle"}
    BY Zenon, <1>26 DEF Fail, Return
  <2> QED
    BY Zenon, <1>5, <1>26, <2>1 DEF Fail
<1>27. ASSUME NEW t \in Thread, NEW b \in Blob, Hydrate(t, b) PROVE LockInv'
  BY Zenon, <1>6, <1>27 DEF Hydrate
<1>28. ASSUME NEW t \in Thread, NEW b \in Blob, PublishBlob(t, b) PROVE LockInv'
  BY Zenon, <1>6, <1>28 DEF PublishBlob
<1>29. ASSUME NEW t \in Thread, NEW b \in Blob, ReconcileLeaf(t, b) PROVE LockInv'
  BY ZenonT(60), <1>6, <1>29 DEF ReconcileLeaf
<1>30. ASSUME NEW t \in Thread, NEW b \in Blob, OpenVerifiedBlob(t, b) PROVE LockInv'
  <2>1. pc' = [pc EXCEPT ![t] = "idle"] /\ UNCHANGED lock
    BY <1>30 DEF OpenVerifiedBlob, Call, TypeOK
  <2>2. PICK r : Call(t, b, FALSE, r)
    BY Zenon, <1>30 DEF OpenVerifiedBlob
  <2> QED
    BY ZenonT(60), <1>6, <2>1, <2>2
<1> QED
  BY ZenonT(60), <1>7, <1>8, <1>9, <1>10, <1>11, <1>12, <1>13, <1>14, <1>15, <1>16, <1>17,
       <1>18, <1>19, <1>20, <1>21, <1>22, <1>23, <1>24, <1>25, <1>26, <1>27, <1>28, <1>29, <1>30 DEF Next, Step, Evict, Corrupt, vars

\* Steps that touch no entry.
LEMMA EntriesUntouched ==
  ASSUME HeldInv, InvalidInv, ValidSurvives,
         UNCHANGED <<leaf, quarantine, held, published>>,
         \A u \in Thread : held[u] # "missing" => pc'[u] = pc[u] /\ blob'[u] = blob[u]
  PROVE  HeldInv' /\ InvalidInv' /\ ValidSurvives'
<1>1. HeldInv'
  BY DEF HeldInv
<1>2. InvalidInv'
  BY DEF InvalidInv
<1>3. ValidSurvives'
  BY DEF ValidSurvives
<1> QED
  BY <1>1, <1>2, <1>3

\* Where a published entry is, through every step.
LEMMA EntriesStep ==
  ASSUME TypeOK, HeldInv, InvalidInv, ValidSurvives,
         [Next]_vars
  PROVE  HeldInv' /\ InvalidInv' /\ ValidSurvives'
<1> DEFINE Entries == HeldInv /\ InvalidInv /\ ValidSurvives
<1> USE DEF files, sync, local, history, Goto
<1>1. ASSUME NEW t \in Thread
      PROVE  /\ blob[t] \in Blob /\ held[t] \in {"missing", "valid", "invalid"}
             /\ Status(t) = leaf[blob[t]] /\ leaf[blob[t]] \in {"missing", "valid", "invalid"}
             /\ held[t] # "missing" => pc[t] = "recheck"
  BY ZenonT(60) DEF TypeOK, Status, Leaf, EntryStatus, HeldInv
<1>2. ASSUME NEW t \in Thread, pc[t] # "recheck", NEW l, pc' = [pc EXCEPT ![t] = l],
             \A u \in Thread \ {t} : blob'[u] = blob[u],
             UNCHANGED <<leaf, quarantine, held, published>>
      PROVE  Entries'
  <2>1. \A u \in Thread : held[u] # "missing" => pc'[u] = pc[u] /\ blob'[u] = blob[u]
    BY ZenonT(60), <1>1, <1>2 DEF TypeOK
  <2> QED
    BY ZenonT(60), <1>2, <2>1, EntriesUntouched
<1>3. ASSUME NEW t \in Thread, NEW b, NEW d, NEW r, Call(t, b, d, r)
      PROVE  pc[t] = "idle" /\ \A u \in Thread \ {t} : blob'[u] = blob[u]
  BY <1>3 DEF Call, TypeOK
<1>4. ASSUME NEW t \in Thread, Complete(t) PROVE Entries'
  <2>1. \A u \in Thread : held[u] # "missing" => pc'[u] = pc[u] /\ blob'[u] = blob[u]
    BY <1>1, <1>4 DEF TypeOK, Complete
  <2> QED
    BY ZenonT(60), <1>4, <2>1, EntriesUntouched DEF Complete
<1>5. ASSUME NEW t \in Thread, Move(t) PROVE Entries'
  <2>1. /\ \A u \in Thread : held'[u] = IF u = t THEN leaf[blob[t]] ELSE held[u]
        /\ \A b \in Blob : leaf'[b] = IF b = blob[t] THEN "missing" ELSE leaf[b]
        /\ \A u \in Thread \ {t} : pc'[u] = pc[u]
        /\ leaf[blob[t]] # "missing" => pc'[t] = "recheck"
        /\ UNCHANGED <<quarantine, blob, published>> /\ held[t] = "missing"
    BY ZenonT(60), <1>1, <1>5 DEF Move, MoveAway, TypeOK
  <2>2. HeldInv'
    BY ZenonT(60), <2>1 DEF HeldInv
  <2>3. InvalidInv'
    BY ZenonT(60), <2>1 DEF InvalidInv, TypeOK
  <2>4. ValidSurvives'
    <3> SUFFICES ASSUME NEW b \in published
                 PROVE  leaf'[b] = "valid" \/ b \in quarantine \/ \E u \in Thread : blob[u] = b /\ held'[u] = "valid"
      BY SMTT(60), <2>1 DEF ValidSurvives
    <3>1. b \in Blob /\ (leaf[b] = "valid" \/ b \in quarantine \/ \E u \in Thread : blob[u] = b /\ held[u] = "valid")
      BY ZenonT(60) DEF ValidSurvives, TypeOK
    <3> QED
      BY ZenonT(60), <2>1, <3>1
  <2> QED
    BY ZenonT(60), <2>2, <2>3, <2>4
<1>6. ASSUME NEW t \in Thread, Recheck(t) PROVE Entries'
  <2>1. /\ \A u \in Thread : held'[u] = IF u = t THEN "missing" ELSE held[u]
        /\ \A b \in Blob : leaf'[b] = IF b = blob[t] /\ held[t] = "valid" /\ leaf[b] = "missing" THEN "valid" ELSE leaf[b]
        /\ \A u \in Thread \ {t} : pc'[u] = pc[u]
        /\ UNCHANGED <<quarantine, blob, published>>
    BY ZenonT(60), <1>1, <1>6 DEF Recheck, Restored, TypeOK
  <2>2. HeldInv'
    BY ZenonT(60), <2>1 DEF HeldInv
  <2>3. InvalidInv'
    BY ZenonT(60), <2>1 DEF InvalidInv, TypeOK
  <2>4. ValidSurvives'
    <3> SUFFICES ASSUME NEW b \in published
                 PROVE  leaf'[b] = "valid" \/ b \in quarantine \/ \E u \in Thread : blob[u] = b /\ held'[u] = "valid"
      BY ZenonT(60), <2>1 DEF ValidSurvives
    <3>1. b \in Blob /\ (leaf[b] = "valid" \/ b \in quarantine \/ \E u \in Thread : blob[u] = b /\ held[u] = "valid")
      BY DEF ValidSurvives, TypeOK
    <3>2. leaf[b] \in {"missing", "valid"}
      BY <3>1 DEF InvalidInv, TypeOK, EntryStatus
    <3> QED
      BY ZenonT(60), <2>1, <3>1, <3>2
  <2> QED
    BY <2>2, <2>3, <2>4
<1>7. ASSUME NEW t \in Thread, Link(t) PROVE Entries'
  <2>1. /\ \A u \in Thread : held[u] # "missing" => pc'[u] = pc[u]
        /\ UNCHANGED <<quarantine, blob, held>> /\ held[t] = "missing"
    BY SMTT(60), <1>1, <1>7 DEF Link, Return, TypeOK
  <2>2. CASE temp[t]
    <3>1. /\ \A b \in Blob : leaf'[b] = IF b = blob[t] /\ leaf[b] = "missing" THEN "valid" ELSE leaf[b]
          /\ published' = IF leaf[blob[t]] = "missing" THEN published \cup {blob[t]} ELSE published
      BY <1>1, <1>7, <2>2 DEF Link, TypeOK
    <3>2. HeldInv'
      BY ZenonT(60), <2>1 DEF HeldInv
    <3>3. InvalidInv'
      BY SMTT(60), <1>1, <3>1 DEF InvalidInv, TypeOK
    <3>4. ValidSurvives'
      BY <1>1, <2>1, <3>1 DEF ValidSurvives, TypeOK
    <3> QED
      BY <3>2, <3>3, <3>4
  <2>3. CASE ~temp[t]
    BY Zenon, <1>7, <2>1, <2>3, EntriesUntouched DEF Link
  <2> QED
    BY ZenonT(60), <2>2, <2>3
<1>8. ASSUME NEW t \in Thread, Fail(t) PROVE Entries'
  <2>1. /\ \A u \in Thread : held'[u] = IF u = t THEN "missing" ELSE held[u]
        /\ quarantine' = IF held[t] = "valid" THEN quarantine \cup {blob[t]} ELSE quarantine
        /\ \A u \in Thread \ {t} : pc'[u] = pc[u]
        /\ UNCHANGED <<leaf, blob, published>>
    BY ZenonT(60), <1>8 DEF Fail, Return, TypeOK
  <2>2. HeldInv' /\ InvalidInv'
    BY ZenonT(60), <2>1 DEF HeldInv, InvalidInv
  <2>3. ValidSurvives'
    BY SMTT(60), <2>1 DEF ValidSurvives
  <2> QED
    BY ZenonT(60), <2>2, <2>3
<1>9. ASSUME NEW t \in Thread, Quarantine(t) PROVE Entries'
  <2>1. /\ \A b \in Blob : leaf'[b] = IF b = blob[t] THEN "missing" ELSE leaf[b]
        /\ quarantine' = IF leaf[blob[t]] = "valid" THEN quarantine \cup {blob[t]} ELSE quarantine
        /\ \A u \in Thread : held[u] # "missing" => pc'[u] = pc[u]
        /\ UNCHANGED <<blob, held, published>>
    BY ZenonT(60), <1>1, <1>9 DEF Quarantine, TypeOK
  <2>2. HeldInv' /\ InvalidInv'
    BY ZenonT(60), <2>1 DEF HeldInv, InvalidInv, TypeOK
  <2>3. ValidSurvives'
    BY SMTT(60), <2>1 DEF ValidSurvives, TypeOK
  <2> QED
    BY <2>2, <2>3
<1>10. ASSUME NEW b \in Blob, Corrupt(b) \/ \E h \in Handle : Evict(h, b)
       PROVE  Entries'
  <2>1. /\ \A c \in Blob \ {b} : leaf'[c] = leaf[c]
        /\ published' = published \ {b} /\ UNCHANGED <<quarantine, pc, blob, held>>
    BY ZenonT(60), <1>10 DEF Evict, Corrupt, TypeOK
  <2>2. HeldInv' /\ InvalidInv'
    BY ZenonT(60), <2>1 DEF HeldInv, InvalidInv, TypeOK
  <2>3. ValidSurvives'
    BY <2>1 DEF ValidSurvives, TypeOK
  <2> QED
    BY <2>2, <2>3
<1>11. CASE Restart
  <2>1. /\ quarantine' = quarantine \cup {blob[t] : t \in {u \in Thread : held[u] = "valid"}}
        /\ \A u \in Thread : held'[u] = "missing"
        /\ UNCHANGED <<leaf, published>>
    BY ZenonT(60), <1>11 DEF Restart
  <2>2. HeldInv' /\ InvalidInv'
    BY <2>1 DEF HeldInv, InvalidInv
  <2>3. ValidSurvives'
    BY <2>1 DEF ValidSurvives
  <2> QED
    BY ZenonT(60), <2>2, <2>3
<1>12. CASE UNCHANGED vars
  BY Zenon, <1>12, EntriesUntouched DEF vars
<1>13. ASSUME NEW t \in Thread, Check(t) PROVE Entries'
  BY Zenon, <1>2, <1>13 DEF Check, Return
<1>14. ASSUME NEW t \in Thread, Join(t) PROVE Entries'
  BY Zenon, <1>2, <1>14 DEF Join
<1>15. ASSUME NEW t \in Thread, Remove(t) PROVE Entries'
  BY Zenon, <1>2, <1>15 DEF Remove
<1>16. ASSUME NEW t \in Thread, Lead(t) PROVE Entries'
  BY Zenon, <1>2, <1>16 DEF Lead, Return
<1>17. ASSUME NEW t \in Thread, DiscardLock(t) PROVE Entries'
  BY Zenon, <1>2, <1>17 DEF DiscardLock
<1>18. ASSUME NEW t \in Thread, Inspect(t) PROVE Entries'
  BY Zenon, <1>2, <1>18 DEF Inspect
<1>19. ASSUME NEW t \in Thread, Lookup(t) PROVE Entries'
  BY Zenon, <1>2, <1>19 DEF Lookup
<1>20. ASSUME NEW t \in Thread, PublishLock(t) PROVE Entries'
  BY Zenon, <1>2, <1>20 DEF PublishLock
<1>21. ASSUME NEW t \in Thread, Stream(t) PROVE Entries'
  BY Zenon, <1>2, <1>21 DEF Stream
<1>22. ASSUME NEW t \in Thread, Verify(t) PROVE Entries'
  BY Zenon, <1>2, <1>22 DEF Verify, Return
<1>23. ASSUME NEW t \in Thread, Sweep(t) PROVE Entries'
  BY Zenon, <1>2, <1>23 DEF Sweep
<1>24. ASSUME NEW t \in Thread, Panic(t) PROVE Entries'
  BY Zenon, <1>2, <1>24 DEF Panic
<1>25. ASSUME NEW t \in Thread, NEW b \in Blob, Hydrate(t, b) PROVE Entries'
  BY Zenon, <1>2, <1>3, <1>25 DEF Hydrate
<1>26. ASSUME NEW t \in Thread, NEW b \in Blob, PublishBlob(t, b) PROVE Entries'
  BY Zenon, <1>2, <1>3, <1>26 DEF PublishBlob
<1>27. ASSUME NEW t \in Thread, NEW b \in Blob, ReconcileLeaf(t, b) PROVE Entries'
  BY Zenon, <1>2, <1>3, <1>27 DEF ReconcileLeaf
<1>28. ASSUME NEW t \in Thread, NEW b \in Blob, OpenVerifiedBlob(t, b) PROVE Entries'
  <2>1. \A u \in Thread : held[u] # "missing" => pc'[u] = pc[u] /\ blob'[u] = blob[u]
    BY ZenonT(60), <1>1, <1>3, <1>28 DEF OpenVerifiedBlob
  <2> QED
    BY ZenonT(60), <1>28, <2>1, EntriesUntouched DEF OpenVerifiedBlob
<1> QED
  BY ZenonT(60), <1>4, <1>5, <1>6, <1>7, <1>8, <1>9, <1>10, <1>11, <1>12, <1>13, <1>14, <1>15,
       <1>16, <1>17, <1>18, <1>19, <1>20, <1>21, <1>22, <1>23, <1>24, <1>25, <1>26, <1>27, <1>28 DEF Next, Step

\* What another thread does to an undisturbed one.
LEMMA OthersKept ==
  ASSUME NEW u \in Thread, Undisturbed(u),
         pc'[u] = pc[u] \/ pc'[u] = "check",
         result'[u] = result[u], temp'[u] = temp[u], blob'[u] = blob[u], direct'[u] = direct[u],
         leaf'[blob[u]] = leaf[blob[u]] \/ leaf'[blob[u]] = "valid"
  PROVE  Undisturbed(u)'
BY ZenonT(60) DEF Undisturbed, Leaf

\* While nothing has interfered, every thread finds what it needs.
LEMMA UndisturbedStep ==
  ASSUME Wellformed, TypeOK, LockInv, DirectInv,
         ~disturbed => \A t \in Thread : Undisturbed(t),
         [Next]_vars
  PROVE  ~disturbed' => \A t \in Thread : Undisturbed(t)'
<1> SUFFICES ASSUME ~disturbed' PROVE \A t \in Thread : Undisturbed(t)'
  BY ZenonT(60)
<1> DEFINE Goal == \A t \in Thread : Undisturbed(t)'
<1> USE DEF files, sync, local, history, Goto
<1>1. ASSUME NEW t \in Thread
      PROVE  /\ blob[t] \in Blob /\ Status(t) = leaf[blob[t]] /\ Leaf(t) = leaf[blob[t]]
             /\ leaf[blob[t]] \in {"missing", "valid", "invalid"}
  BY DEF TypeOK, Status, Leaf, EntryStatus
<1>2. ASSUME ~disturbed, NEW t \in Thread, Undisturbed(t)',
             \A u \in Thread \ {t} :
               /\ pc'[u] = pc[u] \/ pc'[u] = "check"
               /\ result'[u] = result[u] /\ temp'[u] = temp[u] /\ blob'[u] = blob[u] /\ direct'[u] = direct[u]
               /\ leaf'[blob[u]] = leaf[blob[u]] \/ leaf'[blob[u]] = "valid"
      PROVE  Goal
  BY ZenonT(60), <1>2, OthersKept
<1>3. ASSUME NEW t \in Thread, ~disturbed, NEW l, pc' = [pc EXCEPT ![t] = l],
             l \notin {"link", "verify", "recheck", "lookup", "publish_lock", "stream"},
             result'[t] # "error",
             \A u \in Thread \ {t} : result'[u] = result[u] /\ temp'[u] = temp[u] /\ blob'[u] = blob[u] /\ direct'[u] = direct[u],
             UNCHANGED leaf
      PROVE  Goal
  <2>1. pc'[t] = l /\ \A u \in Thread \ {t} : pc'[u] = pc[u]
    BY ZenonT(60), <1>3 DEF TypeOK
  <2>2. Undisturbed(t)'
    BY ZenonT(60), <1>3, <2>1 DEF Undisturbed
  <2> QED
    BY Zenon, <1>2, <1>3, <2>1, <2>2
<1>4. ASSUME NEW t \in Thread, ~disturbed, NEW l, pc' = [pc EXCEPT ![t] = l],
             l # "link", l = "verify" => leaf[blob[t]] # "missing",
             l \in {"recheck", "lookup", "publish_lock", "stream", "verify"} => leaf[blob[t]] # "invalid" \/ direct'[t],
             UNCHANGED <<result, temp, blob, direct, leaf>>
      PROVE  Goal
  <2>1. pc'[t] = l /\ \A u \in Thread \ {t} : pc'[u] = pc[u]
    BY ZenonT(60), <1>4 DEF TypeOK
  <2>2. Undisturbed(t)'
    BY <1>1, <1>4, <2>1 DEF Undisturbed, Leaf
  <2> QED
    BY ZenonT(60), <1>2, <1>4, <2>1, <2>2
\* The entry is moved away by t: a thread about to verify it is on another handle.
<1>5. ASSUME NEW t \in Thread, pc[t] \in Locking, NEW u \in Thread \ {t},
             pc[u] = "verify", blob[u] = blob[t]
      PROVE  Interferes(t)
  <2>1. lock[<<HandleOf[t], blob[t]>>] = t /\ lock[<<HandleOf[u], blob[t]>>] = u
    BY ZenonT(60), <1>5 DEF LockInv, Locking, Key
  <2>2. HandleOf[u] \in Handle \ {HandleOf[t]} /\ u # Free
    BY ZenonT(60), <2>1 DEF Wellformed
  <2> QED
    BY ZenonT(60), <2>1, <2>2 DEF Interferes
<1>6. ASSUME NEW t \in Thread, ~disturbed, ~Interferes(t), pc[t] \in Locking,
             pc'[t] # "link", pc'[t] # "verify", result'[t] # "error",
             leaf' = [leaf EXCEPT ![blob[t]] = "missing"],
             \A u \in Thread \ {t} : pc'[u] = pc[u],
             UNCHANGED <<result, temp, blob, direct>>
      PROVE  Goal
  <2>1. \A b \in Blob : leaf'[b] = IF b = blob[t] THEN "missing" ELSE leaf[b]
    BY ZenonT(60), <1>6 DEF TypeOK
  <2>2. ASSUME NEW u \in Thread PROVE Undisturbed(u)'
    <3>1. Undisturbed(u) /\ (u # t => pc'[u] = pc[u])
      BY ZenonT(60), <1>6
    <3>2. u # t /\ pc[u] = "verify" => blob[u] # blob[t]
      BY ZenonT(60), <1>5, <1>6
    <3>3. Leaf(u)' = IF blob[u] = blob[t] THEN "missing" ELSE Leaf(u)
      BY ZenonT(60), <1>1, <1>6, <2>1 DEF Leaf
    <3> QED
      BY <1>6, <3>1, <3>2, <3>3 DEF Undisturbed
  <2> QED
    BY ZenonT(60), <2>2
<1>7. ASSUME NEW t \in Thread, NEW r, r # "error", Return(t, r)
      PROVE  /\ \E l \in {"complete", "idle"} : pc' = [pc EXCEPT ![t] = l]
             /\ result'[t] # "error" /\ \A u \in Thread \ {t} : result'[u] = result[u]
  BY Zenon, <1>7 DEF Return, TypeOK
<1>8. ASSUME NEW t \in Thread, NEW b, NEW d, NEW r, r # "error", Call(t, b, d, r)
      PROVE  /\ result'[t] # "error"
             /\ \A u \in Thread \ {t} : result'[u] = result[u] /\ blob'[u] = blob[u] /\ direct'[u] = direct[u]
  BY <1>8 DEF Call, TypeOK
<1>9. ASSUME NEW t \in Thread, Check(t) PROVE Goal
  <2>1. CASE Return(t, "ok")
    BY ZenonT(60), <1>3, <1>7, <1>9, <2>1 DEF Check
  <2>2. CASE pc' = [pc EXCEPT ![t] = "join"] /\ UNCHANGED result
    BY ZenonT(60), <1>4, <1>9, <2>2 DEF Check
  <2> QED
    BY Zenon, <1>9, <2>1, <2>2 DEF Check
<1>10. ASSUME NEW t \in Thread, Join(t) PROVE Goal
  <2>1. PICK l : pc' = [pc EXCEPT ![t] = l] /\ l \in {"lead", "check", "wait"}
    BY Zenon, <1>10 DEF Join
  <2> QED
    BY ZenonT(60), <1>4, <1>10, <2>1 DEF Join
<1>11. ASSUME NEW t \in Thread, Complete(t) PROVE Goal
  <2>1. /\ pc'[t] = "remove" /\ \A u \in Thread \ {t} : pc'[u] = pc[u] \/ pc'[u] = "check"
        /\ UNCHANGED <<result, temp, blob, direct, leaf, disturbed>>
    BY ZenonT(60), <1>11 DEF Complete
  <2>2. Undisturbed(t)'
    BY <2>1 DEF Undisturbed
  <2> QED
    BY ZenonT(60), <1>2, <2>1, <2>2
<1>12. ASSUME NEW t \in Thread, Remove(t) PROVE Goal
  BY ZenonT(60), <1>4, <1>12 DEF Remove
<1>13. ASSUME NEW t \in Thread, Lead(t) PROVE Goal
  <2>1. CASE Return(t, "ok")
    BY ZenonT(60), <1>3, <1>7, <1>13, <2>1 DEF Lead
  <2>2. CASE pc' = [pc EXCEPT ![t] = "lookup"] /\ leaf[blob[t]] = "missing" /\ UNCHANGED result
    BY ZenonT(60), <1>4, <1>13, <2>2 DEF Lead
  <2>3. CASE pc' = [pc EXCEPT ![t] = "discard_lock"] /\ UNCHANGED result
    BY ZenonT(60), <1>4, <1>13, <2>3 DEF Lead
  <2> QED
    BY Zenon, <1>1, <1>13, <2>1, <2>2, <2>3 DEF Lead
<1>14. ASSUME NEW t \in Thread, DiscardLock(t) PROVE Goal
  BY ZenonT(60), <1>4, <1>14 DEF DiscardLock
<1>15. ASSUME NEW t \in Thread, Inspect(t) PROVE Goal
  <2>1. PICK l : pc' = [pc EXCEPT ![t] = l] /\ (l = "move" \/ (l \in {"publish_lock", "lookup"} /\ leaf[blob[t]] # "invalid"))
    BY Zenon, <1>1, <1>15 DEF Inspect, AfterDiscard
  <2> QED
    BY ZenonT(60), <1>4, <1>15, <2>1 DEF Inspect
<1>16. ASSUME NEW t \in Thread, Move(t) PROVE Goal
  <2>1. /\ pc'[t] # "link" /\ pc'[t] # "verify" /\ pc[t] \in Locking
        /\ \A u \in Thread \ {t} : pc'[u] = pc[u]
    BY <1>16 DEF Move, AfterDiscard, Locking, TypeOK
  <2>2. ~disturbed /\ ~Interferes(t) /\ leaf' = [leaf EXCEPT ![blob[t]] = "missing"]
    BY ZenonT(60), <1>16 DEF Move, MoveAway
  <2>3. UNCHANGED <<result, temp, blob, direct>> /\ result'[t] # "error"
    BY ZenonT(60), <1>16, <2>2 DEF Move, Undisturbed
  <2> QED
    BY ZenonT(60), <1>6, <2>1, <2>2, <2>3
<1>17. ASSUME NEW t \in Thread, Quarantine(t) PROVE Goal
  <2>1. /\ pc'[t] # "link" /\ pc'[t] # "verify" /\ pc[t] \in Locking
        /\ \A u \in Thread \ {t} : pc'[u] = pc[u]
    BY <1>17 DEF Quarantine, Locking, TypeOK
  <2>2. ~disturbed /\ ~Interferes(t) /\ leaf' = [leaf EXCEPT ![blob[t]] = "missing"]
    BY Zenon, <1>17 DEF Quarantine
  <2>3. UNCHANGED <<result, temp, blob, direct>> /\ result'[t] # "error"
    BY Zenon, <1>17, <2>2 DEF Quarantine, Undisturbed
  <2> QED
    BY Zenon, <1>6, <2>1, <2>2, <2>3
<1>18. ASSUME NEW t \in Thread, Recheck(t) PROVE Goal
  <2>1. /\ ~disturbed /\ pc[t] = "recheck" /\ UNCHANGED <<result, temp, blob, direct>>
        /\ pc'[t] \in {"publish_lock", "lookup"} /\ \A u \in Thread \ {t} : pc'[u] = pc[u]
    BY ZenonT(60), <1>18 DEF Recheck, AfterDiscard, TypeOK
  <2>2. \A b \in Blob : leaf'[b] = leaf[b] \/ (leaf'[b] = "valid" /\ leaf[b] = "missing")
    BY ZenonT(60), <1>1, <1>18 DEF Recheck, Restored, TypeOK
  <2>3. Undisturbed(t) /\ Leaf(t)' # "invalid"
    <3>1. Undisturbed(t) /\ ~direct[t]
      BY ZenonT(60), <2>1 DEF DirectInv, TypeOK
    <3> QED
      BY ZenonT(60), <1>1, <2>1, <2>2, <3>1 DEF Undisturbed, Leaf
  <2>4. Undisturbed(t)'
    BY <2>1, <2>3 DEF Undisturbed
  <2> QED
    BY ZenonT(60), <1>1, <1>2, <2>1, <2>2, <2>4
<1>19. ASSUME NEW t \in Thread, Lookup(t) PROVE Goal
  <2>1. ~disturbed /\ ~direct[t] /\ Undisturbed(t) /\ pc[t] = "lookup"
    BY SMTT(60), <1>19 DEF Lookup, DirectInv, TypeOK
  <2>2. leaf[blob[t]] # "invalid"
    BY Zenon, <1>1, <2>1 DEF Undisturbed
  <2> QED
    BY ZenonT(60), <1>4, <1>19, <2>1, <2>2 DEF Lookup
<1>20. ASSUME NEW t \in Thread, PublishLock(t) PROVE Goal
  <2>1. ~disturbed /\ ~direct[t] /\ Undisturbed(t) /\ pc[t] = "publish_lock"
    BY <1>20 DEF PublishLock, DirectInv, TypeOK
  <2>2. leaf[blob[t]] # "invalid"
    BY Zenon, <1>1, <2>1 DEF Undisturbed
  <2>3. PICK l : pc' = [pc EXCEPT ![t] = l] /\ (l = "stream" \/ (l = "verify" /\ leaf[blob[t]] # "missing"))
    BY Zenon, <1>1, <1>20 DEF PublishLock
  <2> QED
    BY ZenonT(60), <1>4, <1>20, <2>1, <2>2, <2>3 DEF PublishLock
<1>21. ASSUME NEW t \in Thread, Stream(t) PROVE Goal
  <2>1. /\ ~disturbed /\ pc[t] = "stream" /\ UNCHANGED <<result, blob, direct, leaf>>
        /\ pc'[t] = "link" /\ temp'[t] /\ \A u \in Thread \ {t} : pc'[u] = pc[u] /\ temp'[u] = temp[u]
    BY ZenonT(60), <1>21 DEF Stream, TypeOK
  <2>2. Undisturbed(t)'
    BY ZenonT(60), <2>1 DEF Undisturbed, Leaf
  <2> QED
    BY ZenonT(60), <1>2, <2>1, <2>2
<1>22. ASSUME NEW t \in Thread, Link(t) PROVE Goal
  <2>1. ~disturbed /\ pc[t] = "link" /\ temp[t] /\ UNCHANGED <<result, blob, direct>>
    BY ZenonT(60), <1>22 DEF Link, Undisturbed
  <2>2. pc'[t] = "verify" /\ \A u \in Thread \ {t} : pc'[u] = pc[u] /\ temp'[u] = temp[u]
    BY ZenonT(60), <1>22, <2>1 DEF Link, TypeOK
  <2>3. \A b \in Blob : leaf'[b] = IF b = blob[t] /\ leaf[b] = "missing" THEN "valid" ELSE leaf[b]
    BY ZenonT(60), <1>1, <1>22, <2>1 DEF Link, TypeOK
  <2>4. Undisturbed(t)'
    BY ZenonT(60), <1>1, <2>1, <2>2, <2>3 DEF Undisturbed, Leaf
  <2>5. \A u \in Thread : leaf'[blob[u]] = leaf[blob[u]] \/ leaf'[blob[u]] = "valid"
    BY <1>1, <2>3
  <2> QED
    BY ZenonT(60), <1>2, <2>1, <2>2, <2>4, <2>5
<1>23. ASSUME NEW t \in Thread, Verify(t) PROVE Goal
  <2>1. ~disturbed /\ pc[t] = "verify" /\ Undisturbed(t) /\ UNCHANGED <<temp, blob, direct, leaf>>
    BY Zenon, <1>23 DEF Verify
  <2>2. CASE pc' = [pc EXCEPT ![t] = "discard_lock"] /\ UNCHANGED result
    BY ZenonT(60), <1>4, <2>1, <2>2
  <2>3. ASSUME NEW r \in {"ok", "rejected"}, Return(t, r) PROVE Goal
    BY ZenonT(60), <1>3, <1>7, <2>1, <2>3
  <2>4. leaf[blob[t]] # "missing" /\ (leaf[blob[t]] = "invalid" => direct[t])
    BY ZenonT(60), <1>1, <2>1 DEF Undisturbed
  <2>5. leaf[blob[t]] = "valid" \/ (direct[t] /\ leaf[blob[t]] = "invalid")
    BY <1>1, <2>4
  <2>6. CASE pc' # [pc EXCEPT ![t] = "discard_lock"] \/ result' # result
    <3>1. Return(t, CASE leaf[blob[t]] = "valid" -> "ok"
                                [] direct[t] /\ leaf[blob[t]] = "invalid" -> "rejected"
                                [] OTHER -> "error")
      BY Zenon, <1>1, <1>23, <2>6 DEF Verify
    <3>2. \E r \in {"ok", "rejected"} : Return(t, r)
      BY <2>5, <3>1
    <3> QED
      BY <2>3, <3>2
  <2> QED
    BY <2>2, <2>6
<1>24. ASSUME NEW t \in Thread, Sweep(t) PROVE Goal
  <2>1. ~disturbed /\ \A u \in Thread : ~(temp[u] /\ blob[u] = blob[t])
    BY ZenonT(60), <1>24 DEF Sweep
  <2>2. UNCHANGED temp
    <3>1. \A u \in Thread : temp'[u] = temp[u]
      BY <1>24, <2>1 DEF Sweep, TypeOK
    <3> QED
      BY ZenonT(60), <1>24, <3>1 DEF Sweep, TypeOK
  <2> QED
    BY ZenonT(60), <1>4, <1>24, <2>1, <2>2 DEF Sweep
<1>25. ASSUME NEW t \in Thread, Panic(t) \/ Fail(t) PROVE Goal
  BY Zenon, <1>25 DEF Panic, Fail
<1>26. ASSUME NEW t \in Thread, NEW b \in Blob, Hydrate(t, b) PROVE Goal
  <2>1. /\ ~disturbed /\ pc' = [pc EXCEPT ![t] = "check"] /\ UNCHANGED <<temp, leaf>>
        /\ Call(t, b, FALSE, "none")
    BY Zenon, <1>26 DEF Hydrate
  <2> QED
    BY ZenonT(60), <1>3, <1>8, <2>1
<1>27. ASSUME NEW t \in Thread, NEW b \in Blob, ReconcileLeaf(t, b) PROVE Goal
  <2>1. PICK l : /\ pc' = [pc EXCEPT ![t] = l] /\ l \in {"reconcile", "sweep"}
                 /\ ~disturbed /\ UNCHANGED <<temp, leaf>> /\ Call(t, b, FALSE, "none")
    BY Zenon, <1>27 DEF ReconcileLeaf
  <2> QED
    BY ZenonT(60), <1>3, <1>8, <2>1
<1>28. ASSUME NEW t \in Thread, NEW b \in Blob, OpenVerifiedBlob(t, b) PROVE Goal
  <2>1. PICK r : ~disturbed /\ UNCHANGED <<temp, leaf, pc>> /\ Call(t, b, FALSE, r) /\ r # "error"
    BY ZenonT(60), <1>28 DEF OpenVerifiedBlob
  <2>2. pc' = [pc EXCEPT ![t] = "idle"]
    BY <2>1 DEF Call, TypeOK
  <2> QED
    BY ZenonT(60), <1>3, <1>8, <2>1, <2>2
<1>29. ASSUME NEW t \in Thread, NEW b \in Blob, PublishBlob(t, b) PROVE Goal
  <2>1. /\ ~disturbed /\ UNCHANGED <<temp, leaf>> /\ Call(t, b, TRUE, "none")
        /\ pc' = [pc EXCEPT ![t] = IF leaf[b] = "missing" THEN "stream" ELSE "verify"]
    BY Zenon, <1>29 DEF PublishBlob
  <2>2. /\ direct'[t] /\ blob'[t] = b /\ pc'[t] # "link" /\ (pc'[t] = "verify" => leaf[b] # "missing")
        /\ \A u \in Thread \ {t} : pc'[u] = pc[u]
    BY <2>1 DEF Call, TypeOK
  <2>3. result'[t] # "error"
    BY ZenonT(60), <1>8, <2>1
  <2>4. Undisturbed(t)'
    BY ZenonT(60), <2>1, <2>2, <2>3 DEF Undisturbed, Leaf
  <2> QED
    BY ZenonT(60), <1>2, <1>8, <2>1, <2>2, <2>4
<1>30. ASSUME NEW b \in Blob, Corrupt(b) \/ \E h \in Handle : Evict(h, b) PROVE Goal
  BY ZenonT(60), <1>30 DEF Corrupt, Evict
<1>31. CASE Restart
  BY <1>31 DEF Restart, Undisturbed
<1>32. CASE UNCHANGED vars
  BY ZenonT(60), <1>32, OthersKept DEF vars
<1> QED
  BY ZenonT(60), <1>9, <1>10, <1>11, <1>12, <1>13, <1>14, <1>15, <1>16, <1>17, <1>18, <1>19,
       <1>20, <1>21, <1>22, <1>23, <1>24, <1>25, <1>26, <1>27, <1>28, <1>29, <1>30, <1>31, <1>32 DEF Next, Step

\* An empty state of the cache satisfies the invariant.
LEMMA InitIInv ==
  ASSUME Wellformed, Init
  PROVE  TypeOK /\ IInv
<1>1. TypeOK
  <2>1. calls \in [Thread -> 0 .. MaxCalls] /\ faults \in 0 .. MaxFaults
    BY SMTT(60) DEF Wellformed, Init
  <2> QED
    BY ZenonT(60), <2>1 DEF Init, TypeOK, EntryStatus
<1>2. FlightInv /\ DirectInv /\ SingleFlight /\ LockInv
  BY DEF Wellformed, Init, FlightInv, DirectInv,
         SingleFlight, LockInv, Leading, Locking
<1>3. HeldInv /\ InvalidInv /\ ValidSurvives
  BY DEF Init, HeldInv, InvalidInv, ValidSurvives
<1>4. \A t \in Thread : Undisturbed(t)
  BY DEF Init, Undisturbed
<1> QED
  BY ZenonT(60), <1>1, <1>2, <1>3, <1>4 DEF IInv

\* The invariant is inductive.
THEOREM Invariance ==
  Wellformed /\ Spec => [](TypeOK /\ IInv)
<1> SUFFICES ASSUME Wellformed
             PROVE  Spec => [](TypeOK /\ IInv)
  OBVIOUS
<1>1. Init => TypeOK /\ IInv
  BY Zenon, InitIInv
<1>2. TypeOK /\ IInv /\ [Next]_vars => TypeOK' /\ IInv'
  BY Zenon, TypeStep, FlightsStep, LocksStep, EntriesStep, UndisturbedStep
     DEF IInv
<1> QED
  BY <1>1, <1>2, PTL DEF Spec

\* The entries of the cache are sound with any number of handles, threads and blobs
\* and any number of faults: a handle's threads read a blob from the cold store one
\* at a time, only eviction deletes a valid entry, and a hydration or publication
\* that nothing interfered with does not fail.
THEOREM EntriesAreSound ==
  Spec => []EntriesSound
<1>1. TypeOK /\ IInv => EntriesSound
  BY Zenon DEF IInv, EntriesSound, UndisturbedSucceeds, Undisturbed
<1>2. Spec => [](TypeOK /\ IInv)
  BY Zenon, HydrationAssumption, Invariance
<1> QED
  BY <1>1, <1>2, PTL

-----------------------------------------------------------------------------
(* The privileged helper, whatever image sizes, devices, reboots and other *)
(* associations of the administrator.  Initialising excludes mounting and  *)
(* growing through the marker (Phases), which is why nothing is mounted    *)
(* that is formatted; a grown file only gains (Backed), which is why a     *)
(* stopped grow leaves a filesystem that fits.                             *)

\* What is used of the order of sizes.
LEMMA LoopOrder ==
  /\ \A a \in Nat : a <= a
  /\ \A a, b \in Nat : a > b => b <= a
  /\ \A a \in Nat : a + 1 \in Nat
OBVIOUS

\* The order of sizes is transitive.
LEMMA LoopThrough ==
  ASSUME NEW a \in Nat, NEW b \in Nat, NEW c \in Nat, a <= b, b <= c
  PROVE  a <= c
OBVIOUS

\* The parts of a file and of an association.
LEMMA LoopParts ==
  ASSUME Shapes
  PROVE  /\ \A p \in {Image, Foreign} : imageFile[p] # Unset =>
              imageFile[p] \in ImageFile /\ imageFile[p].size \in Nat /\ imageFile[p].fs \in Filesystem \cup {Unset}
         /\ \A d \in Device : loop[d] # Unset =>
              loop[d] \in Association /\ loop[d].path \in {Image, Foreign} /\ loop[d].capacity \in Nat
         /\ \A d \in Device : loop[d] # Unset => Backing(d) = loop[d].path
         /\ \A d \in Device : loop[d] = Unset => Backing(d) = Unset
<1>1. imageFile \in [{Image, Foreign} -> ImageFile \cup {Unset}] /\ loop \in [Device -> Association \cup {Unset}]
  BY Zenon DEF Shapes
<1>2. \A f \in ImageFile : f.size \in Nat /\ f.fs \in Filesystem \cup {Unset}
  BY Zenon DEF ImageFile
<1>3. \A a \in Association : a.path \in {Image, Foreign} /\ a.capacity \in Nat
  BY Zenon DEF Association
<1> QED BY Zenon, <1>1, <1>2, <1>3 DEF Backing

\* A step that leaves files, devices and marker alone.
LEMMA LoopQuiet ==
  ASSUME ImageIInv, UNCHANGED <<imageFile, loop, imageMarker, mounted, uuids, ghosts>>, size' \in Nat, Phases'
  PROVE  ImageIInv'
<1>1. UNCHANGED <<imageFile, loop, imageMarker, mounted, uuids, wiped, rebound, replaced>>
  BY Zenon DEF ghosts
<1>2. Shapes' /\ Backed'
  BY Zenon, <1>1 DEF ImageIInv, Shapes, Backed
<1>3. MountedSound'
  BY Zenon, <1>1 DEF ImageIInv, MountedSound, Backing
<1>4. NothingWiped' /\ MountedVerified'
  BY Zenon, <1>1 DEF ImageIInv, NothingWiped, MountedVerified
<1>5. MarkerTrue'
  BY Zenon, <1>1 DEF ImageIInv, MarkerTrue, ImageConfigured, FilesystemIdentity
<1> QED BY ZenonT(60), <1>2, <1>3, <1>4, <1>5 DEF ImageIInv

\* An operation ends.
LEMMA LoopEndStep ==
  ASSUME ImageIInv, UNCHANGED <<imageFile, loop, imageMarker, mounted, uuids, ghosts>>, EndHelper
  PROVE  ImageIInv'
<1>1. helperStep' = "idle" /\ size' \in Nat BY DEF EndHelper
<1>2. Phases'
  BY ZenonT(60), <1>1 DEF Phases, Initializing, Growing,
       Inspected
<1> QED BY ZenonT(60), <1>1, <1>2, LoopQuiet

\* The checks of the helper.
LEMMA LoopCheckStep ==
  ASSUME LoopConstants, ImageIInv,
         \/ InitInspect \/ StartMount \/ \E bytes \in ImageSize : StartGrow(bytes)
         \/ InspectLoopBacking("mount inspect", "mount verify") \/ InspectLoopBacking("grow inspect", "grow verify")
         \/ VerifyLoopIdentity("mount verify", "mount") \/ VerifyLoopIdentity("grow verify", "truncate")
  PROVE  ImageIInv'
<1>0. UNCHANGED <<imageFile, loop, imageMarker, mounted, uuids, ghosts>>
  BY Zenon DEF InitInspect, StartMount, StartGrow,
       InspectLoopBacking, VerifyLoopIdentity
<1>1. UNCHANGED <<imageFile, loop, imageMarker, rebound>> BY Zenon, <1>0 DEF ghosts
<1>2. CASE InitInspect
  <2>1. helperStep = "init inspect" /\ helperStep' = "init format" /\ device' = device /\ size' = size /\ Backing(device) = Image
    BY Zenon, <1>2 DEF InitInspect, At
  <2>2. imageFile[Image] # Unset /\ imageMarker = Unset /\ imageFile[Image].fs = Unset /\ device \in Device
    BY ZenonT(60), <2>1 DEF ImageIInv, Phases, Initializing
  <2>3. Backing(device)' = Image BY Zenon, <1>1, <2>1 DEF Backing
  <2>4. Phases'
    BY ZenonT(60), <1>1, <2>1, <2>2, <2>3 DEF Phases, Initializing,
         Growing, Inspected
  <2> QED BY ZenonT(60), <1>0, <2>1, <2>4, LoopQuiet DEF ImageIInv, Shapes
<1>3. CASE StartMount
  <2>1. helperStep' = "mount find" /\ size' = size /\ imageMarker \notin {Unset, TornMarker} /\ imageFile[Image] # Unset
    BY ZenonT(60), <1>3 DEF StartMount, At, ImageConfigured
  <2>2. Phases'
    BY Zenon, <1>1, <2>1 DEF Phases, Initializing, Growing,
         Inspected
  <2> QED BY ZenonT(60), <1>0, <2>1, <2>2, LoopQuiet DEF ImageIInv, Shapes
<1>4. ASSUME NEW bytes \in ImageSize, StartGrow(bytes) PROVE ImageIInv'
  <2>1. helperStep' = "grow find" /\ size' = bytes /\ imageMarker \notin {Unset, TornMarker} /\ imageFile[Image] # Unset /\ bytes > imageFile[Image].size
    BY Zenon, <1>4 DEF StartGrow, At, ImageConfigured
  <2>2. bytes \in Nat /\ imageFile[Image].size \in Nat
    BY ZenonT(60), <1>4, <2>1, LoopParts DEF LoopConstants, ImageIInv
  <2>3. imageFile[Image].size <= bytes BY Zenon, <2>1, <2>2, LoopOrder
  <2>4. Phases'
    BY ZenonT(60), <1>1, <2>1, <2>3 DEF Phases, Initializing, Growing,
         Inspected
  <2> QED BY ZenonT(60), <1>0, <2>1, <2>2, <2>4, LoopQuiet
<1>5. CASE InspectLoopBacking("mount inspect", "mount verify") \/ InspectLoopBacking("grow inspect", "grow verify")
  <2>1. /\ (helperStep = "mount inspect" /\ helperStep' = "mount verify") \/ (helperStep = "grow inspect" /\ helperStep' = "grow verify")
        /\ device' = device /\ size' = size /\ Backing(device) = Image
    BY ZenonT(60), <1>5 DEF InspectLoopBacking, At
  <2>2. /\ imageFile[Image] # Unset /\ imageMarker \notin {Unset, TornMarker} /\ device \in Device
        /\ helperStep' = "grow verify" => imageFile[Image].size <= size
    BY Zenon, <2>1 DEF ImageIInv, Phases, Initializing, Growing
  <2>3. Backing(device)' = Image BY ZenonT(60), <1>1, <2>1 DEF Backing
  <2>4. Phases'
    BY Zenon, <1>1, <2>1, <2>2, <2>3 DEF Phases, Initializing,
         Growing, Inspected
  <2> QED BY Zenon, <1>0, <2>1, <2>4, LoopQuiet DEF ImageIInv, Shapes
<1>6. CASE VerifyLoopIdentity("mount verify", "mount") \/ VerifyLoopIdentity("grow verify", "truncate")
  <2>1. /\ (helperStep = "mount verify" /\ helperStep' = "mount") \/ (helperStep = "grow verify" /\ helperStep' = "truncate")
        /\ device' = device /\ size' = size
        /\ InspectFilesystem(device) # Unset /\ FilesystemIdentity(InspectFilesystem(device)) = imageMarker
    BY Zenon, <1>6 DEF VerifyLoopIdentity, At
  <2>2. /\ imageFile[Image] # Unset /\ imageMarker \notin {Unset, TornMarker} /\ device \in Device
        /\ helperStep' = "truncate" => imageFile[Image].size <= size
    BY Zenon, <2>1 DEF ImageIInv, Phases, Initializing, Growing
  <2>3. ~rebound => Backing(device) = Image
    BY Zenon, <2>1 DEF ImageIInv, Phases, Inspected
  <2>4. ~rebound => imageFile[Image].fs # Unset /\ FilesystemIdentity(imageFile[Image].fs) = imageMarker
    BY ZenonT(60), <2>1, <2>2, <2>3 DEF InspectFilesystem, LoopConstants
  <2>5. ~rebound' => Backing(device)' = Image
    BY Zenon, <1>1, <2>1, <2>3 DEF Backing
  <2>6. ~rebound' => imageFile'[Image].fs # Unset /\ FilesystemIdentity(imageFile[Image].fs)' = imageMarker'
    BY ZenonT(60), <1>1, <2>4 DEF FilesystemIdentity
  <2>7. Phases'
    BY ZenonT(60), <1>1, <2>1, <2>2, <2>5, <2>6 DEF Phases, Initializing,
         Growing, Inspected
  <2> QED BY ZenonT(60), <1>0, <2>1, <2>7, LoopQuiet DEF ImageIInv, Shapes
<1> QED BY ZenonT(60), <1>2, <1>3, <1>4, <1>5, <1>6

\* New associations, which take no association from a device, change nothing else.
LEMMA LoopAssociated ==
  ASSUME LoopConstants, ImageIInv, UNCHANGED <<imageFile, imageMarker, mounted, uuids, wiped, replaced>>, rebound => rebound',
         size' \in Nat, Phases',
         loop' \in [Device -> Association \cup {Unset}],
         \A d \in Device : loop'[d] # Unset /\ loop'[d] # loop[d] =>
            imageFile[loop'[d].path] # Unset /\ loop'[d].capacity <= imageFile[loop'[d].path].size,
         mounted # Unset => loop'[mounted.device] = loop[mounted.device]
  PROVE  ImageIInv'
<1>1. Shapes' BY Zenon DEF ImageIInv, Shapes
<1>2. Backed' BY Zenon DEF ImageIInv, Backed
<1>3. MountedSound'
  <2> SUFFICES ASSUME mounted # Unset PROVE MountedSound'
    BY Zenon DEF MountedSound
  <2>1. Backing(mounted.device)' = Backing(mounted.device)
    BY Zenon DEF Backing
  <2> QED BY Zenon, <2>1 DEF ImageIInv, MountedSound
<1>4. NothingWiped' /\ MountedVerified'
  BY Zenon DEF ImageIInv, NothingWiped, MountedVerified
<1>5. MarkerTrue'
  BY Zenon DEF ImageIInv, MarkerTrue, ImageConfigured, FilesystemIdentity
<1> QED BY ZenonT(60), <1>1, <1>2, <1>3, <1>4, <1>5 DEF ImageIInv

\* losetup gives a device of the image, made or found.
LEMMA LoopAttachedLoop ==
  ASSUME LoopConstants, ImageIInv, imageFile[Image] # Unset, AttachLoop(Image)
  PROVE  /\ device' \in Device /\ loop' \in [Device -> Association \cup {Unset}]
         /\ \A d \in Device : loop[d] # Unset => loop'[d] = loop[d]
         /\ \A d \in Device : loop'[d] # Unset /\ loop'[d] # loop[d] =>
              imageFile[loop'[d].path] # Unset /\ loop'[d].capacity <= imageFile[loop'[d].path].size
         /\ Backing(device)' = Image
<1>0. loop \in [Device -> Association \cup {Unset}] /\ imageFile[Image].size \in Nat /\ imageFile[Image].size <= imageFile[Image].size
  <2>1. imageFile[Image].size \in Nat BY ZenonT(60), LoopParts DEF ImageIInv
  <2> QED BY Zenon, <2>1, LoopOrder DEF ImageIInv, Shapes
<1>1. CASE {d \in Device : Backing(d) = Image} # {}
  <2>1. device' \in Device /\ Backing(device') = Image /\ loop' = loop
    BY ZenonT(60), <1>1 DEF AttachLoop
  <2>2. Backing(device)' = Image BY Zenon, <2>1 DEF Backing
  <2> QED BY Zenon, <1>0, <2>1, <2>2
<1>2. CASE {d \in Device : Backing(d) = Image} = {}
  <2> DEFINE a == [path |-> Image, capacity |-> imageFile[Image].size]
  <2>1. device' \in Device /\ loop[device'] = Unset /\ loop' = [loop EXCEPT ![device'] = a]
    BY Zenon, <1>2 DEF AttachLoop
  <2>2. a \in Association /\ a.path = Image /\ a.capacity = imageFile[Image].size
    BY ZenonT(60), <1>0 DEF Association
  <2>3. loop'[device'] = a /\ \A d \in Device \ {device'} : loop'[d] = loop[d]
    BY Zenon, <1>0, <2>1
  <2>4. loop' \in [Device -> Association \cup {Unset}] BY ZenonT(60), <1>0, <2>1, <2>2
  <2>5. a # Unset BY Zenon, <2>2 DEF LoopConstants
  <2>6. Backing(device)' = Image
    BY ZenonT(60), <2>2, <2>3, <2>5 DEF Backing
  <2> QED BY ZenonT(60), <1>0, <2>1, <2>2, <2>3, <2>4, <2>6
<1> QED BY ZenonT(60), <1>1, <1>2

\* The helper's associations.
LEMMA LoopAttachStep ==
  ASSUME LoopConstants, ImageIInv,
         \/ InitAttach
         \/ AttachOrReuse("mount find", "mount inspect", "mount verify")
         \/ AttachOrReuse("grow find", "grow inspect", "grow verify")
  PROVE  ImageIInv'
<1>0. UNCHANGED <<imageFile, imageMarker, mounted, uuids, ghosts>> /\ imageFile[Image] # Unset
  BY Zenon DEF InitAttach, AttachOrReuse
<1>1. UNCHANGED <<imageFile, imageMarker, mounted, uuids, wiped, rebound, replaced>>
  BY Zenon, <1>0 DEF ghosts
<1>2. mounted # Unset => mounted.device \in Device /\ loop[mounted.device] # Unset
  BY Zenon DEF ImageIInv, Shapes
<1>3. size \in Nat BY Zenon DEF ImageIInv, Shapes
<1>4. CASE InitAttach
  <2>1. helperStep = "init attach" /\ helperStep' = "init inspect" /\ AttachLoop(Image) /\ size' = size
    BY Zenon, <1>4 DEF InitAttach, At
  <2>2. imageMarker = Unset /\ imageFile[Image].fs = Unset
    BY ZenonT(60), <2>1 DEF ImageIInv, Phases, Initializing
  <2>3. Phases'
    BY ZenonT(60), <1>0, <1>1, <2>1, <2>2, LoopAttachedLoop DEF Phases,
         Initializing, Growing, Inspected
  <2> QED BY ZenonT(60), <1>0, <1>1, <1>2, <1>3, <2>1, <2>3, LoopAttachedLoop, LoopAssociated
<1>5. ASSUME NEW find, NEW inspect, NEW verify,
             \/ find = "mount find" /\ inspect = "mount inspect" /\ verify = "mount verify"
             \/ find = "grow find" /\ inspect = "grow inspect" /\ verify = "grow verify",
             AttachOrReuse(find, inspect, verify)
      PROVE  ImageIInv'
  <2>0. helperStep = find /\ imageMarker \notin {Unset, TornMarker} /\ (find = "grow find" => imageFile[Image].size <= size)
    <3>1. helperStep = find BY ZenonT(60), <1>5 DEF AttachOrReuse
    <3>2. helperStep \notin Initializing \cup {"idle"}
      BY Zenon, <1>5, <3>1 DEF Initializing
    <3> QED BY Zenon, <3>1, <3>2 DEF ImageIInv, Phases, Growing
  <2>1. ASSUME NEW d \in Device, Backing(d) = Image, device' = d, helperStep' = verify, loop' = loop, size' = size PROVE ImageIInv'
    <3>1. Backing(device)' = Image BY Zenon, <2>1 DEF Backing
    <3>2. Phases'
      BY ZenonT(60), <1>0, <1>1, <1>5, <2>0, <2>1, <3>1 DEF Phases, Initializing,
           Growing, Inspected
    <3> QED BY ZenonT(60), <1>0, <1>3, <2>1, <3>2, LoopQuiet
  <2>2. ASSUME AttachLoop(Image), helperStep' = inspect, size' = size PROVE ImageIInv'
    <3>1. Phases'
      BY ZenonT(60), <1>0, <1>1, <1>5, <2>0, <2>2, LoopAttachedLoop DEF Phases,
           Initializing, Growing, Inspected
    <3> QED BY ZenonT(60), <1>0, <1>1, <1>2, <1>3, <2>2, <3>1, LoopAttachedLoop, LoopAssociated
  <2>3. ASSUME EndHelper, loop' = loop PROVE ImageIInv' BY ZenonT(60), <1>0, <2>3, LoopEndStep
  <2> QED BY ZenonT(60), <1>5, <2>1, <2>2, <2>3 DEF AttachOrReuse
<1> QED BY Zenon, <1>4, <1>5

\* The capacity of a device follows its file.
LEMMA LoopRefreshStep ==
  ASSUME LoopConstants, ImageIInv, RefreshLoopCapacity
  PROVE  ImageIInv'
<1>0. /\ UNCHANGED <<imageFile, imageMarker, mounted, uuids, wiped, rebound, replaced, device, size>>
      /\ helperStep = "capacity" /\ helperStep' = "resize" /\ Backing(device) # Unset /\ imageFile[Backing(device)] # Unset
      /\ loop' = [loop EXCEPT ![device].capacity = imageFile[Backing(device)].size]
  BY Zenon DEF RefreshLoopCapacity, At, ghosts
<1>1. /\ imageFile[Image] # Unset /\ imageMarker \notin {Unset, TornMarker} /\ device \in Device
      /\ ~rebound => Backing(device) = Image
  BY ZenonT(60), <1>0 DEF ImageIInv, Phases, Initializing, Inspected
<1>2. /\ loop[device] # Unset /\ loop[device] \in Association /\ Backing(device) = loop[device].path
      /\ loop[device].capacity \in Nat /\ loop[device].path \in {Image, Foreign}
  BY Zenon, <1>0, <1>1, LoopParts DEF ImageIInv
<1>3. imageFile[Backing(device)].size \in Nat
  BY ZenonT(60), <1>0, <1>2, LoopParts DEF ImageIInv
<1> DEFINE a == [loop[device] EXCEPT !.capacity = imageFile[Backing(device)].size]
<1>4. a \in Association /\ a.path = loop[device].path /\ a.capacity = imageFile[Backing(device)].size
  <2>1. \A l \in Association, n \in Nat : /\ [l EXCEPT !.capacity = n] \in Association
                                                   /\ [l EXCEPT !.capacity = n].path = l.path /\ [l EXCEPT !.capacity = n].capacity = n
    BY SMTT(60) DEF Association
  <2> QED BY Zenon, <1>2, <1>3, <2>1
<1>5. loop'[device] = a /\ \A d \in Device \ {device} : loop'[d] = loop[d]
  BY Zenon, <1>0, <1>1 DEF ImageIInv, Shapes
<1>6. a # Unset BY ZenonT(60), <1>4 DEF LoopConstants
<1>7. loop' \in [Device -> Association \cup {Unset}]
  BY Zenon, <1>0, <1>1, <1>4 DEF ImageIInv, Shapes
<1>8. \A d \in Device : Backing(d)' = Backing(d)
  BY ZenonT(60), <1>2, <1>4, <1>5, <1>6 DEF Backing
<1>9. loop[device].capacity <= a.capacity
  BY Zenon, <1>1, <1>2, <1>4 DEF ImageIInv, Backed
<1>10. Shapes' BY ZenonT(60), <1>0, <1>5, <1>6, <1>7 DEF ImageIInv, Shapes
<1>11. Backed'
  <2>1. a.capacity <= imageFile[a.path].size /\ imageFile[a.path] # Unset
    BY ZenonT(60), <1>0, <1>2, <1>3, <1>4, LoopOrder
  <2>2. \A d \in Device : loop'[d] # Unset => imageFile[loop'[d].path] # Unset /\ loop'[d].capacity <= imageFile[loop'[d].path].size
    BY Zenon, <1>5, <2>1 DEF ImageIInv, Backed
  <2> QED BY Zenon, <1>0, <2>2 DEF ImageIInv, Backed
<1>12. MountedSound'
  <2> SUFFICES ASSUME mounted # Unset PROVE MountedSound'
    BY Zenon, <1>0 DEF MountedSound
  <2> DEFINE d == mounted.device
  <2>1. d \in Device /\ loop[d] # Unset /\ imageMarker \notin {Unset, TornMarker} /\ imageFile[Backing(d)].fs # Unset
        /\ imageFile[Backing(d)].fs.size <= loop[d].capacity
    BY ZenonT(60) DEF ImageIInv, Shapes, MountedSound
  <2>2. imageFile[Backing(d)].fs.size <= loop'[d].capacity
    <3>1. CASE d # device BY ZenonT(60), <1>5, <2>1, <3>1
    <3>2. CASE d = device
      <4>1. imageFile[Backing(d)].fs \in Filesystem
        BY ZenonT(60), <1>0, <1>2, <2>1, <3>2, LoopParts DEF ImageIInv
      <4>2. imageFile[Backing(d)].fs.size \in Nat BY Zenon, <4>1 DEF Filesystem
      <4>3. loop[d].capacity \in Nat /\ loop'[d].capacity \in Nat /\ loop[d].capacity <= loop'[d].capacity
        BY ZenonT(60), <1>2, <1>3, <1>4, <1>5, <1>9, <3>2
      <4>4. imageFile[Backing(d)].fs.size <= loop[d].capacity BY Zenon, <2>1
      <4> QED BY ZenonT(60), <4>2, <4>3, <4>4, LoopThrough
    <3> QED BY Zenon, <3>1, <3>2
  <2> QED BY ZenonT(60), <1>0, <1>8, <2>1, <2>2 DEF MountedSound
<1>13. NothingWiped' /\ MountedVerified' /\ MarkerTrue'
  BY ZenonT(60), <1>0 DEF ImageIInv, NothingWiped, MountedVerified,
       MarkerTrue, ImageConfigured, FilesystemIdentity
<1>14. Phases'
  BY ZenonT(60), <1>0, <1>1, <1>8 DEF Phases, Initializing, Growing,
       Inspected
<1> QED BY ZenonT(60), <1>10, <1>11, <1>12, <1>13, <1>14 DEF ImageIInv

\* The administrator's associations and a reboot.
LEMMA LoopAdministratorStep ==
  ASSUME LoopConstants, ImageIInv, (\E d \in Device, p \in {Image, Foreign} : Attach(d, p)) \/ Reboot
  PROVE  ImageIInv'
<1>1. ASSUME NEW d \in Device, NEW p \in {Image, Foreign}, Attach(d, p) PROVE ImageIInv'
  <2>0. /\ UNCHANGED <<imageFile, imageMarker, mounted, uuids, wiped, replaced, helperStep, device, size>>
        /\ ~Busy(d) /\ imageFile[p] # Unset /\ loop' = [loop EXCEPT ![d] = [path |-> p, capacity |-> imageFile[p].size]]
        /\ rebound' = (rebound \/ (Inspected /\ device = d))
    BY ZenonT(60), <1>1 DEF Attach, helper
  <2>1. imageFile[p].size \in Nat BY Zenon, <2>0, LoopParts DEF ImageIInv
  <2> DEFINE a == [path |-> p, capacity |-> imageFile[p].size]
  <2>2. a \in Association /\ a.path = p /\ a.capacity = imageFile[p].size
    BY ZenonT(60), <2>1 DEF Association
  <2>3. loop'[d] = a /\ \A e \in Device \ {d} : loop'[e] = loop[e]
    BY Zenon, <2>0 DEF ImageIInv, Shapes
  <2>4. loop' \in [Device -> Association \cup {Unset}]
    BY ZenonT(60), <2>0, <2>2 DEF ImageIInv, Shapes
  <2>5. \A e \in Device : loop'[e] # Unset /\ loop'[e] # loop[e] =>
          imageFile[loop'[e].path] # Unset /\ loop'[e].capacity <= imageFile[loop'[e].path].size
    BY ZenonT(60), <2>0, <2>1, <2>2, <2>3, LoopOrder
  <2>6. mounted # Unset => loop'[mounted.device] = loop[mounted.device]
    BY Zenon, <2>0, <2>3 DEF Busy, ImageIInv, Shapes
  <2>7. Phases'
    <3>1. ASSUME Inspected', ~rebound' PROVE Backing(device)' = Image
      <4>1. Inspected /\ ~rebound /\ device # d
        BY ZenonT(60), <2>0, <3>1 DEF Inspected
      <4>2. Backing(device) = Image
        BY Zenon, <4>1 DEF ImageIInv, Phases
      <4>3. device \in Device
        BY ZenonT(60), <4>1 DEF ImageIInv, Phases, Inspected
      <4>4. device' = device /\ loop'[device] = loop[device] BY ZenonT(60), <2>0, <2>3, <4>1, <4>3
      <4> QED BY ZenonT(60), <4>2, <4>4 DEF Backing
    <3> QED
      BY ZenonT(60), <2>0, <3>1 DEF ImageIInv, Phases, Initializing,
           Growing, FilesystemIdentity
  <2>8. size' \in Nat BY ZenonT(60), <2>0 DEF ImageIInv, Shapes
  <2>9. rebound => rebound' BY ZenonT(60), <2>0
  <2> QED BY ZenonT(60), <2>0, <2>4, <2>5, <2>6, <2>7, <2>8, <2>9, LoopAssociated
<1>2. CASE Reboot
  <2>0. /\ UNCHANGED <<imageFile, imageMarker, uuids, wiped, rebound, replaced>> /\ helperStep' = "idle" /\ mounted' = Unset
        /\ loop' = [d \in Device |-> Unset]
    BY ZenonT(60), <1>2 DEF Reboot, ghosts, EndHelper
  <2>1. size' \in Nat BY SMTT(60), <1>2 DEF Reboot, EndHelper
  <2>2. Shapes' BY Zenon, <2>0, <2>1 DEF ImageIInv, Shapes
  <2>3. Backed' BY ZenonT(60), <2>0 DEF ImageIInv, Backed
  <2>4. Phases'
    BY Zenon, <2>0 DEF Phases, Initializing, Growing,
         Inspected
  <2>5. MountedSound' /\ MountedVerified'
    BY ZenonT(60), <2>0 DEF MountedSound, MountedVerified
  <2>6. NothingWiped' /\ MarkerTrue'
    BY Zenon, <2>0 DEF ImageIInv, NothingWiped, MarkerTrue,
         ImageConfigured, FilesystemIdentity
  <2> QED BY ZenonT(60), <2>2, <2>3, <2>4, <2>5, <2>6 DEF ImageIInv
<1> QED BY ZenonT(60), <1>1, <1>2

\* While an image is being initialised nothing is mounted.
LEMMA LoopUnmounted == ImageIInv /\ helperStep \in Initializing => mounted = Unset /\ imageMarker = Unset
BY ZenonT(60) DEF ImageIInv, Phases, MountedSound

\* A step that changes one image file alone.
LEMMA LoopImaged ==
  ASSUME LoopConstants, ImageIInv, UNCHANGED <<loop, imageMarker, mounted, rebound, replaced>>,
         NEW p \in {Image, Foreign}, NEW f \in ImageFile, imageFile' = [imageFile EXCEPT ![p] = f],
         size' \in Nat, uuids' \in Nat, Phases', NothingWiped', MountedSound',
         imageFile[p] # Unset => imageFile[p].size <= f.size,
         \/ imageMarker \in {Unset, TornMarker} \/ p # Image
         \/ imageFile[Image] # Unset /\ (imageFile[Image].fs # Unset => f.fs # Unset /\ FilesystemIdentity(f.fs) = FilesystemIdentity(imageFile[Image].fs))
  PROVE  ImageIInv'
<1>0. /\ imageFile'[p] = f /\ \A q \in {Image, Foreign} \ {p} : imageFile'[q] = imageFile[q]
      /\ imageFile' \in [{Image, Foreign} -> ImageFile \cup {Unset}]
  BY Zenon DEF ImageIInv, Shapes
<1>1. Shapes' BY Zenon, <1>0 DEF ImageIInv, Shapes
<1>2. f # Unset /\ f.size \in Nat
  <2>1. \A g \in ImageFile : g.size \in Nat BY Zenon DEF ImageFile
  <2> QED BY Zenon, <2>1 DEF LoopConstants
<1>3. Backed'
  <2>1. ASSUME NEW d \in Device, loop[d] # Unset PROVE imageFile'[loop[d].path] # Unset /\ loop[d].capacity <= imageFile'[loop[d].path].size
    <3>1. loop[d].path \in {Image, Foreign} /\ loop[d].capacity \in Nat
      BY ZenonT(60), <2>1, LoopParts DEF ImageIInv
    <3>2. imageFile[loop[d].path] # Unset /\ loop[d].capacity <= imageFile[loop[d].path].size
      BY ZenonT(60), <2>1 DEF ImageIInv, Backed
    <3>3. CASE loop[d].path # p BY ZenonT(60), <1>0, <3>1, <3>2, <3>3
    <3>4. CASE loop[d].path = p
      <4>1. imageFile[p].size \in Nat BY ZenonT(60), <3>2, <3>4, LoopParts DEF ImageIInv
      <4>2. imageFile[p].size <= f.size /\ loop[d].capacity <= imageFile[p].size BY ZenonT(60), <3>2, <3>4
      <4>3. loop[d].capacity <= f.size BY ZenonT(60), <1>2, <3>1, <4>1, <4>2, LoopThrough
      <4> QED BY ZenonT(60), <1>0, <1>2, <3>4, <4>3
    <3> QED BY ZenonT(60), <3>3, <3>4
  <2>2. imageFile'[Foreign] # Unset BY Zenon, <1>0, <1>2 DEF ImageIInv, Backed
  <2> QED BY ZenonT(60), <2>1, <2>2 DEF Backed
<1>4. MountedVerified' BY ZenonT(60) DEF ImageIInv, MountedVerified
<1>5. MarkerTrue'
  <2> SUFFICES ASSUME imageMarker \notin {Unset, TornMarker}, imageFile'[Image] # Unset, ~rebound, ~replaced
               PROVE  imageFile'[Image].fs # Unset /\ FilesystemIdentity(imageFile'[Image].fs) = imageMarker
    BY ZenonT(60) DEF MarkerTrue, ImageConfigured, FilesystemIdentity
  <2>1. CASE p # Image
    BY ZenonT(60), <1>0, <2>1 DEF ImageIInv, MarkerTrue, ImageConfigured
  <2>2. CASE p = Image
    BY ZenonT(60), <1>0, <2>2 DEF ImageIInv, MarkerTrue, ImageConfigured
  <2> QED BY ZenonT(60), <2>1, <2>2
<1> QED BY ZenonT(60), <1>1, <1>3, <1>4, <1>5 DEF ImageIInv

\* A new image file has no filesystem.
LEMMA LoopCreateStep ==
  ASSUME LoopConstants, ImageIInv, NEW bytes \in ImageSize, CreateImage(bytes)
  PROVE  ImageIInv'
<1> DEFINE f == [size |-> bytes, fs |-> Unset]
<1>0. /\ UNCHANGED <<loop, imageMarker, mounted, rebound, replaced, wiped, size, uuids>> /\ helperStep' = "init attach"
      /\ imageFile[Image] = Unset /\ imageMarker = Unset /\ imageFile' = [imageFile EXCEPT ![Image] = f]
  BY Zenon DEF CreateImage, At, ghosts
<1>1. f \in ImageFile /\ f.fs = Unset BY Zenon DEF ImageFile, LoopConstants
<1>2. imageFile'[Image] = f /\ f # Unset
  BY ZenonT(60), <1>0, <1>1 DEF ImageIInv, Shapes, LoopConstants
<1>3. mounted = Unset BY ZenonT(60), <1>0 DEF ImageIInv, MountedSound
<1>4. Phases'
  BY ZenonT(60), <1>0, <1>1, <1>2 DEF Phases, Initializing, Growing,
       Inspected
<1>5. NothingWiped' /\ MountedSound'
  BY Zenon, <1>0, <1>3 DEF ImageIInv, NothingWiped, MountedSound
<1>6. size' \in Nat /\ uuids' \in Nat BY ZenonT(60), <1>0 DEF ImageIInv, Shapes
<1> HIDE DEF f
<1> QED BY ZenonT(60), <1>0, <1>1, <1>4, <1>5, <1>6, LoopImaged

\* The format command makes the filesystem of an image that has none, unless the device was rebound.
LEMMA LoopFormatStep ==
  ASSUME LoopConstants, ImageIInv, FormatBtrfs
  PROVE  ImageIInv'
<1> DEFINE p == Backing(device)
           fs == [uuid |-> uuids', label |-> Label, size |-> loop[device].capacity]
           f == [imageFile[p] EXCEPT !.fs = fs]
<1>0. /\ UNCHANGED <<loop, imageMarker, mounted, rebound, replaced, device, size>> /\ helperStep = "init format" /\ helperStep' = "init verify"
      /\ p # Unset /\ imageFile[p] # Unset /\ imageFile' = [imageFile EXCEPT ![p] = f] /\ uuids' = uuids + 1
      /\ wiped' = IF imageFile[p].fs = Unset THEN wiped ELSE wiped \cup {imageFile[p].fs.uuid}
  BY Zenon DEF FormatBtrfs, At
<1>1. imageFile[Image] # Unset /\ imageMarker = Unset /\ imageFile[Image].fs = Unset /\ device \in Device /\ (~rebound => p = Image)
  BY ZenonT(60), <1>0 DEF ImageIInv, Phases, Initializing, Inspected
<1>2. p \in {Image, Foreign} /\ loop[device].capacity \in Nat
  BY ZenonT(60), <1>0, <1>1, LoopParts DEF ImageIInv
<1>3. uuids' \in Nat
  <2>1. uuids \in Nat BY ZenonT(60) DEF ImageIInv, Shapes
  <2> QED BY ZenonT(60), <1>0, <2>1, LoopOrder
<1>4. fs \in Filesystem BY ZenonT(60), <1>2, <1>3 DEF Filesystem
<1>5. imageFile[p] \in ImageFile /\ imageFile[p].size \in Nat
  BY ZenonT(60), <1>0, <1>2, LoopParts DEF ImageIInv
<1> HIDE DEF fs
<1>6. f \in ImageFile /\ f.size = imageFile[p].size
  <2>1. \A g \in ImageFile, h \in Filesystem : /\ [g EXCEPT !.fs = h] \in ImageFile
                                                                 /\ [g EXCEPT !.fs = h].size = g.size
    BY DEF ImageFile
  <2> QED BY ZenonT(60), <1>4, <1>5, <2>1
<1>7. f # Unset BY ZenonT(60), <1>6 DEF LoopConstants
<1>8. imageFile'[Image] # Unset
  BY ZenonT(60), <1>0, <1>1, <1>2, <1>7 DEF ImageIInv, Shapes
<1>9. ~rebound' => Backing(device)' = Image
  BY ZenonT(60), <1>0, <1>1 DEF Backing
<1>10. Phases'
  BY ZenonT(60), <1>0, <1>1, <1>8, <1>9 DEF Phases, Initializing,
       Growing, Inspected
<1>11. mounted = Unset BY Zenon, <1>1 DEF ImageIInv, MountedSound
<1>12. NothingWiped' BY ZenonT(60), <1>0, <1>1 DEF ImageIInv, NothingWiped
<1>13. MountedSound' BY ZenonT(60), <1>0, <1>11 DEF MountedSound
<1>14. size' \in Nat BY ZenonT(60), <1>0 DEF ImageIInv, Shapes
<1>15. imageFile[p].size <= f.size BY ZenonT(60), <1>5, <1>6, LoopOrder
<1> HIDE DEF f, p
<1> QED BY ZenonT(60), <1>0, <1>1, <1>2, <1>3, <1>6, <1>10, <1>12, <1>13, <1>14, <1>15, LoopImaged

\* The image file is never made shorter.
LEMMA LoopGrowStep ==
  ASSUME LoopConstants, ImageIInv, GrowImage
  PROVE  ImageIInv'
<1> DEFINE f == [imageFile[Image] EXCEPT !.size = size]
<1>0. /\ UNCHANGED <<loop, imageMarker, mounted, rebound, replaced, wiped, device, size, uuids>>
      /\ helperStep = "truncate" /\ helperStep' = "capacity" /\ imageFile[Image] # Unset /\ imageFile' = [imageFile EXCEPT ![Image] = f]
  BY Zenon DEF GrowImage, At, ghosts
<1>1. /\ imageMarker \notin {Unset, TornMarker} /\ device \in Device /\ imageFile[Image].size <= size
      /\ ~rebound => Backing(device) = Image
  BY Zenon, <1>0 DEF ImageIInv, Phases, Initializing, Growing,
       Inspected
<1>2. size \in Nat /\ uuids \in Nat BY Zenon DEF ImageIInv, Shapes
<1>3. imageFile[Image] \in ImageFile BY ZenonT(60), <1>0, LoopParts DEF ImageIInv
<1>4. f \in ImageFile /\ f.size = size /\ f.fs = imageFile[Image].fs
  <2>1. \A g \in ImageFile, n \in Nat : /\ [g EXCEPT !.size = n] \in ImageFile
                                                 /\ [g EXCEPT !.size = n].size = n /\ [g EXCEPT !.size = n].fs = g.fs
    BY SMTT(60) DEF ImageFile
  <2> QED BY ZenonT(60), <1>2, <1>3, <2>1
<1> HIDE DEF f
<1>5. /\ imageFile'[Image] = f /\ imageFile'[Foreign] = imageFile[Foreign] /\ f # Unset
  <2>1. Image # Foreign BY DEF Image, Foreign
  <2> QED BY ZenonT(60), <1>0, <1>4, <2>1 DEF ImageIInv, Shapes, LoopConstants
<1>6. \A d \in Device : Backing(d)' = Backing(d)
  BY ZenonT(60), <1>0 DEF Backing
<1>7. Phases'
  BY ZenonT(60), <1>0, <1>1, <1>5, <1>6 DEF Phases, Initializing,
       Growing, Inspected
<1>8. NothingWiped' BY Zenon, <1>0 DEF ImageIInv, NothingWiped
<1>9. MountedSound'
  <2> SUFFICES ASSUME mounted # Unset PROVE MountedSound'
    BY Zenon, <1>0 DEF MountedSound
  <2>1. mounted.device \in Device /\ loop[mounted.device] # Unset
    BY ZenonT(60) DEF ImageIInv, Shapes
  <2>2. Backing(mounted.device) \in {Image, Foreign}
    BY ZenonT(60), <2>1, LoopParts DEF ImageIInv
  <2>3. imageFile'[Backing(mounted.device)].fs = imageFile[Backing(mounted.device)].fs
    BY ZenonT(60), <1>4, <1>5, <2>2
  <2>4. mounted' = mounted /\ Backing(mounted.device)' = Backing(mounted.device)
    BY ZenonT(60), <1>0, <1>6, <2>1
  <2> QED BY ZenonT(60), <1>0, <2>3, <2>4 DEF ImageIInv, MountedSound
<1> QED BY ZenonT(60), <1>0, <1>1, <1>2, <1>4, <1>7, <1>8, <1>9, LoopImaged

\* The mounted filesystem is resized to its device; its identity stays.
LEMMA LoopResizeStep ==
  ASSUME LoopConstants, ImageIInv, ResizeFilesystem
  PROVE  ImageIInv'
<1> DEFINE p == Backing(mounted.device)
           c == loop[mounted.device].capacity
           f == [imageFile[p] EXCEPT !.fs = [@ EXCEPT !.size = c]]
<1>0. /\ UNCHANGED <<loop, imageMarker, mounted, rebound, replaced, wiped, uuids>> /\ mounted # Unset
      /\ helperStep' = "idle" /\ imageFile' = [imageFile EXCEPT ![p] = f]
  BY Zenon DEF ResizeFilesystem, EndHelper, ghosts
<1>1. size' \in Nat BY DEF ResizeFilesystem, EndHelper
<1>2. mounted.device \in Device /\ loop[mounted.device] # Unset
  BY ZenonT(60), <1>0 DEF ImageIInv, Shapes
<1>3. p \in {Image, Foreign} /\ c \in Nat
  BY ZenonT(60), <1>2, LoopParts DEF ImageIInv
<1>4. imageFile[p] # Unset /\ imageFile[p].fs # Unset
  BY ZenonT(60), <1>0, <1>2, LoopParts DEF ImageIInv, Backed, MountedSound
<1>5. imageFile[p] \in ImageFile /\ imageFile[p].fs \in Filesystem /\ imageFile[p].size \in Nat
  BY ZenonT(60), <1>3, <1>4, LoopParts DEF ImageIInv
<1> HIDE DEF p, c
<1>6. /\ f \in ImageFile /\ f.size = imageFile[p].size /\ f.fs # Unset /\ f.fs.size = c
      /\ f.fs.uuid = imageFile[p].fs.uuid /\ f.fs.label = imageFile[p].fs.label
  <2>1. \A h \in Filesystem, n \in Nat :
          /\ [h EXCEPT !.size = n] \in Filesystem /\ [h EXCEPT !.size = n].size = n
          /\ [h EXCEPT !.size = n].uuid = h.uuid /\ [h EXCEPT !.size = n].label = h.label
    BY DEF Filesystem
  <2>2. \A g \in ImageFile, h \in Filesystem : /\ [g EXCEPT !.fs = h] \in ImageFile
                                                                 /\ [g EXCEPT !.fs = h].size = g.size /\ [g EXCEPT !.fs = h].fs = h
    BY DEF ImageFile
  <2> DEFINE h == [imageFile[p].fs EXCEPT !.size = c]
  <2>3. f = [imageFile[p] EXCEPT !.fs = h] BY SMTT(60), <1>5 DEF ImageFile
  <2>4. h \in Filesystem /\ h.size = c /\ h.uuid = imageFile[p].fs.uuid /\ h.label = imageFile[p].fs.label
    BY SMTT(60), <1>3, <1>5, <2>1
  <2> HIDE DEF h, f
  <2>5. f \in ImageFile /\ f.size = imageFile[p].size /\ f.fs = h
    BY ZenonT(60), <1>5, <2>2, <2>3, <2>4
  <2>6. f.fs.size = c /\ f.fs.uuid = imageFile[p].fs.uuid /\ f.fs.label = imageFile[p].fs.label
    BY ZenonT(60), <2>4, <2>5
  <2>7. f.fs # Unset BY ZenonT(60), <2>4, <2>5 DEF LoopConstants
  <2> QED BY ZenonT(60), <2>5, <2>6, <2>7
<1> HIDE DEF f
<1>7. imageFile'[p] = f /\ f # Unset
  BY ZenonT(60), <1>0, <1>3, <1>6 DEF ImageIInv, Shapes, LoopConstants
<1>8. FilesystemIdentity(f.fs) = FilesystemIdentity(imageFile[p].fs)
  BY ZenonT(60), <1>6 DEF FilesystemIdentity
<1>9. Phases'
  BY Zenon, <1>0 DEF Phases, Initializing, Growing,
       Inspected
<1>10. NothingWiped' BY ZenonT(60), <1>0 DEF ImageIInv, NothingWiped
<1>11. MountedSound'
  <2>1. imageMarker \notin {Unset, TornMarker}
    BY ZenonT(60), <1>0 DEF ImageIInv, MountedSound
  <2>2. mounted' = mounted /\ Backing(mounted.device)' = p /\ loop'[mounted.device].capacity = c
    BY ZenonT(60), <1>0 DEF Backing, p, c
  <2> QED BY ZenonT(60), <1>0, <1>3, <1>6, <1>7, <2>1, <2>2, LoopOrder DEF MountedSound
<1>12. imageFile[p].size <= f.size BY ZenonT(60), <1>5, <1>6, LoopOrder
<1>13. uuids' \in Nat BY ZenonT(60), <1>0 DEF ImageIInv, Shapes
<1> QED
  BY ZenonT(60), <1>0, <1>1, <1>3, <1>4, <1>6, <1>8, <1>9, <1>10, <1>11, <1>12, <1>13, LoopImaged

\* The marker names what was inspected on the device.
LEMMA LoopMarkerStep ==
  ASSUME LoopConstants, ImageIInv, WriteInstanceMarker
  PROVE  ImageIInv'
<1>0. /\ UNCHANGED <<imageFile, loop, mounted, uuids, wiped, rebound, replaced>> /\ helperStep = "init verify" /\ helperStep' = "idle"
      /\ imageMarker' \in {TornMarker, FilesystemIdentity(InspectFilesystem(device))} /\ InspectFilesystem(device) # Unset
  BY Zenon DEF WriteInstanceMarker, EndHelper, ghosts
<1>1. size' \in Nat BY ZenonT(60) DEF WriteInstanceMarker, EndHelper
<1>2. imageMarker = Unset /\ mounted = Unset BY ZenonT(60), <1>0, LoopUnmounted DEF Initializing
<1>3. Shapes' /\ Backed'
  BY ZenonT(60), <1>0, <1>1 DEF ImageIInv, Shapes, Backed
<1>4. Phases'
  BY ZenonT(60), <1>0 DEF Phases, Initializing, Growing,
       Inspected
<1>5. MountedSound' /\ MountedVerified'
  BY ZenonT(60), <1>0, <1>2 DEF MountedSound, MountedVerified
<1>6. NothingWiped' BY ZenonT(60), <1>0 DEF ImageIInv, NothingWiped
<1>7. MarkerTrue'
  <2> SUFFICES ASSUME imageMarker' \notin {Unset, TornMarker}, imageFile[Image] # Unset, ~rebound PROVE imageFile[Image].fs # Unset /\ FilesystemIdentity(imageFile[Image].fs) = imageMarker'
    BY Zenon, <1>0 DEF MarkerTrue, ImageConfigured, FilesystemIdentity
  <2>1. Backing(device) = Image
    BY ZenonT(60), <1>0 DEF ImageIInv, Phases, Inspected
  <2>2. InspectFilesystem(device) = imageFile[Image].fs
    BY ZenonT(60), <2>1 DEF InspectFilesystem, LoopConstants
  <2> QED BY ZenonT(60), <1>0, <2>2
<1> QED BY ZenonT(60), <1>3, <1>4, <1>5, <1>6, <1>7 DEF ImageIInv

\* What is mounted was verified, and fits its device.
LEMMA LoopMountStep ==
  ASSUME LoopConstants, ImageIInv, Mount
  PROVE  ImageIInv'
<1>0. /\ UNCHANGED <<imageFile, loop, imageMarker, uuids, wiped, rebound, replaced>> /\ helperStep = "mount" /\ helperStep' = "idle"
      /\ InspectFilesystem(device) # Unset /\ InspectFilesystem(device).size <= loop[device].capacity
      /\ mounted' = [device |-> device, identity |-> FilesystemIdentity(InspectFilesystem(device))]
  BY ZenonT(60) DEF Mount, EndHelper, ghosts
<1>1. size' \in Nat BY DEF Mount, EndHelper
<1>2. /\ imageMarker \notin {Unset, TornMarker} /\ device \in Device /\ imageFile[Image] # Unset
      /\ ~rebound => Backing(device) = Image /\ FilesystemIdentity(imageFile[Image].fs) = imageMarker
  BY Zenon, <1>0 DEF ImageIInv, Phases, Initializing, Inspected
<1>3. /\ Backing(device) # Unset /\ loop[device] # Unset /\ InspectFilesystem(device) = imageFile[Backing(device)].fs
  BY ZenonT(60), <1>0 DEF InspectFilesystem, Backing
<1>4. mounted'.device = device /\ mounted'.identity = FilesystemIdentity(InspectFilesystem(device))
  BY ZenonT(60), <1>0
<1>5. Shapes' BY ZenonT(60), <1>0, <1>1, <1>2, <1>3, <1>4 DEF ImageIInv, Shapes
<1>6. Backed' BY ZenonT(60), <1>0 DEF ImageIInv, Backed
<1>7. Phases'
  BY ZenonT(60), <1>0, <1>2 DEF Phases, Initializing, Growing,
       Inspected
<1>8. MountedSound'
  <2>1. Backing(mounted.device)' = Backing(device)
    BY ZenonT(60), <1>0, <1>4 DEF Backing
  <2> QED BY ZenonT(60), <1>0, <1>2, <1>3, <1>4, <2>1 DEF MountedSound
<1>9. MountedVerified' BY ZenonT(60), <1>0, <1>2, <1>3, <1>4 DEF MountedVerified
<1>10. NothingWiped' /\ MarkerTrue'
  BY ZenonT(60), <1>0 DEF ImageIInv, NothingWiped, MarkerTrue,
       ImageConfigured, FilesystemIdentity
<1> QED BY ZenonT(60), <1>5, <1>6, <1>7, <1>8, <1>9, <1>10 DEF ImageIInv

\* The administrator loses or replaces the image, or unmounts it.
LEMMA LoopReplaceStep ==
  ASSUME LoopConstants, ImageIInv, Replace \/ Unmount
  PROVE  ImageIInv'
<1>1. CASE Replace
  <2>0. /\ UNCHANGED <<loop, imageMarker, mounted, uuids, wiped, rebound, helperStep, device, size>> /\ helperStep = "idle" /\ mounted = Unset
        /\ \A d \in Device : Backing(d) # Image
        /\ imageFile' = [imageFile EXCEPT ![Image] = Unset] \/ (imageFile' = [imageFile EXCEPT ![Image] = imageFile[Foreign]] /\ replaced' = TRUE)
    BY ZenonT(60), <1>1 DEF Replace, helper
  <2>1. /\ imageFile' \in [{Image, Foreign} -> ImageFile \cup {Unset}] /\ imageFile'[Foreign] = imageFile[Foreign]
        /\ imageFile'[Image] = Unset \/ replaced'
    <3>1. Image # Foreign BY DEF Image, Foreign
    <3> QED BY ZenonT(60), <2>0, <3>1 DEF ImageIInv, Shapes
  <2>2. Shapes' BY ZenonT(60), <2>0, <2>1 DEF ImageIInv, Shapes
  <2>3. Backed'
    <3>1. \A d \in Device : loop[d] # Unset => loop[d].path = Foreign
      BY ZenonT(60), <2>0, LoopParts DEF ImageIInv
    <3> QED BY ZenonT(60), <2>0, <2>1, <3>1 DEF ImageIInv, Backed
  <2>4. Phases'
    BY Zenon, <2>0 DEF Phases, Initializing, Growing,
         Inspected
  <2>5. MountedSound' /\ MountedVerified'
    BY ZenonT(60), <2>0 DEF MountedSound, MountedVerified
  <2>6. NothingWiped' BY Zenon, <2>0 DEF ImageIInv, NothingWiped
  <2>7. MarkerTrue' BY ZenonT(60), <2>1 DEF MarkerTrue, ImageConfigured
  <2> QED BY ZenonT(60), <2>2, <2>3, <2>4, <2>5, <2>6, <2>7 DEF ImageIInv
<1>2. CASE Unmount
  <2>0. UNCHANGED <<imageFile, loop, imageMarker, uuids, wiped, rebound, replaced, helperStep, device, size>> /\ helperStep = "idle" /\ mounted' = Unset
    BY ZenonT(60), <1>2 DEF Unmount, helper, ghosts
  <2>1. Shapes' /\ Backed'
    BY Zenon, <2>0 DEF ImageIInv, Shapes, Backed
  <2>2. Phases'
    BY ZenonT(60), <2>0 DEF Phases, Initializing, Growing,
         Inspected
  <2>3. MountedSound' /\ MountedVerified'
    BY Zenon, <2>0 DEF MountedSound, MountedVerified
  <2>4. NothingWiped' /\ MarkerTrue'
    BY ZenonT(60), <2>0 DEF ImageIInv, NothingWiped, MarkerTrue,
         ImageConfigured, FilesystemIdentity
  <2> QED BY ZenonT(60), <2>1, <2>2, <2>3, <2>4 DEF ImageIInv
<1> QED BY ZenonT(60), <1>1, <1>2

\* The invariant holds at first.
LEMMA LoopInitially == ASSUME LoopConstants, ImageInit PROVE ImageIInv
<1> DEFINE fs == [uuid |-> 0, label |-> Label, size |-> 2]
           f == [size |-> 2, fs |-> fs]
<1>0. /\ imageFile = [p \in {Image, Foreign} |-> IF p = Image THEN Unset ELSE f] /\ loop = [d \in Device |-> Unset]
      /\ imageMarker = Unset /\ mounted = Unset /\ helperStep = "idle" /\ wiped = {}
  BY ZenonT(60) DEF ImageInit
<1>1. size \in Nat /\ uuids \in Nat BY DEF ImageInit
<1>2. f \in ImageFile
  <2>1. 0 \in Nat /\ 2 \in Nat OBVIOUS
  <2> QED BY Zenon, <2>1 DEF ImageFile, Filesystem
<1> HIDE DEF f
<1>3. imageFile \in [{Image, Foreign} -> ImageFile \cup {Unset}]
  BY ZenonT(60), <1>0, <1>2
<1>4. Shapes BY ZenonT(60), <1>0, <1>1, <1>3 DEF Shapes
<1>5. Backed
  <2>1. Image # Foreign BY DEF Image, Foreign
  <2> QED BY ZenonT(60), <1>0, <1>2, <2>1 DEF Backed, LoopConstants
<1>6. Phases
  BY ZenonT(60), <1>0 DEF Phases, Initializing, Growing,
       Inspected
<1>7. MountedSound /\ NothingWiped /\ MarkerTrue /\ MountedVerified
  BY Zenon, <1>0 DEF MountedSound, NothingWiped, MarkerTrue,
       MountedVerified, ImageConfigured
<1> QED BY ZenonT(60), <1>4, <1>5, <1>6, <1>7 DEF ImageIInv

\* Every step keeps the invariant.
LEMMA LoopInvariance == ASSUME LoopConstants PROVE ImageSpec => []ImageIInv
<1>1. ImageInit => ImageIInv BY ZenonT(60), LoopInitially
<1>2. ImageIInv /\ [ImageNext]_imageVars => ImageIInv'
  <2> SUFFICES ASSUME ImageIInv, [ImageNext]_imageVars PROVE ImageIInv' OBVIOUS
  <2>1. CASE UNCHANGED imageVars
    <3>1. UNCHANGED <<imageFile, loop, imageMarker, mounted, helperStep, device, size, uuids, wiped, rebound, replaced>>
      BY ZenonT(60), <2>1 DEF imageVars, helper, ghosts
    <3>2. Phases'
      BY ZenonT(60), <3>1 DEF ImageIInv, Phases, Initializing,
           Growing, Inspected, Backing, FilesystemIdentity
    <3>3. size' \in Nat BY ZenonT(60), <3>1 DEF ImageIInv, Shapes
    <3> QED BY ZenonT(60), <3>1, <3>2, <3>3, LoopQuiet DEF ghosts
  <2>2. CASE Fails BY ZenonT(60), <2>2, LoopEndStep DEF Fails
  <2>3. CASE ImageNext
    BY ZenonT(60), <2>2, <2>3, LoopCheckStep, LoopAttachStep, LoopRefreshStep,
         LoopAdministratorStep, LoopCreateStep, LoopFormatStep,
       LoopGrowStep, LoopResizeStep, LoopMarkerStep, LoopMountStep, LoopReplaceStep DEF ImageNext
  <2> QED BY ZenonT(60), <2>1, <2>3
<1> QED BY <1>1, <1>2, PTL DEF ImageSpec

\* No filesystem is ever formatted over by FormatBtrfs, unless its device was rebound
\* after it was inspected.
THEOREM NothingIsWiped == ASSUME LoopConstants PROVE ImageSpec => []NothingWiped
<1>1. ImageIInv => NothingWiped BY ZenonT(60) DEF ImageIInv
<1> QED BY LoopInvariance, <1>1, PTL

\* A marker that can be read names the filesystem of the image beside it.
THEOREM MarkersTrue == ASSUME LoopConstants PROVE ImageSpec => []MarkerTrue
<1>1. ImageIInv => MarkerTrue BY ZenonT(60) DEF ImageIInv
<1> QED BY LoopInvariance, <1>1, PTL

\* What the helper mounts is what its marker names.
THEOREM MountsVerified == ASSUME LoopConstants PROVE ImageSpec => []MountedVerified
<1>1. ImageIInv => MountedVerified BY ZenonT(60) DEF ImageIInv
<1> QED BY LoopInvariance, <1>1, PTL

\* However often growing stops half-way, a mounted filesystem fits its device and
\* the device its file.
THEOREM ImagesGrowInOrder == ASSUME LoopConstants PROVE ImageSpec => []GrownInOrder
<1>1. ImageIInv => GrownInOrder
  <2> SUFFICES ASSUME ImageIInv, mounted # Unset PROVE GrownInOrder
    BY Zenon DEF GrownInOrder
  <2>1. mounted.device \in Device /\ loop[mounted.device] # Unset
    BY Zenon DEF ImageIInv, Shapes
  <2>2. loop[mounted.device].capacity <= imageFile[Backing(mounted.device)].size
    BY ZenonT(60), <2>1, LoopParts DEF ImageIInv, Backed
  <2>3. imageFile[Backing(mounted.device)].fs.size <= loop[mounted.device].capacity
    BY Zenon DEF ImageIInv, MountedSound
  <2> QED BY Zenon, <2>2, <2>3 DEF GrownInOrder
<1> QED BY LoopInvariance, <1>1, PTL

-----------------------------------------------------------------------------
(* The types of the helper's variables.                                    *)

\* Every size is one of ImageSize, and so is the one a grow was asked for.
LoopSized ==
  /\ \A p \in {Image, Foreign} : imageFile[p] # Unset => imageFile[p].size \in ImageSize
  /\ \A d \in Device : loop[d] # Unset => loop[d].capacity \in ImageSize
  /\ helperStep \in Growing => size \in ImageSize

\* The helper's position, and what is counted.
LoopCounted ==
  /\ helperStep \in HelperSteps /\ device \in Device \cup {Unset}
  /\ uuids \in 0 .. MaxUuid /\ imageFaults \in 0 .. MaxImageFaults
  /\ rebound \in BOOLEAN /\ replaced \in BOOLEAN

\* Attaching a loop device gives it the size of its file.
LEMMA LoopSizedAttach ==
  ASSUME ImageIInv, LoopSized, AttachLoop(Image), imageFile[Image] # Unset
  PROVE  /\ device' \in Device
         /\ \A d \in Device : loop'[d] # Unset => loop'[d].capacity \in ImageSize
<1>1. PICK d \in Device : /\ device' = d
                          /\ \/ loop' = loop
                             \/ loop' = [loop EXCEPT ![d] = [path |-> Image, capacity |-> imageFile[Image].size]]
  BY Zenon DEF AttachLoop
<1>2. imageFile[Image].size \in ImageSize BY Zenon DEF LoopSized
<1>3. [path |-> Image, capacity |-> imageFile[Image].size].capacity = imageFile[Image].size BY Zenon
<1> QED BY Zenon, <1>1, <1>2, <1>3 DEF LoopSized, ImageIInv, Shapes

\* The steps of the helper keep the sizes.
LEMMA LoopSizedStep ==
  ASSUME LoopConstants, ImageIInv, LoopSized, [ImageNext]_imageVars
  PROVE  LoopSized'
<1>0. /\ imageFile \in [{Image, Foreign} -> ImageFile \cup {Unset}]
      /\ loop \in [Device -> Association \cup {Unset}] /\ Image # Foreign
  BY Zenon DEF ImageIInv, Shapes, Image, Foreign
<1>1. ASSUME UNCHANGED <<imageFile, loop>>, helperStep' \in Growing => size' \in ImageSize PROVE LoopSized'
  BY Zenon, <1>1 DEF LoopSized
<1>2. ASSUME UNCHANGED imageFile, \A d \in Device : loop'[d] # Unset => loop'[d].capacity \in ImageSize,
             helperStep' \in Growing => size' \in ImageSize
      PROVE  LoopSized'
  BY Zenon, <1>2 DEF LoopSized
<1>3. ASSUME UNCHANGED loop, \A p \in {Image, Foreign} : imageFile'[p] # Unset => imageFile'[p].size \in ImageSize,
             helperStep' \notin Growing
      PROVE  LoopSized'
  BY Zenon, <1>3 DEF LoopSized
<1>4. ASSUME NEW s \in ImageSize, CreateImage(s) PROVE LoopSized'
  <2>1. imageFile' = [imageFile EXCEPT ![Image] = [size |-> s, fs |-> Unset]] /\ UNCHANGED loop
        /\ helperStep' \notin Growing
    BY Zenon, <1>4 DEF CreateImage, At, Growing
  <2>2. [size |-> s, fs |-> Unset].size = s BY Zenon
  <2> QED BY Zenon, <1>0, <1>3, <2>1, <2>2 DEF LoopSized
<1>5. ASSUME NEW s \in ImageSize, StartGrow(s) PROVE LoopSized'
  BY Zenon, <1>1, <1>5 DEF StartGrow
<1>6. CASE InitAttach
  BY Zenon, <1>2, <1>6, LoopSizedAttach DEF InitAttach, At, Growing
<1>7. CASE InitInspect \/ StartMount \/ InspectLoopBacking("mount inspect", "mount verify")
        \/ VerifyLoopIdentity("mount verify", "mount")
  BY Zenon, <1>1, <1>7 DEF InitInspect, StartMount, InspectLoopBacking, VerifyLoopIdentity, At, Growing
<1>8. CASE InspectLoopBacking("grow inspect", "grow verify") \/ VerifyLoopIdentity("grow verify", "truncate")
  BY Zenon, <1>1, <1>8 DEF InspectLoopBacking, VerifyLoopIdentity, At, Growing, LoopSized
<1>9. CASE FormatBtrfs
  <2>1. PICK p \in {Image, Foreign} : imageFile[p] # Unset /\ \E x : imageFile' = [imageFile EXCEPT ![p].fs = x]
    <3>1. Backing(device) # Unset /\ imageFile[Backing(device)] # Unset BY Zenon, <1>9 DEF FormatBtrfs
    <3>2. device \in Device BY Zenon, <1>9 DEF FormatBtrfs, At, ImageIInv, Phases
    <3>3. Backing(device) \in {Image, Foreign} BY Zenon, <3>1, <3>2, LoopParts DEF ImageIInv
    <3> QED BY Zenon, <1>9, <3>1, <3>3 DEF FormatBtrfs
  <2>2. imageFile[p] \in ImageFile BY Zenon, <1>0, <2>1
  <2>3. imageFile'[p].size = imageFile[p].size /\ \A q \in {Image, Foreign} \ {p} : imageFile'[q] = imageFile[q]
    BY ONLY <1>0, <2>1, <2>2 DEF ImageFile
  <2>4. UNCHANGED loop /\ helperStep' \notin Growing BY Zenon, <1>9 DEF FormatBtrfs, At, Growing
  <2> QED BY Zenon, <1>3, <2>1, <2>3, <2>4 DEF LoopSized
<1>10. CASE WriteInstanceMarker \/ Mount \/ Fails
  BY Zenon, <1>1, <1>10 DEF WriteInstanceMarker, Mount, Fails, EndHelper, Growing
<1>11. ASSUME AttachOrReuse("mount find", "mount inspect", "mount verify") PROVE LoopSized'
  <2>1. /\ UNCHANGED imageFile /\ imageFile[Image] # Unset /\ helperStep' \notin Growing
        /\ UNCHANGED loop \/ AttachLoop(Image)
    BY Zenon, <1>11 DEF AttachOrReuse, EndHelper, Growing
  <2>2. \A d \in Device : loop'[d] # Unset => loop'[d].capacity \in ImageSize
    BY Zenon, <2>1, LoopSizedAttach DEF LoopSized
  <2> QED BY Zenon, <1>2, <2>1, <2>2
<1>12. ASSUME AttachOrReuse("grow find", "grow inspect", "grow verify") PROVE LoopSized'
  <2>1. /\ UNCHANGED imageFile /\ imageFile[Image] # Unset /\ (helperStep' \in Growing => UNCHANGED size)
        /\ UNCHANGED loop \/ AttachLoop(Image)
    BY Zenon, <1>12 DEF AttachOrReuse, EndHelper, Growing
  <2>2. \A d \in Device : loop'[d] # Unset => loop'[d].capacity \in ImageSize
    BY Zenon, <2>1, LoopSizedAttach DEF LoopSized
  <2>3. size \in ImageSize BY Zenon, <1>12 DEF AttachOrReuse, LoopSized, Growing
  <2> QED BY Zenon, <1>2, <2>1, <2>2, <2>3
<1>13. CASE GrowImage
  <2>1. imageFile' = [imageFile EXCEPT ![Image].size = size] /\ imageFile[Image] # Unset /\ UNCHANGED loop
        /\ helperStep' \notin Growing /\ size \in ImageSize
    BY Zenon, <1>13 DEF GrowImage, At, Growing, LoopSized
  <2>2. imageFile[Image] \in ImageFile BY Zenon, <1>0, <2>1
  <2>3. imageFile'[Image].size = size /\ imageFile'[Foreign] = imageFile[Foreign]
    BY ONLY <1>0, <2>1, <2>2 DEF ImageFile
  <2> QED BY Zenon, <1>3, <2>1, <2>3 DEF LoopSized
<1>14. CASE RefreshLoopCapacity
  <2>1. /\ Backing(device) # Unset /\ imageFile[Backing(device)] # Unset /\ UNCHANGED imageFile
        /\ loop' = [loop EXCEPT ![device].capacity = imageFile[Backing(device)].size] /\ helperStep' \notin Growing
    BY Zenon, <1>14 DEF RefreshLoopCapacity, At, Growing
  <2>2. device \in Device BY Zenon, <1>14 DEF RefreshLoopCapacity, At, ImageIInv, Phases
  <2>3. loop[device] # Unset /\ loop[device] \in Association /\ Backing(device) \in {Image, Foreign}
    BY Zenon, <1>0, <2>1, <2>2, LoopParts DEF ImageIInv
  <2>4. imageFile[Backing(device)].size \in ImageSize BY Zenon, <2>1, <2>3 DEF LoopSized
  <2>5. PICK n : n = imageFile[Backing(device)].size BY Zenon
  <2>6. loop' = [loop EXCEPT ![device].capacity = n] BY Zenon, <2>1, <2>5
  <2>7. loop'[device].capacity = n /\ \A d \in Device \ {device} : loop'[d] = loop[d]
    BY ONLY <1>0, <2>2, <2>3, <2>6 DEF Association
  <2> QED BY Zenon, <1>2, <2>1, <2>4, <2>5, <2>7 DEF LoopSized
<1>15. CASE ResizeFilesystem
  <2>1. mounted # Unset /\ UNCHANGED loop /\ helperStep' \notin Growing
    BY Zenon, <1>15 DEF ResizeFilesystem, EndHelper, Growing
  <2>2. Backing(mounted.device) \in {Image, Foreign} /\ imageFile[Backing(mounted.device)] # Unset
    BY Zenon, <2>1, LoopParts DEF ImageIInv, Shapes, Backed
  <2>3. PICK p \in {Image, Foreign} : imageFile[p] # Unset /\ \E x : imageFile' = [imageFile EXCEPT ![p].fs.size = x]
    BY Zenon, <1>15, <2>2 DEF ResizeFilesystem
  <2>4. imageFile[p] \in ImageFile BY Zenon, <1>0, <2>3
  <2>5. imageFile'[p].size = imageFile[p].size /\ \A q \in {Image, Foreign} \ {p} : imageFile'[q] = imageFile[q]
    BY ONLY <1>0, <2>3, <2>4 DEF ImageFile
  <2> QED BY Zenon, <1>3, <2>1, <2>3, <2>5 DEF LoopSized
<1>16. ASSUME NEW d \in Device, NEW p \in {Image, Foreign}, Attach(d, p) PROVE LoopSized'
  <2>1. [path |-> p, capacity |-> imageFile[p].size].capacity = imageFile[p].size BY Zenon
  <2> QED BY Zenon, <1>0, <1>2, <1>16, <2>1 DEF Attach, LoopSized, helper
<1>17. CASE Replace
  <2>1. UNCHANGED loop /\ helperStep' \notin Growing BY Zenon, <1>17 DEF Replace, helper, Growing
  <2> QED BY Zenon, <1>0, <1>3, <1>17, <2>1 DEF Replace, LoopSized
<1>18. CASE Unmount BY Zenon, <1>1, <1>18 DEF Unmount, helper, LoopSized
<1>19. CASE Reboot BY Zenon, <1>2, <1>19 DEF Reboot, EndHelper, Growing
<1>20. CASE UNCHANGED imageVars BY Zenon, <1>1, <1>20 DEF imageVars, helper, LoopSized
<1> QED
  BY Zenon, <1>4, <1>5, <1>6, <1>7, <1>8, <1>9, <1>10, <1>11, <1>12, <1>13, <1>14, <1>15, <1>16,
       <1>17, <1>18, <1>19, <1>20 DEF ImageNext

\* The helper stays in its steps, on its devices and within the bounds.
LEMMA LoopCountedStep ==
  ASSUME LoopConstants, ImageIInv, LoopSized, LoopCounted, [ImageNext]_imageVars
  PROVE  LoopCounted'
<1>1. ASSUME NEW s \in ImageSize, CreateImage(s) \/ StartGrow(s) PROVE LoopCounted'
  BY Zenon, <1>1 DEF CreateImage, StartGrow, At, LoopCounted, HelperSteps, ghosts
<1>2. CASE InitAttach
  BY Zenon, <1>2, LoopSizedAttach DEF InitAttach, At, LoopCounted, HelperSteps, ghosts
<1>3. CASE InitInspect \/ StartMount \/ GrowImage \/ RefreshLoopCapacity
  BY Zenon, <1>3 DEF InitInspect, StartMount, GrowImage, RefreshLoopCapacity, At, LoopCounted,
       HelperSteps, ghosts
<1>4. CASE FormatBtrfs
  <2>0. uuids < MaxUuid /\ uuids' = uuids + 1 BY Zenon, <1>4 DEF FormatBtrfs
  <2>1. uuids' \in 0 .. MaxUuid BY <2>0 DEF LoopCounted, LoopConstants
  <2> QED BY Zenon, <1>4, <2>1 DEF FormatBtrfs, At, LoopCounted, HelperSteps
<1>5. CASE WriteInstanceMarker \/ Mount \/ ResizeFilesystem \/ Fails
  BY Zenon, <1>5 DEF WriteInstanceMarker, Mount, ResizeFilesystem, Fails, EndHelper, LoopCounted,
       HelperSteps, ghosts
<1>6. ASSUME NEW find, NEW inspect \in HelperSteps, NEW verify \in HelperSteps,
             AttachOrReuse(find, inspect, verify)
      PROVE  LoopCounted'
  BY Zenon, <1>6, LoopSizedAttach DEF AttachOrReuse, EndHelper, LoopCounted, HelperSteps, ghosts
<1>7. ASSUME NEW inspect, NEW verify \in HelperSteps,
             InspectLoopBacking(inspect, verify) \/ VerifyLoopIdentity(inspect, verify)
      PROVE  LoopCounted'
  BY Zenon, <1>7 DEF InspectLoopBacking, VerifyLoopIdentity, At, LoopCounted, ghosts
<1>8. ASSUME Act PROVE imageFaults' \in 0 .. MaxImageFaults BY <1>8 DEF Act, LoopCounted, LoopConstants
<1>9. ASSUME NEW d \in Device, NEW p \in {Image, Foreign}, Attach(d, p) PROVE LoopCounted'
  <2>1. rebound' \in BOOLEAN BY <1>9 DEF Attach
  <2> QED BY Zenon, <1>8, <1>9, <2>1 DEF Attach, LoopCounted, helper
<1>10. CASE Replace BY Zenon, <1>8, <1>10 DEF Replace, LoopCounted, helper
<1>11. CASE Unmount \/ UNCHANGED imageVars
  BY Zenon, <1>11 DEF Unmount, imageVars, LoopCounted, helper, ghosts
<1>12. CASE Reboot BY Zenon, <1>8, <1>12 DEF Reboot, EndHelper, LoopCounted, HelperSteps, ghosts
<1>13. {"mount inspect", "grow inspect", "mount verify", "grow verify", "mount", "truncate"} \subseteq HelperSteps
  BY DEF HelperSteps
<1> QED
  BY ZenonT(60), <1>1, <1>2, <1>3, <1>4, <1>5, <1>6, <1>7, <1>9, <1>10, <1>11, <1>12, <1>13 DEF ImageNext

\* The variables of the helper have their types.
LEMMA LoopTypes == ImageSpec => []ImageTypeOK
<1>1. ImageInit => LoopSized /\ LoopCounted
  <2> SUFFICES ASSUME ImageInit PROVE LoopSized /\ LoopCounted BY Zenon
  <2> DEFINE f == [size |-> 2, fs |-> [uuid |-> 0, label |-> Label, size |-> 2]]
  <2>1. /\ imageFile = [p \in {Image, Foreign} |-> IF p = Image THEN Unset ELSE f]
        /\ loop = [d \in Device |-> Unset] /\ helperStep = "idle" /\ device = Unset
        /\ rebound = FALSE /\ replaced = FALSE
    BY Zenon DEF ImageInit
  <2>2. 0 \in 0 .. MaxUuid /\ 0 \in 0 .. MaxImageFaults /\ 2 \in ImageSize
    BY LoopAssumption DEF LoopConstants
  <2>3. f.size = 2 BY Zenon
  <2> HIDE DEF f
  <2>4. LoopSized BY Zenon, <2>1, <2>2, <2>3 DEF LoopSized, Growing
  <2> QED BY Zenon, <2>1, <2>2, <2>4 DEF ImageInit, LoopCounted, HelperSteps
<1>2. ImageIInv /\ LoopSized /\ LoopCounted /\ [ImageNext]_imageVars => LoopSized' /\ LoopCounted'
  BY Zenon, LoopAssumption, LoopSizedStep, LoopCountedStep
<1>3. ImageSpec => []ImageIInv BY Zenon, LoopAssumption, LoopInvariance
<1>4. ImageIInv /\ LoopSized /\ LoopCounted => ImageTypeOK
  <2> SUFFICES ASSUME ImageIInv, LoopSized, LoopCounted PROVE ImageTypeOK BY Zenon
  <2>1. DOMAIN imageFile = {Image, Foreign} /\ DOMAIN loop = Device BY Zenon DEF ImageIInv, Shapes
  <2>2. \A d \in Device : loop[d] # Unset => loop[d].path \in {Image, Foreign} BY Zenon, LoopParts DEF ImageIInv
  <2> QED BY Zenon, <2>1, <2>2 DEF ImageTypeOK, LoopSized, LoopCounted
<1> QED BY <1>1, <1>2, <1>3, <1>4, PTL DEF ImageSpec

\* The helper formats nothing over, mounts only what its marker truly names, and
\* grows in order, for any devices, sizes, reboots and doings of the administrator.
THEOREM ImagesSafe == ImageSpec => []ImageSafe
<1>1. ImageSpec => []NothingWiped BY Zenon, LoopAssumption, NothingIsWiped
<1>2. ImageSpec => []MarkerTrue BY Zenon, LoopAssumption, MarkersTrue
<1>3. ImageSpec => []MountedVerified BY Zenon, LoopAssumption, MountsVerified
<1>4. ImageSpec => []GrownInOrder BY Zenon, LoopAssumption, ImagesGrowInOrder
<1> QED BY <1>1, <1>2, <1>3, <1>4, LoopTypes, PTL DEF ImageSafe
=============================================================================
