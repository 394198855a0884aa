------------------------ MODULE CacheAdmissionProofs ------------------------
(***************************************************************************)
(* Proofs about reserve admission, for any number of clients, coordinators *)
(* and entries and any reserves.                                           *)
(*                                                                         *)
(* OneAdmission and ReservesKept follow from an inductive invariant of     *)
(* three parts: the free space stays within the domains, a client past its *)
(* first measurement holds its coordinator's lock, and, while nobody       *)
(* intruded, what was admitted is still admissible.  The last part needs   *)
(* the first: eviction gives back space only up to the size of a domain.   *)
(* EvictionMinimal follows from EvictionIInv: while no two passes meet,    *)
(* one client is active, what it evicted precedes what is left, and its    *)
(* target is what there was less what is required.                         *)
(*                                                                         *)
(* The last part is about another service of the daemon, its log of        *)
(* operation events, for any number of events and faults.                  *)
(***************************************************************************)
EXTENDS CacheAdmission, Sequences, StructuredLog, FiniteSetTheorems, WellFoundedInduction, TLAPS

Phases == {"idle", "usage", "scan", "evict", "remeasure", "operate"}

Space ==
  /\ host \in 0 .. HostBytes /\ guest \in 0 .. GuestBytes
  /\ cached \subseteq Entry
  /\ phase \in [Client -> Phases]
  /\ projected \in [Client -> 0 .. MaxProjected]
  /\ holder \in [Coordinator -> Client \cup {Nobody}]
  /\ intruded \in BOOLEAN

Locked ==
  \A c \in Client :
    phase[c] \in {"usage", "remeasure", "operate"} => holder[CoordinatorOf[c]] = c

StillAdmissible ==
  ~intruded => \A c \in Client : phase[c] = "operate" => Admit(host, guest, projected[c])

IInv == Space /\ Locked /\ StillAdmissible

\* More free space never turns an admission into a refusal.
LEMMA AdmitMonotonic ==
  ASSUME NEW h \in Nat, NEW g \in Nat, NEW h2 \in Nat, NEW g2 \in Nat, NEW p \in Nat,
         h <= h2, g <= g2, Admit(h, g, p)
  PROVE  Admit(h2, g2, p)
BY BytesAssumption DEF Admit, Shortfall, Minus

\* An admitted allocation leaves a reserve untouched, also the empty reserve, for
\* which any projected allocation is admitted.
LEMMA AdmittedKeepsReserve ==
  ASSUME NEW h \in Nat, NEW g \in Nat, NEW p \in Nat, Admit(h, g, p),
         NEW h2 \in h - Least(h, p) .. h, NEW g2 \in g - Least(g, p) .. g
  PROVE  h2 >= HostReserve /\ g2 >= GuestReserve
BY BytesAssumption DEF Admit, Shortfall, Minus, Least

\* No operation takes more than was projected.
LEMMA TakenWithin ==
  ASSUME NEW c \in Client, projected[c] \in Nat, NEW n \in Nat, NEW n2 \in Taken(n, c)
  PROVE  n2 \in n - Least(n, projected[c]) .. n
BY DEF Taken, Least

\* The initial states satisfy the invariant.
LEMMA InitIInv == AdmissionInit => IInv
<1>1. SUFFICES ASSUME AdmissionInit PROVE IInv
  OBVIOUS
<1>2. 0 \in 0 .. MaxProjected
  BY BytesAssumption
<1>3. Space
  BY Zenon, <1>1, <1>2 DEF AdmissionInit, Space, Phases
<1>4. \A c \in Client : phase[c] = "idle"
  BY <1>1 DEF AdmissionInit
<1>5. QED
  BY <1>3, <1>4 DEF IInv, Locked, StillAdmissible

\* The types of a step that only lets a client return.
LEMMA ReturnKeepsLocks ==
  ASSUME Space, Locked, NEW c \in Client, EndAdmission(c)
  PROVE  /\ phase' \in [Client -> Phases] /\ projected' \in [Client -> 0 .. MaxProjected]
         /\ holder' \in [Coordinator -> Client \cup {Nobody}]
         /\ Locked'
         /\ phase' = [phase EXCEPT ![c] = "idle"]
         /\ \A d \in Client \ {c} : projected'[d] = projected[d]
<1>1. phase' = [phase EXCEPT ![c] = "idle"]
  BY DEF EndAdmission, Proceed
<1>2. phase' \in [Client -> Phases]
  BY <1>1 DEF Space, Phases
<1>3. projected' \in [Client -> 0 .. MaxProjected] /\ \A d \in Client \ {c} : projected'[d] = projected[d]
  BY BytesAssumption DEF EndAdmission, Space
<1>4. holder' \in [Coordinator -> Client \cup {Nobody}]
  BY Zenon, ClientAssumption DEF EndAdmission, Release, Space
<1>5. Locked'
  <2>1. SUFFICES ASSUME NEW d \in Client, phase'[d] \in {"usage", "remeasure", "operate"}
                 PROVE  holder'[CoordinatorOf[d]] = d
    BY DEF Locked
  <2>2. d # c /\ phase[d] = phase'[d]
    BY <1>1, <2>1 DEF Space
  <2>3. holder[CoordinatorOf[d]] = d
    BY <2>1, <2>2 DEF Locked
  <2>4. QED
    BY <2>2, <2>3, ClientAssumption DEF EndAdmission, Release, Space
<1>6. QED
  BY <1>1, <1>2, <1>3, <1>4, <1>5

\* Every step preserves the invariant.
LEMMA NextIInv == IInv /\ [AdmissionNext]_admissionVars => IInv'
<1>0. SUFFICES ASSUME IInv, [AdmissionNext]_admissionVars PROVE IInv'
  OBVIOUS
<1>a. Space /\ Locked /\ StillAdmissible
  BY <1>0 DEF IInv
<1>1. ASSUME NEW c \in Client, NEW p \in 0 .. MaxProjected, NEW op, Request(c, p, op)
      PROVE  IInv'
  <2>1. UNCHANGED <<host, guest, cached, intruded>>
        /\ phase' = [phase EXCEPT ![c] = IF Admit(host, guest, p) THEN "operate" ELSE "usage"]
        /\ projected' = [projected EXCEPT ![c] = p]
        /\ holder' = [holder EXCEPT ![CoordinatorOf[c]] = c]
        /\ holder[CoordinatorOf[c]] = Nobody
    BY <1>1 DEF Request, space, Proceed
  <2>2. Space'
    BY Zenon, <1>1, <1>a, <2>1, ClientAssumption DEF Space, Phases
  <2>3. Locked'
    <3>1. SUFFICES ASSUME NEW d \in Client, phase'[d] \in {"usage", "remeasure", "operate"}
                   PROVE  holder'[CoordinatorOf[d]] = d
      BY DEF Locked
    <3>2. CASE d = c
      BY <3>2, <2>1, <1>a, ClientAssumption DEF Space
    <3>3. CASE d # c
      <4>1. holder[CoordinatorOf[d]] = d
        BY <3>1, <3>3, <2>1, <1>a DEF Space, Locked
      <4>2. CoordinatorOf[d] # CoordinatorOf[c]
        BY <4>1, <2>1, ClientAssumption
      <4>3. QED
        BY <4>1, <4>2, <2>1, <1>a, ClientAssumption DEF Space
    <3>4. QED
      BY <3>2, <3>3
  <2>4. StillAdmissible'
    <3>1. SUFFICES ASSUME ~intruded, NEW d \in Client, phase'[d] = "operate"
                   PROVE  Admit(host, guest, projected'[d])
      BY <2>1 DEF StillAdmissible, Admit
    <3>2. CASE d = c
      <4>1. Admit(host, guest, p)
        BY <3>1, <3>2, <2>1, <1>a DEF Space
      <4>2. projected'[d] = p
        BY <3>2, <2>1, <1>a DEF Space
      <4>3. QED
        BY <4>1, <4>2
    <3>3. CASE d # c
      BY <3>1, <3>3, <2>1, <1>a DEF Space, StillAdmissible
    <3>4. QED
      BY <3>2, <3>3
  <2>5. QED
    BY <2>2, <2>3, <2>4 DEF IInv
<1>2. ASSUME NEW c \in Client, UNCHANGED <<host, guest, cached, holder, projected, intruded>>,
             NEW q \in {"scan", "evict"}, phase' = [phase EXCEPT ![c] = q]
      PROVE  IInv'
  <2>1. Space'
    BY <1>2, <1>a DEF Space, Phases
  <2>2. Locked'
    BY <1>2, <1>a DEF Space, Locked
  <2>3. StillAdmissible'
    BY <1>2, <1>a DEF Space, StillAdmissible, Admit
  <2>4. QED
    BY <2>1, <2>2, <2>3 DEF IInv
<1>3. ASSUME NEW c \in Client, EvictEntry(c)
      PROVE  IInv'
  <2>1. UNCHANGED <<holder, phase, projected, intruded>>
    BY <1>3 DEF EvictEntry, ledger
  <2>2. /\ host' \in 0 .. HostBytes /\ guest' \in 0 .. GuestBytes
        /\ host <= host' /\ guest <= guest' /\ cached' \subseteq Entry
    <3>1. CASE UNCHANGED <<space, cached>>
      BY <3>1, <1>a, BytesAssumption DEF Space, space
    <3>2. CASE \E e \in cached : /\ cached' = cached \ {e}
                                 /\ host' \in {host, Least(host + Size[e], HostBytes)}
                                 /\ guest' \in {guest, Least(guest + Size[e], GuestBytes)}
      <4>1. PICK e \in cached : /\ cached' = cached \ {e}
                                /\ host' \in {host, Least(host + Size[e], HostBytes)}
                                /\ guest' \in {guest, Least(guest + Size[e], GuestBytes)}
        BY <3>2
      <4>2. Size[e] \in Nat
        BY <4>1, <1>a, BytesAssumption DEF Space
      <4>3. QED
        BY <4>1, <4>2, <1>a, BytesAssumption DEF Space, Least
    <3>3. QED
      BY <1>3, <3>1, <3>2 DEF EvictEntry
  <2>3. Space' /\ Locked'
    BY <2>1, <2>2, <1>a DEF Space, Locked
  <2>4. StillAdmissible'
    <3>1. SUFFICES ASSUME ~intruded, NEW d \in Client, phase[d] = "operate"
                   PROVE  Admit(host', guest', projected[d])
      BY <2>1 DEF StillAdmissible, Admit
    <3>2. Admit(host, guest, projected[d])
      BY <3>1, <1>a DEF StillAdmissible
    <3>3. /\ host \in Nat /\ guest \in Nat /\ host' \in Nat /\ guest' \in Nat
          /\ projected[d] \in Nat /\ host <= host' /\ guest <= guest'
      BY <2>2, <1>a, BytesAssumption DEF Space
    <3>4. QED
      BY <3>2, <3>3, AdmitMonotonic
  <2>5. QED
    BY SMTT(60), <2>3, <2>4 DEF IInv
<1>4. ASSUME NEW c \in Client, EndAdmission(c), UNCHANGED <<host, guest, cached, intruded>>
      PROVE  IInv'
  <2>1. Space' /\ Locked'
    BY <1>4, <1>a, ReturnKeepsLocks DEF Space
  <2>2. StillAdmissible'
    <3>1. SUFFICES ASSUME ~intruded, NEW d \in Client, phase'[d] = "operate"
                   PROVE  Admit(host, guest, projected'[d])
      BY <1>4 DEF StillAdmissible, Admit
    <3>2. d # c /\ phase[d] = "operate" /\ projected'[d] = projected[d]
      BY <1>4, <1>a, <3>1, ReturnKeepsLocks DEF Space
    <3>3. QED
      BY <3>1, <3>2, <1>a DEF StillAdmissible
  <2>3. QED
    BY <2>1, <2>2 DEF IInv
<1>5. ASSUME NEW c \in Client, UNCHANGED <<host, guest, cached, holder, projected, intruded>>,
             Holds(c), phase' = [phase EXCEPT ![c] = "remeasure"]
      PROVE  IInv'
  <2>1. Space'
    BY <1>5, <1>a DEF Space, Phases
  <2>2. Locked'
    BY <1>5, <1>a DEF Space, Locked, Holds
  <2>3. StillAdmissible'
    BY <1>5, <1>a DEF Space, StillAdmissible, Admit
  <2>4. QED
    BY <2>1, <2>2, <2>3 DEF IInv
<1>6. ASSUME NEW c \in Client, UNCHANGED <<host, guest, cached, holder, projected, intruded>>,
             phase[c] = "remeasure", Admit(host, guest, projected[c]),
             phase' = [phase EXCEPT ![c] = "operate"]
      PROVE  IInv'
  <2>1. Space'
    BY <1>6, <1>a DEF Space, Phases
  <2>2. Locked'
    BY <1>6, <1>a DEF Space, Locked
  <2>3. StillAdmissible'
    BY <1>6, <1>a DEF Space, StillAdmissible, Admit
  <2>4. QED
    BY <2>1, <2>2, <2>3 DEF IInv
<1>7. ASSUME NEW c \in Client, Operate(c)
      PROVE  IInv'
  <2>1. EndAdmission(c) /\ phase[c] = "operate" /\ intruded' = (intruded \/ Concurrent(c))
    BY <1>7 DEF Operate
  <2>2. host' \in 0 .. HostBytes /\ guest' \in 0 .. GuestBytes
    <3>1. projected[c] \in Nat /\ host \in 0 .. HostBytes /\ guest \in 0 .. GuestBytes
      BY <1>a, BytesAssumption DEF Space
    <3>2. /\ host' \in host - Least(host, projected[c]) .. host
          /\ guest' \in guest - Least(guest, projected[c]) .. guest
      BY <1>7, <3>1, TakenWithin DEF Operate
    <3>3. QED
      BY <3>1, <3>2, BytesAssumption DEF Least
  <2>3. cached' \subseteq Entry
    BY <1>7, <1>a, Zenon DEF Operate, Space
  <2>4. intruded' \in BOOLEAN
    BY <2>1, <1>a, Zenon DEF Space
  <2>5. Space' /\ Locked'
    BY <2>1, <2>2, <2>3, <2>4, <1>a, ReturnKeepsLocks DEF Space
  <2>6. StillAdmissible'
    <3>1. SUFFICES ASSUME ~intruded', NEW d \in Client, phase'[d] = "operate"
                   PROVE  FALSE
      BY DEF StillAdmissible
    <3>2. d # c /\ phase[d] = "operate"
      BY <2>1, <1>a, <3>1, ReturnKeepsLocks DEF Space
    <3>3. Concurrent(c)
      BY <3>2 DEF Concurrent
    <3>4. QED
      BY Zenon, <3>1, <3>3, <2>1
  <2>7. QED
    BY <2>5, <2>6 DEF IInv
<1>8. ASSUME NEW n \in 1 .. MaxOther, Allocate(n)
      PROVE  IInv'
  <2>1. UNCHANGED <<cached, holder, phase, projected>> /\ intruded' = TRUE
    BY <1>8 DEF Allocate, admission
  <2>2. host' \in 0 .. HostBytes /\ guest' \in 0 .. GuestBytes
    BY <1>8, <1>a, BytesAssumption DEF Allocate, Space
  <2>3. QED
    BY <2>1, <2>2, <1>a DEF IInv, Space, Locked, StillAdmissible
<1>9. CASE UNCHANGED admissionVars
  <2>1. UNCHANGED <<host, guest, cached, holder, phase, projected, intruded>>
    BY <1>9 DEF admissionVars, space, admission, ledger
  <2>2. QED
    BY <2>1, <1>a DEF IInv, Space, Locked, StillAdmissible, Admit
<1>10. ASSUME NEW c \in Client,
              ChooseTarget(c) \/ Scan(c) \/ EvictEntry(c) \/ EndPass(c) \/ Remeasure(c) \/ Operate(c)
       PROVE  IInv'
  <2>1. CASE ChooseTarget(c)
    BY Zenon, <2>1, <1>2 DEF ChooseTarget, Proceed, space, ledger
  <2>2. CASE Scan(c)
    BY Zenon, <2>2, <1>2 DEF Scan, Proceed, space, ledger
  <2>3. CASE EvictEntry(c)
    BY <2>3, <1>3
  <2>4. CASE EndPass(c)
    BY <2>4, <1>4, <1>5 DEF EndPass, Proceed, space, ledger
  <2>5. CASE Remeasure(c)
    BY <2>5, <1>4, <1>6 DEF Remeasure, Proceed, space, ledger
  <2>6. CASE Operate(c)
    BY <2>6, <1>7
  <2>7. QED
    BY <1>10, <2>1, <2>2, <2>3, <2>4, <2>5, <2>6
<1>11. ASSUME NEW c \in Client, NEW p, EvictTo(c, p)
       PROVE  IInv'
  BY Zenon, <1>11, <1>2 DEF EvictTo, Proceed, space
<1>12. ASSUME NEW c \in Client, NEW e \in Entry, PublishCacheBlob(c, e)
       PROVE  IInv'
  <2>1. Size[e] \in 0 .. MaxProjected /\ Request(c, Size[e], "publish")
    BY <1>12, BytesAssumption DEF PublishCacheBlob
  <2>2. QED
    BY <2>1, <1>1
<1>13. ASSUME NEW c \in Client, NEW p \in 0 .. MaxProjected,
              RelieveCachePressure(c, p) \/ AdmitWork(c, p)
       PROVE  IInv'
  BY <1>13, <1>1 DEF RelieveCachePressure, AdmitWork
<1>14. QED
  BY <1>0, <1>8, <1>9, <1>10, <1>11, <1>12, <1>13 DEF AdmissionNext

\* One coordinator's lock is held from the measurement to the end of the protected
\* operation, for any number of clients and coordinators.
THEOREM AdmissionExclusive == AdmissionSpec => []OneAdmission
<1>1. IInv => OneAdmission
  BY ClientAssumption DEF IInv, Locked, OneAdmission
<1>2. QED
  BY <1>1, InitIInv, NextIInv, PTL DEF AdmissionSpec

\* No step takes a domain below its reserve while nobody intrudes, for any
\* reserves, the empty one included.
THEOREM AdmissionKeepsReserves == AdmissionSpec => ReservesKept
<1>1. ASSUME IInv, [AdmissionNext]_admissionVars
      PROVE  [~intruded' => /\ host' < host => host' >= HostReserve
                            /\ guest' < guest => guest' >= GuestReserve]_admissionVars
  <2>1. SUFFICES ASSUME AdmissionNext, ~intruded', host' < host \/ guest' < guest
                 PROVE  host' >= HostReserve /\ guest' >= GuestReserve
    BY <1>1
  <2>2. ASSUME NEW c \in Client, Operate(c)
        PROVE  host' >= HostReserve /\ guest' >= GuestReserve
    <3>1. ~intruded /\ phase[c] = "operate"
      BY Zenon, <2>1, <2>2 DEF Operate
    <3>2. Admit(host, guest, projected[c])
      BY <1>1, <3>1 DEF IInv, StillAdmissible
    <3>3. host \in Nat /\ guest \in Nat /\ projected[c] \in Nat
      BY <1>1, BytesAssumption DEF IInv, Space
    <3>4. /\ host' \in host - Least(host, projected[c]) .. host
          /\ guest' \in guest - Least(guest, projected[c]) .. guest
      BY <2>2, <3>3, TakenWithin DEF Operate
    <3>5. QED
      BY SMTT(60), <3>2, <3>3, <3>4, AdmittedKeepsReserve
  <2>3. ASSUME NEW n \in 1 .. MaxOther, Allocate(n)
        PROVE  FALSE
    BY <2>1, <2>3 DEF Allocate
  <2>4. ASSUME NEW c \in Client, EvictEntry(c)
        PROVE  host <= host' /\ guest <= guest'
    <3>1. CASE UNCHANGED <<space, cached>>
      BY <3>1, <1>1, BytesAssumption DEF IInv, Space, space
    <3>2. CASE \E e \in cached : /\ host' \in {host, Least(host + Size[e], HostBytes)}
                                 /\ guest' \in {guest, Least(guest + Size[e], GuestBytes)}
      <4>1. PICK e \in cached : /\ host' \in {host, Least(host + Size[e], HostBytes)}
                                /\ guest' \in {guest, Least(guest + Size[e], GuestBytes)}
        BY <3>2
      <4>2. Size[e] \in Nat
        BY <4>1, <1>1, BytesAssumption DEF IInv, Space
      <4>3. QED
        BY <4>1, <4>2, <1>1, BytesAssumption DEF IInv, Space, Least
    <3>3. QED
      BY <2>4, <3>1, <3>2 DEF EvictEntry
  <2>5. ASSUME UNCHANGED space
        PROVE  FALSE
    BY <2>1, <2>5, <1>1, BytesAssumption DEF space, IInv, Space
  <2>6. ASSUME NEW c \in Client, NEW p, NEW op, Request(c, p, op) \/ EvictTo(c, p)
        PROVE  UNCHANGED space
    BY Zenon, <2>6 DEF Request, EvictTo
  <2>7. ASSUME NEW c \in Client, ChooseTarget(c) \/ Scan(c) \/ EndPass(c) \/ Remeasure(c)
        PROVE  UNCHANGED space
    BY <2>7 DEF ChooseTarget, Scan, EndPass, Remeasure, space
  <2>8. ASSUME NEW c \in Client, EvictEntry(c)
        PROVE  FALSE
    <3>1. host <= host' /\ guest <= guest'
      BY <2>4, <2>8
    <3>2. host' \in 0 .. HostBytes /\ guest' \in 0 .. GuestBytes /\ host \in Nat /\ guest \in Nat
      BY <1>1, NextIInv, BytesAssumption DEF IInv, Space
    <3>3. QED
      BY <3>1, <3>2, <2>1, BytesAssumption
  <2>9. QED
    BY Zenon, <2>1, <2>2, <2>3, <2>5, <2>6, <2>7, <2>8
       DEF AdmissionNext, RelieveCachePressure, AdmitWork, PublishCacheBlob
<1>2. QED
  BY <1>1, InitIInv, NextIInv, PTL DEF AdmissionSpec, ReservesKept

-----------------------------------------------------------------------------
(* A pass evicts no more than it must.  The entries' logical bytes are     *)
(* counted as a set, so a sum over entries is a cardinality.               *)

\* Finitely many entries have finitely many bytes.
LEMMA BytesCounted ==
  ASSUME NEW S \in SUBSET Entry
  PROVE  IsFiniteSet(BytesOf(S)) /\ LogicalBytes(S) \in Nat
<1>1. IsFiniteSet(S) BY Zenon, BytesAssumption, FS_Subset
<1> DEFINE part == [e \in S |-> {e} \X (1 .. Size[e])]
           parts == {{e} \X (1 .. Size[e]) : e \in S}
<1>2. part \in Surjection(S, parts)
  <2>1. part \in [S -> parts] BY Zenon
  <2>2. \A t \in parts : \E e \in S : part[e] = t BY Zenon
  <2> QED BY Zenon, <2>1, <2>2 DEF Surjection
<1>3. IsFiniteSet(parts) BY Zenon, <1>1, <1>2, FS_Surjection
<1>4. ASSUME NEW t \in parts PROVE IsFiniteSet(t)
  <2>1. PICK e \in S : t = {e} \X (1 .. Size[e]) BY Zenon
  <2>2. Size[e] \in Nat BY Zenon, BytesAssumption, <2>1
  <2>3. IsFiniteSet(1 .. Size[e]) BY <2>2, FS_Interval
  <2>4. IsFiniteSet({e}) BY Zenon, FS_Singleton
  <2> QED BY Zenon, <2>1, <2>3, <2>4, FS_Product
<1>5. IsFiniteSet(UNION parts) BY Zenon, <1>3, <1>4, FS_UNION
<1>6. IsFiniteSet(BytesOf(S)) BY Zenon, <1>5 DEF BytesOf
<1> QED BY Zenon, <1>6, FS_CardinalityType DEF LogicalBytes

\* One more entry adds its size.
LEMMA BytesAdded ==
  ASSUME NEW S \in SUBSET Entry, NEW e \in Entry \ S
  PROVE  LogicalBytes(S \cup {e}) = LogicalBytes(S) + Size[e]
<1> DEFINE own == {e} \X (1 .. Size[e])
<1>1. Size[e] \in Nat BY Zenon, BytesAssumption
<1>2. IsFiniteSet(1 .. Size[e]) /\ Cardinality(1 .. Size[e]) = Size[e]
  <2>1. /\ IsFiniteSet(1 .. Size[e])
        /\ Cardinality(1 .. Size[e]) = IF 1 > Size[e] THEN 0 ELSE Size[e] - 1 + 1
    BY <1>1, FS_Interval
  <2> QED BY ONLY SMTT(60), <1>1, <2>1
<1>3. IsFiniteSet({e}) /\ Cardinality({e}) = 1 BY Zenon, FS_Singleton
<1>4. IsFiniteSet(own) /\ Cardinality(own) = Size[e]
  <2>1. IsFiniteSet(own) /\ Cardinality(own) = Cardinality({e}) * Cardinality(1 .. Size[e])
    BY Zenon, <1>2, <1>3, FS_Product
  <2> HIDE DEF own
  <2> QED BY ONLY SMTT(60), <1>1, <1>2, <1>3, <2>1
<1>5. BytesOf(S \cup {e}) = BytesOf(S) \cup own
  <2>1. ASSUME NEW b \in BytesOf(S \cup {e}) PROVE b \in BytesOf(S) \cup own
    <3>1. PICK f \in S \cup {e} : b \in {f} \X (1 .. Size[f]) BY Zenon DEF BytesOf
    <3> QED BY Zenon, <3>1 DEF BytesOf
  <2>2. ASSUME NEW b \in BytesOf(S) PROVE b \in BytesOf(S \cup {e})
    <3>1. PICK f \in S : b \in {f} \X (1 .. Size[f]) BY Zenon DEF BytesOf
    <3> QED BY Zenon, <3>1 DEF BytesOf
  <2>3. own \subseteq BytesOf(S \cup {e}) BY Zenon DEF BytesOf
  <2> HIDE DEF own
  <2> QED BY Zenon, <2>1, <2>2, <2>3
<1>6. BytesOf(S) \cap own = {}
  <2> SUFFICES ASSUME NEW b \in BytesOf(S), b \in own PROVE FALSE BY Zenon
  <2>1. PICK f \in S : b \in {f} \X (1 .. Size[f]) BY Zenon DEF BytesOf
  <2>2. b[1] = f BY ONLY SMTT(60), <2>1
  <2>3. b[1] = e
    <3>1. b \in {e} \X (1 .. Size[e]) BY Zenon
    <3> QED BY ONLY SMTT(60), <3>1
  <2> QED BY Zenon, <2>1, <2>2, <2>3
<1>7. IsFiniteSet(BytesOf(S)) /\ LogicalBytes(S) \in Nat BY Zenon, BytesCounted
<1> HIDE DEF own
<1>8. Cardinality(BytesOf(S) \cup own) =
        Cardinality(BytesOf(S)) + Cardinality(own) - Cardinality(BytesOf(S) \cap own)
  BY Zenon, <1>4, <1>7, FS_Union
<1>9. Cardinality({}) = 0 BY Zenon, FS_EmptySet
<1>10. Cardinality(BytesOf(S)) \in Nat BY Zenon, <1>7 DEF LogicalBytes
<1>11. Cardinality(BytesOf(S) \cup own) = Cardinality(BytesOf(S)) + Size[e]
  <2>1. PICK n \in Nat, m \in Nat : n = Cardinality(BytesOf(S)) /\ m = Size[e] BY Zenon, <1>1, <1>10
  <2>2. Cardinality(BytesOf(S) \cup own) = n + m - 0 BY Zenon, <1>4, <1>6, <1>8, <1>9, <2>1
  <2>3. n + m - 0 = n + m OBVIOUS
  <2> QED BY Zenon, <2>1, <2>2, <2>3
<1> QED BY Zenon, <1>5, <1>11 DEF LogicalBytes

\* No entries, no bytes.
LEMMA BytesOfNone == LogicalBytes({}) = 0
<1>1. BytesOf({}) = {} BY Zenon DEF BytesOf
<1> QED BY Zenon, <1>1, FS_EmptySet DEF LogicalBytes

\* An entry that leaves takes its size along.
LEMMA BytesRemoved ==
  ASSUME NEW S \in SUBSET Entry, NEW e \in S
  PROVE  LogicalBytes(S) = LogicalBytes(S \ {e}) + Size[e]
<1>1. S \ {e} \in SUBSET Entry /\ e \in Entry \ (S \ {e}) BY Zenon
<1>2. (S \ {e}) \cup {e} = S BY Zenon
<1>3. LogicalBytes((S \ {e}) \cup {e}) = LogicalBytes(S \ {e}) + Size[e] BY Zenon, <1>1, BytesAdded
<1> QED BY Zenon, <1>2, <1>3

\* The entries have a first in content-ID order.
LEMMA FirstEntry ==
  ASSUME NEW S \in SUBSET Entry, S # {}
  PROVE  Min(S) \in S /\ \A e \in S : Min(S) <= e
<1>1. S \in SUBSET Nat BY Zenon, BytesAssumption
<1>2. \E m \in S : \A k \in S : ~(<<k, m>> \in OpToRel(<, Nat))
  BY Zenon, <1>1, NatLessThanWellFounded, WFMin
<1>3. PICK m \in S : \A k \in S : ~(<<k, m>> \in OpToRel(<, Nat)) BY Zenon, <1>2
<1>4. ASSUME NEW k \in S PROVE m <= k
  <2>1. ~(k < m) BY Zenon, <1>1, <1>3 DEF OpToRel
  <2> QED BY <1>1, <2>1
<1>5. \E x \in S : \A y \in S : x =< y BY Zenon, <1>4
<1> QED BY Zenon, <1>5 DEF Min

\* A new pass has evicted nothing.
LEMMA PassNone ==
  /\ NoPass \in Pass /\ NoPass.evicted = {} /\ NoPass.todo = {} /\ FreshPass("idle", NoPass)
  /\ \A S : PrefixPass("idle", NoPass, S)
<1>1. NoPass \in Pass /\ NoPass.evicted = {} /\ NoPass.todo = {}
  BY SMTT(60) DEF NoPass, Pass
<1>2. FreshPass("idle", NoPass) BY Zenon, <1>1 DEF FreshPass
<1>3. \A S : PrefixPass("idle", NoPass, S) BY Zenon, <1>1 DEF PrefixPass, Shortest
<1> QED BY Zenon, <1>1, <1>2, <1>3

\* An admission starts.
LEMMA PassRequested ==
  ASSUME NEW op \in {"relief", "publish", "work"}, NEW r \in Nat, NEW at \in {"usage", "operate"},
         NEW q, q = [NoPass EXCEPT !.op = op, !.reclaim = r]
  PROVE  q \in Pass /\ FreshPass(at, q) /\ \A S : PrefixPass(at, q, S)
<1>0. PICK p \in Pass : p = NoPass /\ p.evicted = {} /\ p.todo = {} BY Zenon, PassNone
<1>1. q \in Pass /\ q.evicted = {} /\ q.todo = {}
  <2>1. q = [p EXCEPT !.op = op, !.reclaim = r] BY Zenon, <1>0
  <2>2. q \in Pass BY ONLY ZenonT(60), <2>1, p \in Pass, r \in Nat, op \in {"relief", "publish", "work"} DEF Pass
  <2>3. q.evicted = p.evicted /\ q.todo = p.todo BY ONLY ZenonT(60), <2>1, p \in Pass DEF Pass
  <2> QED BY Zenon, <1>0, <2>2, <2>3
<1>2. FreshPass(at, q) BY Zenon, <1>1 DEF FreshPass
<1>3. \A S : PrefixPass(at, q, S) BY Zenon, <1>1 DEF PrefixPass, Shortest
<1> QED BY Zenon, <1>1, <1>2, <1>3

\* The cache is to be emptied.
LEMMA PassEmptying ==
  ASSUME NEW S \in SUBSET Entry,
         NEW q, q = [NoPass EXCEPT !.target = 0, !.reclaim = Minus(LogicalBytes(S), 0)]
  PROVE  q \in Pass /\ FreshPass("scan", q) /\ PrefixPass("scan", q, S)
<1>1. LogicalBytes(S) \in Nat BY Zenon, BytesCounted
<1>2. PICK u \in Nat : u = LogicalBytes(S) BY Zenon, <1>1
<1>3. Minus(u, 0) = u /\ Minus(u, u) = 0 BY SMTT(60) DEF Minus
<1>4. q = [NoPass EXCEPT !.target = 0, !.reclaim = u] BY Zenon, <1>2, <1>3
<1>5. q \in Pass /\ q.evicted = {} /\ q.todo = {} /\ q.target = 0 /\ q.reclaim = u
  <2>1. PICK p \in Pass : p = NoPass /\ p.evicted = {} /\ p.todo = {} BY Zenon, PassNone
  <2>2. q = [p EXCEPT !.target = 0, !.reclaim = u] BY Zenon, <1>4, <2>1
  <2>3. 0 \in Nat OBVIOUS
  <2>4. q \in Pass BY ONLY ZenonT(60), <2>2, <2>3, p \in Pass, u \in Nat DEF Pass
  <2>5. q.evicted = p.evicted /\ q.todo = p.todo /\ q.target = 0 /\ q.reclaim = u
    BY ONLY ZenonT(60), <2>2, p \in Pass DEF Pass
  <2> QED BY Zenon, <2>1, <2>4, <2>5
<1>6. FreshPass("scan", q) BY Zenon, <1>5 DEF FreshPass
<1>7. PrefixPass("scan", q, S) BY Zenon, <1>2, <1>3, <1>5 DEF PrefixPass, Shortest
<1> QED BY Zenon, <1>5, <1>6, <1>7

\* The target of an admission's pass.
LEMMA PassTargeted ==
  ASSUME NEW S \in SUBSET Entry, NEW p \in Pass, FreshPass("usage", p),
         NEW q, q = [p EXCEPT !.target = Minus(LogicalBytes(S), p.reclaim)]
  PROVE  q \in Pass /\ FreshPass("scan", q) /\ PrefixPass("scan", q, S)
<1>1. LogicalBytes(S) \in Nat BY Zenon, BytesCounted
<1>2. PICK u \in Nat : u = LogicalBytes(S) BY Zenon, <1>1
<1>3. p.reclaim \in Nat BY SMTT(60) DEF Pass
<1>4. PICK m \in Nat : m = Minus(u, p.reclaim)
  <2>1. Minus(u, p.reclaim) \in Nat BY ONLY SMTT(60), <1>3, u \in Nat DEF Minus
  <2> QED BY Zenon, <2>1
<1>5. q = [p EXCEPT !.target = m] BY Zenon, <1>2, <1>4
<1>6. /\ q \in Pass /\ q.evicted = p.evicted /\ q.todo = p.todo /\ q.target = m
      /\ q.reclaim = p.reclaim
  BY ONLY SMTT(60), <1>5, m \in Nat, p \in Pass DEF Pass
<1>7. q.evicted = {} /\ q.todo = {} BY Zenon, <1>6 DEF FreshPass
<1>8. FreshPass("scan", q) BY Zenon, <1>7 DEF FreshPass
<1>9. PrefixPass("scan", q, S) BY Zenon, <1>2, <1>4, <1>6, <1>7 DEF PrefixPass, Shortest
<1> QED BY Zenon, <1>6, <1>8, <1>9

\* The scan.
LEMMA PassScanned ==
  ASSUME NEW S \in SUBSET Entry, NEW p \in Pass, FreshPass("scan", p),
         NEW q, q = [p EXCEPT !.remaining = LogicalBytes(S), !.todo = S]
  PROVE  /\ q \in Pass /\ FreshPass("evict", q)
         /\ PrefixPass("scan", p, S) => PrefixPass("evict", q, S)
<1>1. LogicalBytes(S) \in Nat BY Zenon, BytesCounted
<1>2. PICK u \in Nat : u = LogicalBytes(S) BY Zenon, <1>1
<1>3. q = [p EXCEPT !.remaining = u, !.todo = S] BY Zenon, <1>2
<1>4. /\ q \in Pass /\ q.evicted = p.evicted /\ q.todo = S /\ q.remaining = u
      /\ q.target = p.target /\ q.reclaim = p.reclaim
  BY ONLY ZenonT(60), <1>3, u \in Nat, p \in Pass, S \in SUBSET Entry DEF Pass
<1>5. q.evicted = {} BY Zenon, <1>4 DEF FreshPass
<1>6. FreshPass("evict", q) BY Zenon DEF FreshPass
<1>7. ASSUME PrefixPass("scan", p, S) PROVE PrefixPass("evict", q, S)
  <2>1. q.target = Minus(u, q.reclaim) BY Zenon, <1>2, <1>4, <1>7 DEF PrefixPass
  <2>2. LogicalBytes(q.evicted) = 0 BY Zenon, <1>5, BytesOfNone
  <2>3. 0 + u = u OBVIOUS
  <2>4. LogicalBytes(q.evicted) + LogicalBytes(S) = u BY Zenon, <1>2, <2>2, <2>3
  <2> QED BY Zenon, <1>2, <1>4, <1>5, <2>1, <2>4 DEF PrefixPass, Shortest
<1> QED BY Zenon, <1>4, <1>6, <1>7

\* A pass ends, and its client goes on.
LEMMA PassEnded ==
  ASSUME NEW S, NEW p, NEW at, NEW to \in {"remeasure", "operate"}
  PROVE  /\ FreshPass(to, p)
         /\ PrefixPass(at, p, S) => PrefixPass(to, p, S)
BY Zenon DEF FreshPass, PrefixPass

\* The next entry is evicted: it comes after those evicted before it, and what they
\* freed was not enough.
LEMMA PassEvicted ==
  ASSUME NEW S \in SUBSET Entry, NEW p \in Pass, NEW e \in S, p.todo # {}, e = Min(p.todo),
         p.remaining > p.target,
         NEW q, q = [p EXCEPT !.todo = p.todo \ {e}, !.remaining = Minus(p.remaining, Size[e]),
                              !.evicted = p.evicted \cup {e}]
  PROVE  /\ q \in Pass /\ FreshPass("evict", q)
         /\ PrefixPass("evict", p, S) => PrefixPass("evict", q, S \ {e})
<1>1. /\ p.todo \in SUBSET Entry /\ p.evicted \in SUBSET Entry /\ p.remaining \in Nat
      /\ p.target \in Nat /\ p.reclaim \in Nat
  BY ONLY ZenonT(60), p \in Pass DEF Pass
<1>2. e \in p.todo /\ \A f \in p.todo : e <= f BY Zenon, <1>1, FirstEntry
<1>3. Size[e] \in Nat BY Zenon, BytesAssumption
<1>4. PICK m \in Nat : m = Minus(p.remaining, Size[e])
  <2>1. Minus(p.remaining, Size[e]) \in Nat BY ONLY SMTT(60), <1>1, <1>3 DEF Minus
  <2> QED BY Zenon, <2>1
<1>5. q = [p EXCEPT !.todo = p.todo \ {e}, !.remaining = m, !.evicted = p.evicted \cup {e}]
  BY Zenon, <1>4
<1>6. PICK t \in SUBSET Entry, v \in SUBSET Entry : t = p.todo \ {e} /\ v = p.evicted \cup {e}
  <2>1. p.todo \ {e} \in SUBSET Entry /\ p.evicted \cup {e} \in SUBSET Entry BY Zenon, <1>1, <1>2
  <2> QED BY Zenon, <2>1
<1>7. /\ q \in Pass /\ q.todo = t /\ q.remaining = m /\ q.evicted = v
      /\ q.target = p.target /\ q.reclaim = p.reclaim
  <2>1. q = [p EXCEPT !.todo = t, !.remaining = m, !.evicted = v] BY Zenon, <1>5, <1>6
  <2> QED BY ONLY ZenonT(60), <2>1, m \in Nat, t \in SUBSET Entry, v \in SUBSET Entry, p \in Pass
        DEF Pass
<1>8. FreshPass("evict", q) BY Zenon DEF FreshPass
<1>9. ASSUME PrefixPass("evict", p, S) PROVE PrefixPass("evict", q, S \ {e})
  <2>1. /\ p.todo = S /\ p.remaining = LogicalBytes(S)
        /\ p.target = Minus(LogicalBytes(p.evicted) + LogicalBytes(S), p.reclaim)
        /\ \A x \in p.evicted, f \in S : x < f
    BY Zenon, <1>9 DEF PrefixPass
  <2>2. LogicalBytes(S) \in Nat /\ LogicalBytes(p.evicted) \in Nat /\ LogicalBytes(S \ {e}) \in Nat
    <3>1. S \ {e} \in SUBSET Entry BY Zenon
    <3> QED BY Zenon, <1>1, <3>1, BytesCounted
  <2>3. LogicalBytes(S) = LogicalBytes(S \ {e}) + Size[e] BY Zenon, BytesRemoved
  <2>4. e \notin p.evicted
    <3>1. e \in Nat BY Zenon, BytesAssumption
    <3>2. ~(e < e) BY <3>1
    <3> QED BY Zenon, <2>1, <3>2
  <2>5. LogicalBytes(v) = LogicalBytes(p.evicted) + Size[e]
    BY Zenon, <1>1, <1>6, <2>4, BytesAdded
  <2>6. PICK s \in Nat, d \in Nat, z \in Nat :
          s = LogicalBytes(S \ {e}) /\ d = LogicalBytes(p.evicted) /\ z = Size[e]
    BY Zenon, <1>3, <2>2
  <2>7. LogicalBytes(S) = s + z /\ LogicalBytes(v) = d + z BY Zenon, <2>3, <2>5, <2>6
  <2>8. PICK r \in Nat : r = p.reclaim BY Zenon, <1>1
  <2>9. p.remaining = s + z /\ p.target = Minus(d + (s + z), r) BY Zenon, <2>1, <2>6, <2>7, <2>8
  <2>10. s + z > Minus(d + (s + z), r) BY Zenon, <2>9
  <2>11. d < r BY ONLY SMTT(60), <2>10, s \in Nat, d \in Nat, z \in Nat, r \in Nat DEF Minus
  <2>12. m = s /\ Minus(d + (s + z), r) = Minus(d + z + s, r)
    <3>1. Minus(s + z, z) = s BY ONLY SMTT(60), s \in Nat, z \in Nat DEF Minus
    <3>2. d + (s + z) = d + z + s OBVIOUS
    <3> QED BY Zenon, <1>4, <2>6, <2>9, <3>1, <3>2
  <2>13. q.target = Minus(LogicalBytes(q.evicted) + LogicalBytes(S \ {e}), q.reclaim)
    BY Zenon, <1>7, <2>6, <2>7, <2>8, <2>9, <2>12
  <2>14. q.todo = S \ {e} /\ q.remaining = LogicalBytes(S \ {e})
    BY Zenon, <1>6, <1>7, <2>1, <2>6, <2>12
  <2>15. ASSUME NEW x \in q.evicted, NEW f \in q.todo \cup (S \ {e}) PROVE x < f
    <3>1. f \in S /\ f # e BY Zenon, <2>14
    <3>2. CASE x \in p.evicted BY Zenon, <2>1, <3>1, <3>2
    <3>3. CASE x = e
      <4>1. e <= f BY Zenon, <1>2, <2>1, <3>1
      <4>2. e \in Nat /\ f \in Nat BY Zenon, BytesAssumption, <3>1
      <4> QED BY ONLY SMTT(60), <3>1, <3>3, <4>1, <4>2
    <3> QED BY Zenon, <1>6, <1>7, <3>2, <3>3
  <2>16. Shortest(q)
    <3>1. e \in q.evicted /\ q.evicted \ {e} = p.evicted BY Zenon, <1>6, <1>7, <2>4
    <3>2. ASSUME NEW x \in q.evicted PROVE x <= e
      <4>1. x \in Nat /\ e \in Nat BY Zenon, BytesAssumption, <1>7
      <4>2. x = e \/ x < e BY Zenon, <2>1, <3>1
      <4> QED BY ONLY SMTT(60), <4>1, <4>2
    <3>3. LogicalBytes(q.evicted \ {e}) < q.reclaim BY Zenon, <1>7, <2>6, <2>8, <2>11, <3>1
    <3> QED BY Zenon, <3>1, <3>2, <3>3 DEF Shortest
  <2> QED BY Zenon, <2>13, <2>14, <2>15, <2>16 DEF PrefixPass
<1> QED BY Zenon, <1>7, <1>8, <1>9

\* A step of one client: what it does to its own pass, and that nobody else is active
\* when it touches the cache.
LEMMA EvictionClient ==
  ASSUME IInv, EvictionIInv, NEW c \in Client, NEW at \in Phases, NEW q \in Pass,
         phase' = [phase EXCEPT ![c] = at], pass' = [pass EXCEPT ![c] = q],
         other' \in 0 .. MaxOther, shared' \in BOOLEAN, ~shared' => ~shared,
         FreshPass(at, q), ~shared' => PrefixPass(at, q, cached'),
         ~shared' => at = "idle" \/ \A d \in Client \ {c} : phase[d] = "idle",
         cached' = cached \/ phase[c] # "idle"
  PROVE  EvictionIInv'
<1>1. phase \in [Client -> Phases] /\ pass \in [Client -> Pass] BY Zenon DEF IInv, Space, EvictionIInv
<1>2. /\ phase'[c] = at /\ pass'[c] = q
      /\ \A d \in Client \ {c} : phase'[d] = phase[d] /\ pass'[d] = pass[d]
  BY Zenon, <1>1
<1>3. pass' \in [Client -> Pass] BY Zenon, <1>1
<1>4. Alone'
  <2> SUFFICES ASSUME ~shared', NEW a \in Client, NEW b \in Client, phase'[a] # "idle", phase'[b] # "idle"
               PROVE  a = b
    BY Zenon DEF Alone
  <2>1. CASE at = "idle"
    <3>1. a # c /\ b # c BY Zenon, <1>2, <2>1
    <3> QED BY Zenon, <1>2, <3>1 DEF EvictionIInv, Alone
  <2>2. CASE \A d \in Client \ {c} : phase[d] = "idle"
    <3>1. \A d \in Client \ {c} : phase'[d] = "idle" BY Zenon, <1>2, <2>2
    <3>2. a = c /\ b = c BY Zenon, <3>1
    <3> QED BY Zenon, <3>2
  <2> QED BY Zenon, <2>1, <2>2
<1>5. \A d \in Client : FreshPass(phase'[d], pass'[d]) BY Zenon, <1>2 DEF EvictionIInv
<1>6. ASSUME ~shared', NEW d \in Client PROVE PrefixPass(phase'[d], pass'[d], cached')
  <2>1. CASE d = c BY Zenon, <1>2, <1>6, <2>1
  <2>2. CASE d # c /\ cached' = cached BY Zenon, <1>2, <1>6, <2>2 DEF EvictionIInv
  <2>3. CASE d # c /\ phase[c] # "idle"
    <3>1. phase[d] = "idle" BY Zenon, <1>6, <2>3 DEF EvictionIInv, Alone
    <3>2. pass[d] = NoPass BY Zenon, <3>1 DEF EvictionIInv, FreshPass
    <3> QED BY Zenon, <1>2, <2>3, <3>1, <3>2, PassNone
  <2> QED BY Zenon, <2>1, <2>2, <2>3
<1> QED BY Zenon, <1>3, <1>4, <1>5, <1>6 DEF EvictionIInv

\* What a client that starts finds.
LEMMA EvictionBegins ==
  ASSUME IInv, EvictionIInv, NEW c \in Client, phase[c] = "idle",
         shared' = (shared \/ \E d \in Client : phase[d] # "idle")
  PROVE  /\ pass[c] = NoPass /\ shared' \in BOOLEAN /\ (~shared' => ~shared)
         /\ ~shared' => \A d \in Client \ {c} : phase[d] = "idle"
<1>1. pass[c] = NoPass BY Zenon DEF EvictionIInv, FreshPass
<1>2. shared \in BOOLEAN BY Zenon DEF EvictionIInv
<1>3. shared' \in BOOLEAN BY Zenon, <1>2
<1> QED BY Zenon, <1>1, <1>3

\* Admissions and evict-to jobs start.
LEMMA EvictionRequest ==
  ASSUME IInv, EvictionIInv, NEW c \in Client, NEW p \in Nat,
         NEW op \in {"relief", "publish", "work"}, Request(c, p, op)
  PROVE  EvictionIInv'
<1>1. /\ phase[c] = "idle" /\ cached' = cached /\ other' = other
      /\ pass' = [pass EXCEPT ![c] = [@ EXCEPT !.op = op, !.reclaim = RequiredReclaim(host, guest, p)]]
      /\ phase' = [phase EXCEPT ![c] = IF Admit(host, guest, p) THEN "operate" ELSE "usage"]
      /\ shared' = (shared \/ \E d \in Client : phase[d] # "idle")
  BY Zenon DEF Request, Proceed
<1>2. /\ pass[c] = NoPass /\ shared' \in BOOLEAN /\ (~shared' => ~shared)
      /\ ~shared' => \A d \in Client \ {c} : phase[d] = "idle"
  BY Zenon, <1>1, EvictionBegins
<1>3. host \in Nat /\ guest \in Nat BY SMTT(60), BytesAssumption DEF IInv, Space
<1>4. PICK r \in Nat : r = RequiredReclaim(host, guest, p)
  <2>1. RequiredReclaim(host, guest, p) \in Nat
    BY ONLY SMTT(60), <1>3, p \in Nat, BytesAssumption DEF RequiredReclaim, Shortfall, Minus
  <2> QED BY Zenon, <2>1
<1>5. PICK at \in {"usage", "operate"} : phase' = [phase EXCEPT ![c] = at] BY Zenon, <1>1
<1>6. PICK q : q = [NoPass EXCEPT !.op = op, !.reclaim = r] BY Zenon
<1>7. pass' = [pass EXCEPT ![c] = q]
  <2>1. [pass[c] EXCEPT !.op = op, !.reclaim = RequiredReclaim(host, guest, p)] = q
    BY Zenon, <1>2, <1>4, <1>6
  <2> QED BY Zenon, <1>1, <2>1
<1>8. q \in Pass /\ FreshPass(at, q) /\ \A S : PrefixPass(at, q, S) BY Zenon, <1>5, <1>6, PassRequested
<1>9. at \in Phases /\ other' \in 0 .. MaxOther BY Zenon, <1>1, <1>5 DEF Phases, EvictionIInv
<1> QED BY Zenon, <1>1, <1>2, <1>5, <1>7, <1>8, <1>9, EvictionClient

\* The cache is to be emptied.
LEMMA EvictionEvictTo ==
  ASSUME IInv, EvictionIInv, NEW c \in Client, EvictTo(c, 0)
  PROVE  EvictionIInv'
<1>1. /\ phase[c] = "idle" /\ cached' = cached /\ other' = other
      /\ pass' = [pass EXCEPT ![c] = [@ EXCEPT !.target = 0, !.reclaim = Minus(Usage, 0)]]
      /\ phase' = [phase EXCEPT ![c] = "scan"]
      /\ shared' = (shared \/ \E d \in Client : phase[d] # "idle")
  BY Zenon DEF EvictTo, Proceed
<1>2. /\ pass[c] = NoPass /\ shared' \in BOOLEAN /\ (~shared' => ~shared)
      /\ ~shared' => \A d \in Client \ {c} : phase[d] = "idle"
  BY Zenon, <1>1, EvictionBegins
<1>3. cached \in SUBSET Entry BY Zenon DEF IInv, Space
<1>4. PICK q : q = [NoPass EXCEPT !.target = 0, !.reclaim = Minus(LogicalBytes(cached), 0)] BY Zenon
<1>5. pass' = [pass EXCEPT ![c] = q]
  <2>1. [pass[c] EXCEPT !.target = 0, !.reclaim = Minus(Usage, 0)] = q BY Zenon, <1>2, <1>4 DEF Usage
  <2> QED BY Zenon, <1>1, <2>1
<1>6. q \in Pass /\ FreshPass("scan", q) /\ PrefixPass("scan", q, cached')
  BY Zenon, <1>1, <1>3, <1>4, PassEmptying
<1>7. "scan" \in Phases /\ other' \in 0 .. MaxOther BY Zenon, <1>1 DEF Phases, EvictionIInv
<1> QED BY Zenon, <1>1, <1>2, <1>5, <1>6, <1>7, EvictionClient

\* Whoever is active, is alone.
LEMMA EvictionGoesOn ==
  ASSUME IInv, EvictionIInv, NEW c \in Client, phase[c] # "idle", UNCHANGED ledger
  PROVE  /\ pass[c] \in Pass /\ shared' \in BOOLEAN /\ (~shared' => ~shared) /\ (~shared => ~shared')
         /\ ~shared' => \A d \in Client \ {c} : phase[d] = "idle"
         /\ other' \in 0 .. MaxOther /\ FreshPass(phase[c], pass[c])
         /\ ~shared' => PrefixPass(phase[c], pass[c], cached)
         /\ cached \in SUBSET Entry
BY Zenon DEF ledger, EvictionIInv, Alone, IInv, Space

\* The target is chosen and the cache scanned.
LEMMA EvictionScan ==
  ASSUME IInv, EvictionIInv, NEW c \in Client, ChooseTarget(c) \/ Scan(c)
  PROVE  EvictionIInv'
<1>1. CASE ChooseTarget(c)
  <2>1. /\ phase[c] = "usage" /\ UNCHANGED ledger /\ cached' = cached
        /\ pass' = [pass EXCEPT ![c] = [@ EXCEPT !.target = Minus(Usage, pass[c].reclaim)]]
        /\ phase' = [phase EXCEPT ![c] = "scan"]
    BY Zenon, <1>1 DEF ChooseTarget, Proceed
  <2>2. PICK q : q = [pass[c] EXCEPT !.target = Minus(LogicalBytes(cached), pass[c].reclaim)] BY Zenon
  <2>3. pass' = [pass EXCEPT ![c] = q] BY Zenon, <2>1, <2>2 DEF Usage
  <2>4. phase[c] # "idle" BY Zenon, <2>1
  <2>5. /\ pass[c] \in Pass /\ shared' \in BOOLEAN /\ (~shared' => ~shared)
        /\ ~shared' => \A d \in Client \ {c} : phase[d] = "idle"
        /\ other' \in 0 .. MaxOther /\ FreshPass("usage", pass[c]) /\ cached \in SUBSET Entry
    BY Zenon, <2>1, <2>4, EvictionGoesOn
  <2>6. q \in Pass /\ FreshPass("scan", q) /\ PrefixPass("scan", q, cached)
    BY Zenon, <2>2, <2>5, PassTargeted
  <2>7. "scan" \in Phases BY Zenon DEF Phases
  <2> QED BY Zenon, <2>1, <2>3, <2>5, <2>6, <2>7, EvictionClient
<1>2. CASE Scan(c)
  <2>1. /\ phase[c] = "scan" /\ UNCHANGED ledger /\ cached' = cached
        /\ pass' = [pass EXCEPT ![c] = [@ EXCEPT !.remaining = Usage, !.todo = cached]]
        /\ phase' = [phase EXCEPT ![c] = "evict"]
    BY Zenon, <1>2 DEF Scan, Proceed
  <2>2. PICK q : q = [pass[c] EXCEPT !.remaining = LogicalBytes(cached), !.todo = cached] BY Zenon
  <2>3. pass' = [pass EXCEPT ![c] = q] BY Zenon, <2>1, <2>2 DEF Usage
  <2>4. phase[c] # "idle" BY Zenon, <2>1
  <2>5. /\ pass[c] \in Pass /\ shared' \in BOOLEAN /\ (~shared' => ~shared)
        /\ ~shared' => \A d \in Client \ {c} : phase[d] = "idle"
        /\ other' \in 0 .. MaxOther /\ FreshPass("scan", pass[c]) /\ cached \in SUBSET Entry
        /\ ~shared' => PrefixPass("scan", pass[c], cached)
    BY Zenon, <2>1, <2>4, EvictionGoesOn
  <2>6. /\ q \in Pass /\ FreshPass("evict", q)
        /\ PrefixPass("scan", pass[c], cached) => PrefixPass("evict", q, cached)
    BY Zenon, <2>2, <2>5, PassScanned
  <2>7. "evict" \in Phases BY Zenon DEF Phases
  <2> QED BY Zenon, <2>1, <2>3, <2>5, <2>6, <2>7, EvictionClient
<1> QED BY Zenon, <1>1, <1>2

\* An entry is evicted, or was gone.
LEMMA EvictionEvict ==
  ASSUME IInv, EvictionIInv, NEW c \in Client, EvictEntry(c)
  PROVE  EvictionIInv'
<1>1. /\ phase[c] = "evict" /\ phase[c] # "idle" /\ pass[c].todo # {} /\ pass[c].remaining > pass[c].target
      /\ UNCHANGED <<phase, ledger>>
  BY Zenon DEF EvictEntry
<1>2. /\ pass[c] \in Pass /\ shared' \in BOOLEAN /\ (~shared' => ~shared)
      /\ ~shared' => \A d \in Client \ {c} : phase[d] = "idle"
      /\ other' \in 0 .. MaxOther /\ cached \in SUBSET Entry
      /\ ~shared' => PrefixPass("evict", pass[c], cached)
  BY Zenon, <1>1, EvictionGoesOn
<1>3. phase' = [phase EXCEPT ![c] = "evict"] /\ "evict" \in Phases
  <2>1. phase \in [Client -> Phases] BY Zenon DEF IInv, Space
  <2> QED BY ZenonT(60), <1>1, <2>1 DEF Phases
<1>4. PICK e : e = Min(pass[c].todo) BY Zenon
<1>5. CASE e \in cached
  <2>1. /\ cached' = cached \ {e}
        /\ pass' = [pass EXCEPT ![c] = [@ EXCEPT !.todo = pass[c].todo \ {e},
                                                !.remaining = Minus(pass[c].remaining, Size[e]),
                                                !.evicted = pass[c].evicted \cup {e}]]
    BY Zenon, <1>4, <1>5 DEF EvictEntry
  <2>2. PICK q : q = [pass[c] EXCEPT !.todo = pass[c].todo \ {e},
                                     !.remaining = Minus(pass[c].remaining, Size[e]),
                                     !.evicted = pass[c].evicted \cup {e}]
    BY Zenon
  <2>3. pass' = [pass EXCEPT ![c] = q] BY Zenon, <2>1, <2>2
  <2>4. /\ q \in Pass /\ FreshPass("evict", q)
        /\ PrefixPass("evict", pass[c], cached) => PrefixPass("evict", q, cached \ {e})
    <3>1. PICK p \in Pass : p = pass[c] BY Zenon, <1>2
    <3>2. q = [p EXCEPT !.todo = p.todo \ {e}, !.remaining = Minus(p.remaining, Size[e]),
                        !.evicted = p.evicted \cup {e}]
      BY Zenon, <2>2, <3>1
    <3>3. p.todo # {} /\ e = Min(p.todo) /\ p.remaining > p.target BY Zenon, <1>1, <1>4, <3>1
    <3>4. /\ q \in Pass /\ FreshPass("evict", q)
          /\ PrefixPass("evict", p, cached) => PrefixPass("evict", q, cached \ {e})
      BY ZenonT(60), <1>2, <1>5, <3>2, <3>3, PassEvicted
    <3> QED BY Zenon, <3>1, <3>4
  <2> QED BY Zenon, <1>1, <1>2, <1>3, <2>1, <2>3, <2>4, EvictionClient
<1>6. CASE e \notin cached
  <2>1. cached' = cached /\ pass' = [pass EXCEPT ![c] = [@ EXCEPT !.todo = pass[c].todo \ {e}]]
    BY Zenon, <1>4, <1>6 DEF EvictEntry
  <2>2. PICK q : q = [pass[c] EXCEPT !.todo = pass[c].todo \ {e}] BY Zenon
  <2>3. pass' = [pass EXCEPT ![c] = q] BY Zenon, <2>1, <2>2
  <2>4. q \in Pass /\ pass[c].todo \in SUBSET Entry BY ZenonT(60), <1>2, <2>2 DEF Pass
  <2>5. e \in pass[c].todo BY Zenon, <1>1, <1>4, <2>4, FirstEntry
  <2>6. shared' BY Zenon, <1>2, <1>6, <2>5 DEF PrefixPass
  <2>7. FreshPass("evict", q) BY Zenon DEF FreshPass
  <2> QED BY Zenon, <1>2, <1>3, <2>1, <2>3, <2>4, <2>6, <2>7, EvictionClient
<1> QED BY Zenon, <1>5, <1>6

\* The call returns.
LEMMA EvictionReturns ==
  ASSUME IInv, EvictionIInv, NEW c \in Client, phase[c] # "idle", EndAdmission(c),
         other' = other, shared' = shared
  PROVE  EvictionIInv'
<1>1. phase' = [phase EXCEPT ![c] = "idle"] /\ pass' = [pass EXCEPT ![c] = NoPass]
  BY Zenon DEF EndAdmission, Proceed
<1>2. other' \in 0 .. MaxOther /\ shared' \in BOOLEAN BY Zenon DEF EvictionIInv
<1>3. "idle" \in Phases BY Zenon DEF Phases
<1> QED BY Zenon, <1>1, <1>2, <1>3, PassNone, EvictionClient

\* The pass ends, the client measures again and operates.
LEMMA EvictionEnds ==
  ASSUME IInv, EvictionIInv, NEW c \in Client, EndPass(c) \/ Remeasure(c) \/ Operate(c)
  PROVE  EvictionIInv'
<1>1. phase[c] # "idle" /\ other' = other /\ shared' = shared
  BY Zenon DEF EndPass, Remeasure, Operate, ledger
<1>2. CASE EndAdmission(c) BY Zenon, <1>1, <1>2, EvictionReturns
<1>3. ASSUME NEW at \in {"remeasure", "operate"}, Proceed(c, at), UNCHANGED <<pass, cached, ledger>>
      PROVE  EvictionIInv'
  <2>1. phase' = [phase EXCEPT ![c] = at] BY Zenon, <1>3 DEF Proceed
  <2>2. /\ pass[c] \in Pass /\ shared' \in BOOLEAN /\ (~shared' => ~shared)
        /\ ~shared' => \A d \in Client \ {c} : phase[d] = "idle"
        /\ other' \in 0 .. MaxOther /\ (~shared' => PrefixPass(phase[c], pass[c], cached))
    BY Zenon, <1>1, <1>3, EvictionGoesOn
  <2>3. pass' = [pass EXCEPT ![c] = pass[c]]
    <3>1. pass \in [Client -> Pass] BY Zenon DEF EvictionIInv
    <3> QED BY Zenon, <1>3, <3>1
  <2>4. /\ FreshPass(at, pass[c])
        /\ PrefixPass(phase[c], pass[c], cached) => PrefixPass(at, pass[c], cached)
    BY Zenon, PassEnded
  <2>5. at \in Phases /\ cached' = cached BY Zenon, <1>3 DEF Phases
  <2>6. ~shared' => PrefixPass(at, pass[c], cached') BY Zenon, <2>2, <2>4, <2>5
  <2>7. ~shared' => at = "idle" \/ \A d \in Client \ {c} : phase[d] = "idle" BY Zenon, <2>2
  <2> QED BY ZenonT(60), <2>1, <2>2, <2>3, <2>4, <2>5, <2>6, <2>7, EvictionClient
<1>4. CASE EndPass(c) BY Zenon, <1>2, <1>3, <1>4 DEF EndPass
<1>5. CASE Remeasure(c) BY Zenon, <1>2, <1>3, <1>5 DEF Remeasure
<1>6. CASE Operate(c) BY Zenon, <1>2, <1>6 DEF Operate
<1> QED BY Zenon, <1>4, <1>5, <1>6

\* Allocations without admission, and steps of something else.
LEMMA EvictionElsewhere ==
  ASSUME IInv, EvictionIInv, (\E n \in 1 .. MaxOther : Allocate(n)) \/ UNCHANGED admissionVars
  PROVE  EvictionIInv'
<1>1. UNCHANGED <<cached, phase, pass, shared>> BY Zenon DEF Allocate, admission, admissionVars, ledger
<1>2. other' \in 0 .. MaxOther
  <2>1. other \in 0 .. MaxOther BY Zenon DEF EvictionIInv
  <2>2. CASE UNCHANGED admissionVars BY Zenon, <2>1, <2>2 DEF admissionVars, ledger
  <2>3. ASSUME NEW n \in 1 .. MaxOther, Allocate(n) PROVE other' \in 0 .. MaxOther
    <3>1. other + n <= MaxOther /\ other' = other + n BY Zenon, <2>3 DEF Allocate
    <3> QED BY ONLY SMTT(60), <2>1, <3>1, n \in 1 .. MaxOther, BytesAssumption
  <2> QED BY Zenon, <2>2, <2>3
<1> QED BY ZenonT(60), <1>1, <1>2 DEF EvictionIInv, Alone

\* A pass that no other meets evicts the shortest prefix that frees what is required,
\* for any entries and sizes; and the other parts of AdmissionSound.
THEOREM AdmissionIsSound == AdmissionSpec => []AdmissionSound
<1>1. AdmissionInit => EvictionIInv
  <2> SUFFICES ASSUME AdmissionInit PROVE EvictionIInv BY Zenon
  <2>1. \A c \in Client : phase[c] = "idle" /\ pass[c] = NoPass BY Zenon DEF AdmissionInit
  <2>2. 0 \in 0 .. MaxOther BY BytesAssumption
  <2>3. pass \in [Client -> Pass] /\ other \in 0 .. MaxOther /\ shared \in BOOLEAN
    BY Zenon, <2>2, PassNone DEF AdmissionInit
  <2> QED BY Zenon, <2>1, <2>3, PassNone DEF EvictionIInv, Alone
<1>2. IInv /\ EvictionIInv /\ [AdmissionNext]_admissionVars => EvictionIInv'
  <2> SUFFICES ASSUME IInv, EvictionIInv, [AdmissionNext]_admissionVars PROVE EvictionIInv' BY Zenon
  <2>1. \A p \in 1 .. MaxProjected : p \in Nat BY BytesAssumption
  <2>2. \A e \in Entry : Size[e] \in Nat BY Zenon, BytesAssumption
  <2> QED BY Zenon, <2>1, <2>2, EvictionRequest, EvictionEvictTo, EvictionScan, EvictionEvict, EvictionEnds,
          EvictionElsewhere DEF AdmissionNext, RelieveCachePressure, AdmitWork, PublishCacheBlob
<1>3. ASSUME IInv, EvictionIInv PROVE AdmissionTypeOK
  <2>1. host \in Nat /\ guest \in Nat BY SMTT(60), <1>3, BytesAssumption DEF IInv, Space
  <2> QED BY Zenon, <1>3, <2>1 DEF IInv, Space, EvictionIInv, AdmissionTypeOK, Phases
<1>4. ASSUME EvictionIInv PROVE EvictionMinimal
  <2> SUFFICES ASSUME ~shared, NEW c \in Client, pass[c].evicted # {}
               PROVE  LET last == Max(pass[c].evicted) IN
                      /\ \A e \in pass[c].todo \cup cached : e > last
                      /\ LogicalBytes(pass[c].evicted \ {last}) < pass[c].reclaim
    BY Zenon DEF EvictionMinimal
  <2>1. PrefixPass(phase[c], pass[c], cached) /\ pass[c] \in Pass BY Zenon, <1>4 DEF EvictionIInv
  <2>2. PICK last \in pass[c].evicted :
          (\A e \in pass[c].evicted : e <= last) /\ LogicalBytes(pass[c].evicted \ {last}) < pass[c].reclaim
    BY Zenon, <2>1 DEF PrefixPass, Shortest
  <2>3. pass[c].evicted \subseteq Entry BY ONLY ZenonT(60), <2>1 DEF Pass
  <2>4. pass[c].evicted \subseteq Nat BY Zenon, <2>3, BytesAssumption
  <2>5. Max(pass[c].evicted) = last
    <3>1. \A e \in pass[c].evicted : last >= e BY <2>2, <2>4
    <3>2. ASSUME NEW x \in pass[c].evicted, \A e \in pass[c].evicted : x >= e PROVE x = last
      <4>1. x <= last /\ x >= last /\ x \in Nat /\ last \in Nat BY Zenon, <2>2, <2>4, <3>2
      <4> QED BY ONLY SMTT(60), <4>1
    <3> QED BY Zenon, <2>2, <3>1, <3>2 DEF Max
  <2>6. ASSUME NEW e \in pass[c].todo \cup cached PROVE e > last
    <3>1. last < e BY Zenon, <2>1 DEF PrefixPass
    <3> QED BY <3>1
  <2> QED BY Zenon, <2>2, <2>5, <2>6
<1>5. ASSUME IInv, EvictionIInv, OneAdmission PROVE AdmissionSound
  BY Zenon, <1>3, <1>4, <1>5 DEF AdmissionSound
<1> QED BY <1>1, <1>2, <1>5, InitIInv, NextIInv, AdmissionExclusive, PTL DEF AdmissionSpec

-----------------------------------------------------------------------------
(* The daemon's log of operation events.                                   *)

\* The tokens that a call writes.
LEMMA LogTokens ==
  ASSUME NEW n \in Nat
  PROVE  /\ Body(n) \in Token /\ Body(n).is = "event" /\ Body(n).of = n
         /\ Fragment \in Token /\ Fragment.is # "event" /\ Fragment.of = 0
         /\ Newline \in Token /\ Newline.is # "event" /\ Newline.of = 0
BY ZenonT(60) DEF Body, Fragment, Newline, Token

\* A line of the next event keeps the events in order, and the file's earlier tokens.
LEMMA LogExtended ==
  ASSUME Ordered, events \in Nat, NEW t \in Seq(Token), text' = text \o t, events' = events + 1,
         \A i \in 1 .. Len(t) : t[i].of <= events + 1,
         \A i \in 1 .. Len(t) : t[i].is = "event" => i = 1 /\ t[i].of = events + 1
  PROVE  /\ Ordered' /\ Len(text') = Len(text) + Len(t) /\ Len(text) \in Nat /\ Len(t) \in Nat
         /\ \A i \in 1 .. Len(text) : text'[i] = text[i]
         /\ \A i \in 1 .. Len(t) : text'[Len(text) + i] = t[i]
<1>1. text \in Seq(Token) /\ Len(text) \in Nat /\ Len(t) \in Nat BY SMTT(60) DEF Ordered
<1>2. text' \in Seq(Token) /\ Len(text') = Len(text) + Len(t) BY <1>1
<1>3. \A i \in 1 .. Len(text) : text'[i] = text[i] BY SMTT(60), <1>1
<1>4. \A i \in 1 .. Len(t) : text'[Len(text) + i] = t[i] BY SMTT(60), <1>1
<1>5. \A i \in 1 .. Len(text') : i \in 1 .. Len(text) \/ \E j \in 1 .. Len(t) : i = Len(text) + j
  <2> TAKE i \in 1 .. Len(text')
  <2> SUFFICES ASSUME i \notin 1 .. Len(text) PROVE i - Len(text) \in 1 .. Len(t) /\ i = Len(text) + (i - Len(text))
    BY ZenonT(60)
  <2> QED BY SMTT(60), <1>1, <1>2
<1>6. \A i \in 1 .. Len(text) : text[i].of \in Nat /\ text[i].of <= events
  <2> TAKE i \in 1 .. Len(text)
  <2>1. text[i] \in Token BY <1>1
  <2>2. text[i].of \in Nat BY ZenonT(60), <2>1 DEF Token
  <2> QED BY ZenonT(60), <2>2 DEF Ordered
<1>7. \A i \in 1 .. Len(text') : text'[i].of <= events'
  <2> TAKE i \in 1 .. Len(text')
  <2>1. CASE i \in 1 .. Len(text)
    <3>1. text'[i] = text[i] /\ text[i].of \in Nat /\ text[i].of <= events
      BY ZenonT(60), <1>3, <1>6, <2>1
    <3> QED BY SMTT(60), <3>1
  <2>2. ASSUME NEW j \in 1 .. Len(t), i = Len(text) + j PROVE text'[i].of <= events'
    <3>1. text'[i] = t[j] /\ t[j].of <= events + 1 BY Zenon, <1>4, <2>2
    <3> QED BY SMTT(60), <3>1
  <2> QED BY ZenonT(60), <1>5, <2>1, <2>2
<1>8. ASSUME NEW i \in 1 .. Len(text'), NEW j \in 1 .. Len(text'), i < j,
             text'[i].is = "event", text'[j].is = "event"
      PROVE  text'[i].of < text'[j].of
  <2>1. CASE j \in 1 .. Len(text)
    <3>1. i \in 1 .. Len(text) BY SMTT(60), <1>1, <1>2, <1>8, <2>1
    <3>2. text'[i] = text[i] /\ text'[j] = text[j] BY ZenonT(60), <1>3, <2>1, <3>1
    <3> QED BY ZenonT(60), <1>8, <2>1, <3>1, <3>2 DEF Ordered
  <2>2. ASSUME NEW b \in 1 .. Len(t), j = Len(text) + b PROVE text'[i].of < text'[j].of
    <3>1. text'[j] = t[b] BY Zenon, <1>4, <2>2
    <3>2. b = 1 /\ text'[j].of = events + 1
      <4>1. t[b].is = "event" BY ZenonT(60), <1>8, <3>1
      <4> QED BY SMTT(60), <3>1, <4>1
    <3>3. i \in 1 .. Len(text) BY SMTT(60), <1>1, <1>2, <1>8, <2>2, <3>2
    <3>4. text'[i].of \in Nat /\ text'[i].of <= events BY ZenonT(60), <1>3, <1>6, <3>3
    <3> QED BY SMTT(60), <3>2, <3>4
  <2> QED BY ZenonT(60), <1>5, <2>1, <2>2
<1>9. Ordered' BY ZenonT(60), <1>2, <1>7, <1>8 DEF Ordered
<1> QED BY ZenonT(60), <1>1, <1>2, <1>3, <1>4, <1>9

\* A file that lost its end.
LEMMA LogCut ==
  ASSUME Ordered, NEW n \in 0 .. Len(text), text' = SubSeq(text, 1, n), events' = events
  PROVE  /\ Ordered' /\ Len(text') = n
         /\ \A i \in 1 .. n : text'[i] = text[i]
<1>1. text \in Seq(Token) /\ Len(text) \in Nat /\ n \in Nat /\ n <= Len(text)
  BY SMTT(60) DEF Ordered
<1>2. text' \in Seq(Token) /\ Len(text') = n BY <1>1
<1>3. \A i \in 1 .. n : text'[i] = text[i] /\ i \in 1 .. Len(text) BY SMTT(60), <1>1
<1>4. \A i \in 1 .. n : text'[i].of <= events' BY Zenon, <1>3 DEF Ordered
<1>5. ASSUME NEW i \in 1 .. n, NEW j \in 1 .. n, i < j, text'[i].is = "event", text'[j].is = "event"
      PROVE  text'[i].of < text'[j].of
  <2>1. text'[i] = text[i] /\ text'[j] = text[j] /\ i \in 1 .. Len(text) /\ j \in 1 .. Len(text)
    BY Zenon, <1>3
  <2>2. text[i].is = "event" /\ text[j].is = "event" BY ZenonT(60), <1>5, <2>1
  <2>3. text[i].of < text[j].of BY ZenonT(60), <1>5, <2>1, <2>2 DEF Ordered
  <2> QED BY ZenonT(60), <2>1, <2>3
<1>6. Ordered'
  <2>1. 1 .. n = 1 .. Len(text') BY Zenon, <1>2
  <2> QED BY ZenonT(60), <1>2, <1>4, <1>5, <2>1 DEF Ordered
<1> QED BY ZenonT(60), <1>2, <1>3, <1>6

\* Writing a line, or a part of it.
LEMMA LogWriteStep ==
  ASSUME LogConstants, LogIInv, WriteLine \/ WriteLineFails
  PROVE  LogIInv'
<1>1. /\ LogTypeOK /\ Ordered /\ events \in Nat /\ events < MaxEvents /\ logFaults \in Nat /\ events' = events + 1
      /\ UNCHANGED <<entry, synced, acked, risked>>
  BY DEF LogIInv, LogTypeOK, WriteLine, WriteLineFails, LogConstants
<1> DEFINE Line == {<<>>, <<Fragment>>, <<Body(events + 1)>>, <<Body(events + 1), Newline>>}
<1>2. \E t \in Line : text' = text \o t
  BY ZenonT(60) DEF WriteLine, WriteLineFails, EncodeEvent
<1>3. PICK t \in Line : text' = text \o t BY Zenon, <1>2
<1>4. /\ t \in Seq(Token) /\ \A i \in 1 .. Len(t) : t[i].of <= events + 1
      /\ \A i \in 1 .. Len(t) : t[i].is = "event" => i = 1 /\ t[i].of = events + 1
  <2>1. events + 1 \in Nat BY <1>1
  <2>2. /\ Body(events + 1) \in Token /\ Body(events + 1).is = "event" /\ Body(events + 1).of = events + 1
        /\ Fragment \in Token /\ Fragment.is # "event" /\ Fragment.of = 0
        /\ Newline \in Token /\ Newline.is # "event" /\ Newline.of = 0
    BY SMTT(60), <2>1, LogTokens
  <2>3. CASE t = <<>> BY SMTT(60), <2>3
  <2>4. CASE t = <<Fragment>> BY SMTT(60), <2>1, <2>2, <2>4
  <2>5. CASE t = <<Body(events + 1)>> BY SMTT(60), <2>1, <2>2, <2>5
  <2>6. CASE t = <<Body(events + 1), Newline>> BY SMTT(60), <2>1, <2>2, <2>6
  <2> QED BY ZenonT(60), <1>3, <2>3, <2>4, <2>5, <2>6
<1> HIDE DEF Line
<1>5. /\ Ordered' /\ Len(text') = Len(text) + Len(t) /\ Len(text) \in Nat /\ Len(t) \in Nat
      /\ \A i \in 1 .. Len(text) : text'[i] = text[i]
      /\ \A i \in 1 .. Len(t) : text'[Len(text) + i] = t[i]
  BY ZenonT(60), <1>1, <1>3, <1>4, LogExtended
<1>6. LogTypeOK'
  <2>1. synced' \in 0 .. Len(text') BY <1>1, <1>5 DEF LogTypeOK
  <2>2. events' \in 0 .. MaxEvents BY SMTT(60), <1>1 DEF LogConstants
  <2>3. logFaults' \in 0 .. MaxLogFaults
    BY <1>1 DEF LogTypeOK, WriteLine, WriteLineFails, LogConstants
  <2>4. acked' \subseteq 1 .. events' /\ risked' \subseteq acked'
    BY SMTT(60), <1>1 DEF LogTypeOK
  <2>5. logStep' \in {"closed", "created", "open", "written"}
    BY Zenon, <1>1 DEF WriteLine, WriteLineFails, LogTypeOK
  <2> QED BY ZenonT(60), <1>1, <2>1, <2>2, <2>3, <2>4, <2>5 DEF LogTypeOK
<1>7. ASSUME logStep' = "written" PROVE events' > 0 /\ \E i \in 1 .. Len(text') : text'[i] = Body(events')
  <2>1. WriteLine BY ZenonT(60), <1>7 DEF WriteLineFails
  <2>2. text' = text \o <<Body(events + 1), Newline>>
    BY ZenonT(60), <2>1 DEF WriteLine, EncodeEvent
  <2>3. text \in Seq(Token) BY ZenonT(60), <1>5, <1>1 DEF Ordered
  <2>4. /\ Len(text') = Len(text) + 2 /\ text'[Len(text) + 1] = Body(events + 1)
        /\ Len(text) + 1 \in 1 .. Len(text') /\ events' > 0
    BY SMTT(60), <1>1, <1>5, <2>2, <2>3
  <2> QED BY ZenonT(60), <1>1, <2>4
<1>8. ASSUME NEW n \in acked' \ risked' PROVE \E i \in 1 .. synced' : text'[i] = Body(n)
  <2>1. PICK i \in 1 .. synced : text[i] = Body(n) BY ZenonT(60), <1>1, <1>8 DEF LogIInv
  <2>2. i \in 1 .. Len(text) BY <1>1, <1>5, <2>1 DEF LogTypeOK
  <2> QED BY ZenonT(60), <1>1, <1>5, <2>1, <2>2
<1>9. entry' # "durable" => acked' \subseteq risked' BY ZenonT(60), <1>1 DEF LogIInv
<1> QED BY ZenonT(60), <1>5, <1>6, <1>7, <1>8, <1>9 DEF LogIInv

\* The line is synchronized and its event acknowledged.
LEMMA LogSyncStep ==
  ASSUME LogConstants, LogIInv, SyncData
  PROVE  LogIInv'
<1>1. /\ LogTypeOK /\ Ordered /\ logStep = "written" /\ events > 0 /\ logStep' = "open"
      /\ synced' = Len(text) /\ acked' = acked \cup {events}
      /\ risked' = IF entry = "durable" THEN risked ELSE risked \cup {events}
      /\ UNCHANGED <<entry, text, events, logFaults>>
  BY ZenonT(60) DEF LogIInv, SyncData
<1>2. PICK i \in 1 .. Len(text) : text[i] = Body(events) BY ZenonT(60), <1>1 DEF LogIInv
<1>3. text \in Seq(Token) /\ Len(text) \in Nat /\ synced \in 0 .. Len(text) /\ events \in Nat
  BY SMTT(60), <1>1 DEF Ordered, LogTypeOK, LogConstants
<1>4. LogTypeOK'
  <2>1. synced' \in 0 .. Len(text') BY SMTT(60), <1>1, <1>3
  <2>2. events \in 1 .. events BY <1>1, <1>3
  <2>3. acked' \subseteq 1 .. events' /\ risked' \subseteq acked'
    BY ZenonT(60), <1>1, <2>2 DEF LogTypeOK
  <2>4. logStep' \in {"closed", "created", "open", "written"} BY <1>1
  <2> QED BY ZenonT(60), <1>1, <2>1, <2>3, <2>4 DEF LogTypeOK
<1>5. Ordered' BY ZenonT(60), <1>1 DEF Ordered
<1>6. ASSUME NEW n \in acked' \ risked' PROVE \E j \in 1 .. synced' : text'[j] = Body(n)
  <2>1. CASE n = events BY ZenonT(60), <1>1, <1>2, <2>1
  <2>2. CASE n \in acked \ risked
    <3>1. PICK j \in 1 .. synced : text[j] = Body(n) BY ZenonT(60), <2>2 DEF LogIInv
    <3>2. j \in 1 .. synced' BY <1>1, <1>3, <3>1
    <3> QED BY ZenonT(60), <1>1, <3>1, <3>2
  <2> QED BY ZenonT(60), <1>1, <1>6, <2>1, <2>2
<1>7. entry' # "durable" => acked' \subseteq risked' BY ZenonT(60), <1>1 DEF LogIInv
<1>8. logStep' # "written" BY <1>1
<1> QED BY ZenonT(60), <1>4, <1>5, <1>6, <1>7, <1>8 DEF LogIInv

\* What is not synchronized may be lost, and the file too if its entry is not durable.
LEMMA LogPowerLossStep ==
  ASSUME LogConstants, LogIInv, LogPowerLoss
  PROVE  LogIInv'
<1>1. /\ LogTypeOK /\ Ordered /\ logStep' = "closed" /\ logFaults < MaxLogFaults /\ logFaults' = logFaults + 1
      /\ UNCHANGED <<events, acked, risked>>
  BY Zenon DEF LogIInv, LogPowerLoss
<1>2. logFaults' \in 0 .. MaxLogFaults BY SMTT(60), <1>1 DEF LogTypeOK, LogConstants
<1>3. logStep' # "written" /\ logStep' \in {"closed", "created", "open", "written"} BY ZenonT(60), <1>1
<1>4. text \in Seq(Token) /\ Len(text) \in Nat /\ synced \in 0 .. Len(text)
  BY SMTT(60), <1>1 DEF Ordered, LogTypeOK
<1>5. CASE entry = "volatile" /\ entry' = "absent" /\ text' = <<>> /\ synced' = 0
  <2>1. Ordered' BY <1>5 DEF Ordered
  <2>2. synced' \in 0 .. Len(text') /\ entry' \in {"absent", "volatile", "durable"} BY <1>5
  <2>3. LogTypeOK' BY ZenonT(60), <1>1, <1>2, <1>3, <2>2 DEF LogTypeOK
  <2>4. acked' \subseteq risked' BY <1>1, <1>5 DEF LogIInv
  <2> QED BY ZenonT(60), <1>3, <2>1, <2>3, <2>4 DEF LogIInv
<1>6. ASSUME entry' = "durable", NEW n \in synced .. Len(text), text' = SubSeq(text, 1, n), synced' = n
      PROVE  LogIInv'
  <2>1. n \in 0 .. Len(text) /\ 1 .. synced \subseteq 1 .. n BY <1>4, <1>6
  <2>2. Ordered' /\ Len(text') = n /\ \A i \in 1 .. n : text'[i] = text[i]
    BY ZenonT(60), <1>1, <1>6, <2>1, LogCut
  <2>3. synced' \in 0 .. Len(text') /\ entry' \in {"absent", "volatile", "durable"}
    BY SMTT(60), <1>4, <1>6, <2>1, <2>2
  <2>4. LogTypeOK' BY ZenonT(60), <1>1, <1>2, <1>3, <2>3 DEF LogTypeOK
  <2>5. \A k \in acked' \ risked' : \E i \in 1 .. synced' : text'[i] = Body(k)
    BY ZenonT(60), <1>1, <1>6, <2>1, <2>2 DEF LogIInv
  <2> QED BY ZenonT(60), <1>3, <1>6, <2>2, <2>4, <2>5 DEF LogIInv
<1> QED BY ZenonT(60), <1>5, <1>6 DEF LogPowerLoss

\* The other steps leave the file's text alone.
LEMMA LogOtherStep ==
  ASSUME LogConstants, LogIInv, OpenLog \/ SyncNew \/ OpenFails \/ SyncFails \/ KillLogger \/ UNCHANGED logVars
  PROVE  LogIInv'
<1>1. /\ LogTypeOK /\ Ordered /\ UNCHANGED <<text, synced, events, acked, risked>>
      /\ logStep' = "written" => logStep = "written"
      /\ entry' # "durable" => entry # "durable"
      /\ entry' \in {"absent", "volatile", "durable"} /\ logStep' \in {"closed", "created", "open", "written"}
  BY ZenonT(60) DEF LogIInv, LogTypeOK, OpenLog, SyncNew, OpenFails, SyncFails,
       KillLogger,
       logVars
<1>2. logFaults' \in 0 .. MaxLogFaults
  BY <1>1 DEF LogTypeOK, LogConstants, OpenLog, SyncNew, OpenFails, SyncFails,
       KillLogger, logVars
<1>3. LogTypeOK' BY ZenonT(60), <1>1, <1>2 DEF LogTypeOK
<1>4. Ordered' BY ZenonT(60), <1>1 DEF Ordered
<1> QED BY ZenonT(60), <1>1, <1>3, <1>4 DEF LogIInv

\* The invariant holds in every state of the log.
LEMMA LogInvariance ==
  ASSUME LogConstants
  PROVE  LogSpec => []LogIInv
<1>1. LogInit => LogIInv
  <2> SUFFICES ASSUME LogInit PROVE LogIInv BY Zenon
  <2>1. LogTypeOK BY SMTT(60) DEF LogInit, LogTypeOK, LogConstants
  <2>2. Ordered BY DEF LogInit, Ordered
  <2>3. logStep # "written" /\ acked = {} BY ZenonT(60) DEF LogInit
  <2> QED BY ZenonT(60), <2>1, <2>2, <2>3 DEF LogIInv
<1>2. LogIInv /\ [LogNext]_logVars => LogIInv'
  BY ZenonT(60), LogWriteStep, LogSyncStep, LogPowerLossStep, LogOtherStep DEF LogNext
<1> QED BY <1>1, <1>2, PTL DEF LogSpec

\* Acknowledged events are kept, in their order.
THEOREM AcknowledgedAreLogged ==
  ASSUME LogConstants
  PROVE  LogSpec => []AcknowledgedLogged
<1>1. ASSUME LogIInv PROVE AcknowledgedLogged
  <2> DEFINE at(n) == CHOOSE i \in 1 .. synced : text[i] = Body(n)
  <2>1. \A n \in acked \ risked : at(n) \in 1 .. synced /\ text[at(n)] = Body(n)
    BY ZenonT(60), <1>1 DEF LogIInv
  <2>2. synced \in Nat /\ Len(text) \in Nat /\ synced <= Len(text)
    BY <1>1 DEF LogIInv, LogTypeOK, Ordered
  <2>3. ASSUME NEW n \in acked \ risked, NEW k \in acked \ risked, k < n PROVE at(k) < at(n)
    <3>1. /\ at(k) \in 1 .. synced /\ text[at(k)] = Body(k)
          /\ at(n) \in 1 .. synced /\ text[at(n)] = Body(n)
      BY ZenonT(60), <2>1, <2>3
    <3>2. k \in Nat /\ n \in Nat BY SMTT(60), <1>1 DEF LogIInv, LogTypeOK, LogConstants
    <3>3. /\ text[at(k)].is = "event" /\ text[at(k)].of = k
          /\ text[at(n)].is = "event" /\ text[at(n)].of = n
      BY ZenonT(60), <3>1, <3>2, LogTokens
    <3> HIDE DEF at
    <3>4. at(k) \in 1 .. Len(text) /\ at(n) \in 1 .. Len(text) BY SMTT(60), <2>2, <3>1
    <3>5. at(n) < at(k) => n < k BY ZenonT(60), <1>1, <3>3, <3>4 DEF LogIInv, Ordered
    <3>6. at(n) # at(k)
      <4>1. n # k BY <2>3, <3>2
      <4> QED BY ZenonT(60), <3>3, <4>1
    <3> QED BY SMTT(60), <2>3, <3>2, <3>4, <3>5, <3>6
  <2>4. \A n \in acked \ risked : \E i \in 1 .. synced : text[i] = Body(n) BY Zenon, <2>1
  <2> QED BY Zenon, <2>3, <2>4 DEF AcknowledgedLogged
<1> QED BY <1>1, LogInvariance, PTL

\* A line of its own stays one in a file that begins with the same tokens.
LEMMA LogOwnKept ==
  ASSUME NEW f, NEW g, NEW n, NEW m \in Nat, NEW k \in Nat, m <= k,
         \A i \in 1 .. m : g[i] = f[i], Own(f, n, m)
  PROVE  Own(g, n, k)
<1>1. PICK i \in 1 .. m - 1 :
        f[i] = Body(n) /\ f[i + 1] = Newline /\ (i = 1 \/ f[i - 1] = Newline)
  BY Zenon DEF Own
<1>2. i \in 1 .. k - 1 /\ i \in 1 .. m /\ i + 1 \in 1 .. m /\ (i # 1 => i - 1 \in 1 .. m)
  BY SMTT(60), <1>1
<1>3. g[i] = Body(n) /\ g[i + 1] = Newline /\ (i = 1 \/ g[i - 1] = Newline)
  BY Zenon, <1>1, <1>2
<1> QED BY Zenon, <1>2, <1>3 DEF Own

\* The events acknowledged so far are finitely many.
LEMMA LogSpoiledFinite ==
  ASSUME LogConstants, LogTypeOK
  PROVE  IsFiniteSet(Spoiled) /\ Cardinality(Spoiled) \in Nat
<1>1. events \in Nat BY SMTT(60) DEF LogTypeOK, LogConstants
<1>2. Spoiled \subseteq 1 .. events BY Zenon DEF LogTypeOK, Spoiled
<1>3. IsFiniteSet(1 .. events) BY <1>1, FS_Interval
<1>4. IsFiniteSet(Spoiled) BY Zenon, <1>2, <1>3, FS_Subset
<1> QED BY Zenon, <1>4, FS_CardinalityType

\* A step that acknowledges nothing and keeps the synchronized part spoils nothing.
LEMMA LogSpoiledKept ==
  ASSUME LogConstants, LogTypeOK, synced \in Nat, synced' \in Nat, synced <= synced',
         acked' \ risked' \subseteq acked \ risked,
         \A i \in 1 .. synced : text'[i] = text[i]
  PROVE  /\ Cardinality(Spoiled) \in Nat /\ Cardinality(Spoiled') \in Nat
         /\ Cardinality(Spoiled') <= Cardinality(Spoiled)
<1>1. Spoiled' \subseteq Spoiled
  <2>1. ASSUME NEW n \in Spoiled' PROVE n \in Spoiled
    <3>1. n \in acked \ risked /\ ~Own(text', n, synced') BY Zenon, <2>1 DEF Spoiled
    <3>2. ~Own(text, n, synced) BY ZenonT(60), <3>1, LogOwnKept
    <3> QED BY Zenon, <3>1, <3>2 DEF Spoiled
  <2> QED BY Zenon, <2>1
<1>2. IsFiniteSet(Spoiled) /\ Cardinality(Spoiled) \in Nat BY Zenon, LogSpoiledFinite
<1>3. IsFiniteSet(Spoiled') /\ Cardinality(Spoiled') <= Cardinality(Spoiled)
  BY Zenon, <1>1, <1>2, FS_Subset
<1> QED BY Zenon, <1>2, <1>3, FS_CardinalityType

\* A fault pays for the partial line it may leave.
LEMMA LogFaultPays ==
  ASSUME LogConstants, LogTypeOK, Paid, logFaults \in Nat, logFaults' = logFaults + 1,
         Cardinality(Spoiled) \in Nat, Cardinality(Spoiled') \in Nat,
         Cardinality(Spoiled') <= Cardinality(Spoiled), logStep' # "written"
  PROVE  Paid'
<1>1. Cardinality(Spoiled) <= logFaults
  BY SMTT(60) DEF Paid
<1>2. Cardinality(Spoiled') + (IF Unclean' THEN 1 ELSE 0) <= logFaults'
  BY ONLY SMTT(60), <1>1, logFaults \in Nat, logFaults' = logFaults + 1,
     Cardinality(Spoiled) \in Nat, Cardinality(Spoiled') \in Nat,
     Cardinality(Spoiled') <= Cardinality(Spoiled)
<1> QED BY Zenon, <1>2 DEF Paid

\* Writing a line: it has a line of its own unless the file ended in a partial one.
LEMMA LogPaidWrite ==
  ASSUME LogConstants, LogIInv, Paid, WriteLine
  PROVE  Paid'
<1>1. /\ LogTypeOK /\ Ordered /\ logStep = "open" /\ logStep' = "written" /\ events' = events + 1
      /\ text' = text \o <<Body(events + 1), Newline>>
      /\ UNCHANGED <<entry, synced, logFaults, acked, risked>>
  BY Zenon DEF LogIInv, WriteLine, EncodeEvent
<1>2. /\ text \in Seq(Token) /\ Len(text) \in Nat /\ synced \in Nat /\ synced <= Len(text)
      /\ events \in Nat /\ logFaults \in Nat
  BY SMTT(60), <1>1 DEF LogTypeOK, Ordered, LogConstants
<1>3. events + 1 \in Nat /\ Body(events + 1) \in Token /\ Newline \in Token
  BY SMTT(60), <1>2, LogTokens
<1>4. /\ Len(text') = Len(text) + 2 /\ text'[Len(text) + 1] = Body(events + 1)
      /\ text'[Len(text) + 2] = Newline /\ \A i \in 1 .. Len(text) : text'[i] = text[i]
  BY SMTT(60), <1>1, <1>2, <1>3
<1>5. \A i \in 1 .. synced : text'[i] = text[i] BY SMTT(60), <1>2, <1>4
<1>6. /\ Cardinality(Spoiled) \in Nat /\ Cardinality(Spoiled') \in Nat
      /\ Cardinality(Spoiled') <= Cardinality(Spoiled)
  <2>1. synced' \in Nat /\ synced <= synced' /\ acked' \ risked' \subseteq acked \ risked
    BY SMTT(60), <1>1, <1>2
  <2> QED BY ZenonT(60), <1>1, <1>2, <1>5, <2>1, LogSpoiledKept
<1>7. Unclean' => Unclean
  <2> SUFFICES ASSUME ~Unclean PROVE Own(text', events', Len(text')) BY Zenon, <1>1 DEF Unclean
  <2>1. text = <<>> \/ text[Len(text)] = Newline BY Zenon, <1>1 DEF Unclean
  <2>2. Len(text) + 1 \in 1 .. Len(text') - 1 /\ Len(text) + 1 + 1 = Len(text) + 2
    BY SMTT(60), <1>2, <1>4
  <2>3. Len(text) + 1 = 1 \/ text'[Len(text) + 1 - 1] = Newline
    <3>1. CASE text = <<>> BY SMTT(60), <3>1
    <3>2. CASE text # <<>> /\ text[Len(text)] = Newline
      <4>1. Len(text) \in 1 .. Len(text) /\ Len(text) + 1 - 1 = Len(text) BY SMTT(60), <1>2, <3>2
      <4> QED BY Zenon, <1>4, <3>2, <4>1
    <3> QED BY Zenon, <2>1, <3>1, <3>2
  <2>4. text'[Len(text) + 1] = Body(events') /\ text'[Len(text) + 1 + 1] = Newline
    BY Zenon, <1>1, <1>4, <2>2
  <2>5. PICK p : p = Len(text) + 1 BY Zenon
  <2>6. p \in 1 .. Len(text') - 1 BY Zenon, <2>2, <2>5
  <2>7. text'[p] = Body(events') /\ text'[p + 1] = Newline BY Zenon, <2>4, <2>5
  <2>8. p = 1 \/ text'[p - 1] = Newline BY ONLY SMTT(60), <2>3, <2>5
  <2> QED BY Zenon, <2>6, <2>7, <2>8 DEF Own
<1>8. /\ Len(text') > 1 /\ text'[Len(text') - 1] = Body(events') /\ text'[Len(text')] = Newline
  <2>1. Len(text') - 1 = Len(text) + 1 /\ Len(text') > 1 BY SMTT(60), <1>2, <1>4
  <2> QED BY Zenon, <1>1, <1>4, <2>1
<1>9. Cardinality(Spoiled') + (IF Unclean' THEN 1 ELSE 0) <= logFaults'
  <2>1. Cardinality(Spoiled) + (IF Unclean THEN 1 ELSE 0) <= logFaults BY Zenon DEF Paid
  <2>2. logFaults' = logFaults BY Zenon, <1>1
  <2> QED BY ONLY SMTT(60), <1>2, <1>6, <1>7, <2>1, <2>2
<1> QED BY Zenon, <1>8, <1>9 DEF Paid

\* An acknowledgement spoils an event only where a fault has left a partial line.
LEMMA LogPaidSync ==
  ASSUME LogConstants, LogIInv, Paid, SyncData
  PROVE  Paid'
<1>1. /\ LogTypeOK /\ Ordered /\ logStep = "written" /\ logStep' = "open" /\ synced' = Len(text)
      /\ acked' = acked \cup {events} /\ risked \subseteq risked'
      /\ UNCHANGED <<text, events, logFaults>>
  BY Zenon DEF LogIInv, SyncData
<1>2. /\ Len(text) \in Nat /\ synced \in Nat /\ synced <= Len(text) /\ logFaults \in Nat
  BY SMTT(60), <1>1 DEF LogTypeOK, Ordered, LogConstants
<1>3. Spoiled' \subseteq Spoiled \cup (IF Unclean THEN {events} ELSE {})
  <2> SUFFICES ASSUME NEW n \in Spoiled', n \notin Spoiled PROVE Unclean /\ n = events BY Zenon
  <2>1. n \in acked' \ risked' /\ ~Own(text, n, Len(text)) BY Zenon, <1>1 DEF Spoiled
  <2>2. ~Own(text, n, synced) BY ZenonT(60), <1>2, <2>1, LogOwnKept
  <2>3. n \notin acked \ risked BY Zenon, <2>2 DEF Spoiled
  <2>4. n = events BY Zenon, <1>1, <2>1, <2>3
  <2> QED BY Zenon, <1>1, <2>1, <2>4 DEF Unclean
<1>4. IsFiniteSet(Spoiled) /\ Cardinality(Spoiled) \in Nat BY Zenon, <1>1, LogSpoiledFinite
<1>5. /\ IsFiniteSet(Spoiled \cup {events})
      /\ Cardinality(Spoiled \cup {events}) <= Cardinality(Spoiled) + 1
      /\ Cardinality(Spoiled \cup {events}) \in Nat
  <2>1. /\ IsFiniteSet(Spoiled \cup {events})
        /\ Cardinality(Spoiled \cup {events}) =
             IF events \in Spoiled THEN Cardinality(Spoiled) ELSE Cardinality(Spoiled) + 1
    BY Zenon, <1>4, FS_AddElement
  <2> QED BY ONLY SMTT(60), <1>4, <2>1
<1>6. /\ Cardinality(Spoiled') \in Nat
      /\ Cardinality(Spoiled') <= Cardinality(Spoiled) + (IF Unclean THEN 1 ELSE 0)
  <2>1. CASE Unclean
    <3>1. Spoiled' \subseteq Spoiled \cup {events} BY Zenon, <1>3, <2>1
    <3>2. IsFiniteSet(Spoiled') /\ Cardinality(Spoiled') <= Cardinality(Spoiled \cup {events})
      BY Zenon, <1>5, <3>1, FS_Subset
    <3>3. Cardinality(Spoiled') \in Nat BY Zenon, <3>2, FS_CardinalityType
    <3> QED BY ONLY SMTT(60), <1>4, <1>5, <2>1, <3>2, <3>3
  <2>2. CASE ~Unclean
    <3>1. Spoiled' \subseteq Spoiled BY Zenon, <1>3, <2>2
    <3>2. IsFiniteSet(Spoiled') /\ Cardinality(Spoiled') <= Cardinality(Spoiled)
      BY Zenon, <1>4, <3>1, FS_Subset
    <3>3. Cardinality(Spoiled') \in Nat BY Zenon, <3>2, FS_CardinalityType
    <3> QED BY ONLY SMTT(60), <1>4, <2>2, <3>2, <3>3
  <2> QED BY Zenon, <2>1, <2>2
<1>7. ~Unclean' /\ logStep' # "written"
  <2>1. text[Len(text)] = Newline /\ logStep' # "written" BY Zenon, <1>1 DEF Paid
  <2> QED BY Zenon, <1>1, <2>1 DEF Unclean
<1>8. Cardinality(Spoiled') + (IF Unclean' THEN 1 ELSE 0) <= logFaults'
  <2>1. Cardinality(Spoiled) + (IF Unclean THEN 1 ELSE 0) <= logFaults BY Zenon DEF Paid
  <2>2. logFaults' = logFaults BY Zenon, <1>1
  <2> QED BY ONLY SMTT(60), <1>2, <1>4, <1>6, <1>7, <2>1, <2>2
<1> QED BY Zenon, <1>7, <1>8 DEF Paid

\* The faults.
LEMMA LogPaidFault ==
  ASSUME LogConstants, LogIInv, Paid,
         WriteLineFails \/ OpenFails \/ SyncFails \/ KillLogger \/ LogPowerLoss
  PROVE  Paid'
<1>1. /\ LogTypeOK /\ Ordered /\ logFaults' = logFaults + 1 /\ UNCHANGED <<acked, risked>>
      /\ logStep' # "written"
  BY ZenonT(60) DEF LogIInv, WriteLineFails, OpenFails, SyncFails, KillLogger, LogPowerLoss
<1>2. /\ text \in Seq(Token) /\ Len(text) \in Nat /\ synced \in Nat /\ synced <= Len(text)
      /\ events \in Nat /\ logFaults \in Nat
  BY SMTT(60), <1>1 DEF LogTypeOK, Ordered, LogConstants
<1>3. ASSUME synced' \in Nat, synced <= synced', \A i \in 1 .. synced : text'[i] = text[i]
      PROVE  Paid'
  <2>1. acked' \ risked' \subseteq acked \ risked BY Zenon, <1>1
  <2>2. /\ Cardinality(Spoiled) \in Nat /\ Cardinality(Spoiled') \in Nat
        /\ Cardinality(Spoiled') <= Cardinality(Spoiled)
    BY ZenonT(60), <1>1, <1>2, <1>3, <2>1, LogSpoiledKept
  <2> QED BY ZenonT(60), <1>1, <1>2, <2>2, LogFaultPays
<1>4. CASE WriteLineFails
  <2>1. PICK t \in {<<>>, <<Fragment>>, <<Body(events + 1)>>} : text' = text \o t
    BY Zenon, <1>4 DEF WriteLineFails
  <2>2. t \in Seq(Token)
    <3>1. events + 1 \in Nat /\ Body(events + 1) \in Token /\ Fragment \in Token
      BY SMTT(60), <1>2, LogTokens
    <3>2. <<>> \in Seq(Token) /\ <<Fragment>> \in Seq(Token) /\ <<Body(events + 1)>> \in Seq(Token)
      BY SMTT(60), <3>1
    <3> QED BY Zenon, <2>1, <3>2
  <2>3. \A i \in 1 .. Len(text) : text'[i] = text[i] BY SMTT(60), <1>2, <2>1, <2>2
  <2>4. synced' = synced BY Zenon, <1>4 DEF WriteLineFails
  <2>5. synced' \in Nat /\ synced <= synced' /\ 1 .. synced \subseteq 1 .. Len(text)
    BY SMTT(60), <1>2, <2>4
  <2> QED BY Zenon, <1>3, <2>3, <2>5
<1>5. CASE OpenFails \/ SyncFails \/ KillLogger
  <2>1. synced' = synced /\ text' = text BY Zenon, <1>5 DEF OpenFails, SyncFails, KillLogger
  <2>2. synced' \in Nat /\ synced <= synced' BY SMTT(60), <1>2, <2>1
  <2> QED BY Zenon, <1>3, <2>1, <2>2
<1>6. ASSUME NEW n \in synced .. Len(text), text' = SubSeq(text, 1, n), synced' = n PROVE Paid'
  <2>1. n \in Nat /\ synced <= n /\ n <= Len(text) BY SMTT(60), <1>2
  <2>2. \A i \in 1 .. synced : text'[i] = text[i] BY SMTT(60), <1>2, <1>6, <2>1
  <2> QED BY Zenon, <1>3, <1>6, <2>1, <2>2
<1>7. CASE entry = "volatile" /\ LogPowerLoss
  <2>1. Spoiled' = {} /\ Spoiled = {} BY Zenon, <1>1, <1>7 DEF LogIInv, Spoiled
  <2>2. Cardinality({}) = 0 BY Zenon, FS_EmptySet
  <2>3. /\ Cardinality(Spoiled) \in Nat /\ Cardinality(Spoiled') \in Nat
        /\ Cardinality(Spoiled') <= Cardinality(Spoiled)
    BY ONLY SMTT(60), <2>1, <2>2
  <2> QED BY ZenonT(60), <1>1, <1>2, <2>3, LogFaultPays
<1>8. CASE LogPowerLoss BY ZenonT(60), <1>6, <1>7, <1>8 DEF LogPowerLoss
<1> QED BY Zenon, <1>4, <1>5, <1>8

\* Opening the file, and a step of something else.
LEMMA LogPaidOpen ==
  ASSUME LogConstants, LogIInv, Paid, OpenLog \/ SyncNew \/ UNCHANGED logVars
  PROVE  Paid'
<1>1. UNCHANGED <<text, synced, events, logFaults, acked, risked>>
  BY Zenon DEF OpenLog, SyncNew, logVars
<1>2. Spoiled' = Spoiled BY Zenon, <1>1 DEF Spoiled
<1>3. logStep' = logStep \/ (logStep # "written" /\ logStep' # "written")
  BY Zenon DEF OpenLog, SyncNew, logVars
<1>4. Unclean' <=> Unclean BY ZenonT(60), <1>1, <1>3 DEF Unclean
<1>5. (IF Unclean' THEN 1 ELSE 0) = (IF Unclean THEN 1 ELSE 0) BY Zenon, <1>4
<1>6. Cardinality(Spoiled') + (IF Unclean' THEN 1 ELSE 0) <= logFaults'
  BY Zenon, <1>1, <1>2, <1>5 DEF Paid
<1> QED BY ZenonT(60), <1>1, <1>3, <1>6 DEF Paid

\* An acknowledged event is in the durable part of the log, in its order, and each
\* fault spoils the line of one later event at most.
THEOREM LogIsKept == LogSpec => []LogKept
<1>1. LogConstants BY LogAssumption
<1>2. LogSpec => []LogIInv BY Zenon, <1>1, LogInvariance
<1>3. LogSpec => []AcknowledgedLogged BY Zenon, <1>1, AcknowledgedAreLogged
<1>4. LogInit => Paid
  <2> SUFFICES ASSUME LogInit PROVE Paid BY Zenon
  <2>1. Spoiled = {} /\ ~Unclean /\ logFaults = 0 /\ logStep # "written"
    BY ZenonT(60) DEF LogInit, Spoiled, Unclean
  <2>2. Cardinality({}) = 0 BY Zenon, FS_EmptySet
  <2>3. Cardinality(Spoiled) + (IF Unclean THEN 1 ELSE 0) <= logFaults
    BY ONLY SMTT(60), <2>1, <2>2
  <2> QED BY Zenon, <2>1, <2>3 DEF Paid
<1>5. LogIInv /\ Paid /\ [LogNext]_logVars => Paid'
  BY ZenonT(60), <1>1, LogPaidWrite, LogPaidSync, LogPaidFault, LogPaidOpen DEF LogNext
<1>6. ASSUME LogIInv, Paid, AcknowledgedLogged PROVE LogKept
  <2>1. LogTypeOK BY Zenon, <1>6 DEF LogIInv
  <2>2. Cardinality(Spoiled) \in Nat BY Zenon, <1>1, <2>1, LogSpoiledFinite
  <2>3. logFaults \in Nat BY SMTT(60), <1>1, <2>1 DEF LogTypeOK, LogConstants
  <2>4. Cardinality(Spoiled) + (IF Unclean THEN 1 ELSE 0) <= logFaults BY Zenon, <1>6 DEF Paid
  <2>5. Cardinality(Spoiled) <= logFaults BY ONLY SMTT(60), <2>2, <2>3, <2>4
  <2> QED BY Zenon, <1>6, <2>1, <2>5 DEF LogKept, SpoiledPerFault
<1> QED BY <1>2, <1>3, <1>4, <1>5, <1>6, PTL DEF LogSpec
=============================================================================
