--------------------------- MODULE CacheAdmission ---------------------------
(***************************************************************************)
(* Reserve admission (CacheCapacityCoordinator of reflink-forest-cache):   *)
(* an allocation is preceded by a measurement of the free space of the     *)
(* host and guest filesystems, deterministic eviction of cache entries     *)
(* when a reserve would be short, and a second measurement.  A coordinator *)
(* keeps its admission lock until the allocation returns.  The daemon has  *)
(* one coordinator for checkouts and one for maintenance; imports and      *)
(* compactions bring theirs.                                               *)
(***************************************************************************)
EXTENDS Integers, FiniteSets, FiniteSetsExt

CONSTANTS Client, Coordinator,
          CoordinatorOf,            \* the coordinator each client uses
          Nobody,                   \* no client
          Entry,                    \* cache entries, in content-ID order
          Size,                     \* logical bytes of each
          HostReserve, GuestReserve,
          HostBytes, GuestBytes,    \* size of the two domains
          MaxProjected,             \* bound on a projected allocation
          MaxOther                  \* bound on what others allocate

ASSUME ClientAssumption ==
  Nobody \notin Client /\ CoordinatorOf \in [Client -> Coordinator]
ASSUME BytesAssumption ==
  /\ HostReserve \in Nat /\ GuestReserve \in Nat
  /\ HostBytes \in Nat /\ GuestBytes \in Nat
  /\ MaxProjected \in Nat /\ MaxOther \in Nat
  /\ Entry \subseteq Nat /\ IsFiniteSet(Entry) /\ Size \in [Entry -> Nat]

VARIABLES
  host, guest,   \* free bytes of the two domains
  cached,        \* entries present
  holder,        \* client that holds each coordinator's admission lock
  phase,         \* where each client is
  projected,     \* its projected allocation
  pass,          \* its eviction pass
  other,         \* bytes allocated without admission
  intruded,      \* history: an allocation without admission, or in another's
  shared         \* history: has an eviction pass met another client's pass?

space == <<host, guest>>
admission == <<holder, phase, projected, pass>>
ledger == <<other, intruded, shared>>
admissionVars == <<space, cached, admission, ledger>>

\* u64::saturating_sub.
Minus(a, b) == IF a > b THEN a - b ELSE 0
Least(a, b) == IF a < b THEN a ELSE b

\* ReserveViolation::new: shortfall_bytes, 0 when there is no violation.
Shortfall(available, p, reserve) == Minus(reserve, Minus(available, p))

\* ReservePolicy::admit, and required_reclaim_bytes of its error.
Admit(h, g, p) == Shortfall(h, p, HostReserve) = 0 /\ Shortfall(g, p, GuestReserve) = 0
RequiredReclaim(h, g, p) ==
  LET hs == Shortfall(h, p, HostReserve)
      gs == Shortfall(g, p, GuestReserve)
  IN  IF hs > gs THEN hs ELSE gs

\* Cache::usage: the bytes of all entries, counted.
BytesOf(S) == UNION {{e} \X (1 .. Size[e]) : e \in S}
LogicalBytes(S) == Cardinality(BytesOf(S))
Usage == LogicalBytes(cached)

\* op is what the admission is for; reclaim is required_reclaim_bytes of the first
\* violation; todo holds the scanned entries not looked at yet, evicted the ones
\* unlinked.
Pass == [op : {"none", "relief", "publish", "work"},
         reclaim : Nat, target : Nat, remaining : Nat,
         todo : SUBSET Entry, evicted : SUBSET Entry]
NoPass == [op |-> "none", reclaim |-> 0, target |-> 0, remaining |-> 0, todo |-> {}, evicted |-> {}]

\* Every variable has its type.
AdmissionTypeOK ==
  /\ host \in Nat /\ guest \in Nat
  /\ cached \subseteq Entry
  /\ holder \in [Coordinator -> Client \cup {Nobody}]
  /\ phase \in [Client -> {"idle", "usage", "scan", "evict", "remeasure", "operate"}]
  /\ projected \in [Client -> 0 .. MaxProjected]
  /\ pass \in [Client -> Pass]
  /\ other \in 0 .. MaxOther
  /\ intruded \in BOOLEAN /\ shared \in BOOLEAN

AdmissionInit ==
  /\ host \in 0 .. HostBytes /\ guest \in 0 .. GuestBytes
  /\ cached \in SUBSET Entry
  /\ holder = [k \in Coordinator |-> Nobody]
  /\ phase = [c \in Client |-> "idle"]
  /\ projected = [c \in Client |-> 0]
  /\ pass = [c \in Client |-> NoPass]
  /\ other = 0 /\ intruded = FALSE /\ shared = FALSE

-----------------------------------------------------------------------------
Holds(c) == holder[CoordinatorOf[c]] = c
Release(c) ==
  holder' = [holder EXCEPT ![CoordinatorOf[c]] = IF @ = c THEN Nobody ELSE @]
Proceed(c, p) == phase' = [phase EXCEPT ![c] = p]

\* The call returns: its pass and its lock are gone.
EndAdmission(c) ==
  /\ Proceed(c, "idle") /\ Release(c)
  /\ pass' = [pass EXCEPT ![c] = NoPass]
  /\ projected' = [projected EXCEPT ![c] = 0]

\* Fault: the lock is not waited for.
RequestUnlocked(c, p, op) ==
  /\ phase[c] = "idle"
  /\ holder' = [holder EXCEPT ![CoordinatorOf[c]] = c]
  /\ projected' = [projected EXCEPT ![c] = p]
  /\ pass' = [pass EXCEPT ![c] = [@ EXCEPT !.op = op, !.reclaim = RequiredReclaim(host, guest, p)]]
  /\ Proceed(c, IF Admit(host, guest, p) THEN "operate" ELSE "usage")
  /\ shared' = (shared \/ \E d \in Client : phase[d] # "idle")
  /\ UNCHANGED <<space, cached, other, intruded>>

\* admit_locked, under the lock: the first measurement.
Request(c, p, op) ==
  /\ phase[c] = "idle" /\ holder[CoordinatorOf[c]] = Nobody
  /\ holder' = [holder EXCEPT ![CoordinatorOf[c]] = c]
  /\ projected' = [projected EXCEPT ![c] = p]
  /\ pass' = [pass EXCEPT ![c] = [@ EXCEPT !.op = op, !.reclaim = RequiredReclaim(host, guest, p)]]
  /\ Proceed(c, IF Admit(host, guest, p) THEN "operate" ELSE "usage")
  /\ shared' = (shared \/ \E d \in Client : phase[d] # "idle")
  /\ UNCHANGED <<space, cached, other, intruded>>

\* relieve_cache_pressure, the cache-pressure job: an admission for nothing.
RelieveCachePressure(c, p) == Request(c, p, "relief")

\* publish_cache_blob, with_admission: room for one entry.
PublishCacheBlob(c, e) == Size[e] <= MaxProjected /\ Request(c, Size[e], "publish")

\* with_reserve_admission: an import, a compaction, a checkout.
AdmitWork(c, p) == Request(c, p, "work")

\* The cache-evict job calls evict_to without admission.  AdmissionNext has it empty the
\* cache; passes that stop early are those of the admissions.
EvictTo(c, bytes) ==
  /\ phase[c] = "idle"
  /\ pass' = [pass EXCEPT ![c] = [@ EXCEPT !.target = bytes, !.reclaim = Minus(Usage, bytes)]]
  /\ Proceed(c, "scan")
  /\ shared' = (shared \/ \E d \in Client : phase[d] # "idle")
  /\ UNCHANGED <<space, cached, holder, projected, other, intruded>>

\* Fault: the target is the required reclaim itself.
ChooseTargetWrongly(c) ==
  /\ phase[c] = "usage"
  /\ pass' = [pass EXCEPT ![c] = [@ EXCEPT !.target = pass[c].reclaim]]
  /\ Proceed(c, "scan")
  /\ UNCHANGED <<space, cached, holder, projected, ledger>>

ChooseTarget(c) ==
  /\ phase[c] = "usage"
  /\ pass' = [pass EXCEPT ![c] = [@ EXCEPT !.target = Minus(Usage, pass[c].reclaim)]]
  /\ Proceed(c, "scan")
  /\ UNCHANGED <<space, cached, holder, projected, ledger>>

\* evict_to scans the fan-out again.
Scan(c) ==
  /\ phase[c] = "scan"
  /\ pass' = [pass EXCEPT ![c] = [@ EXCEPT !.remaining = Usage, !.todo = cached]]
  /\ Proceed(c, "evict")
  /\ UNCHANGED <<space, cached, holder, projected, ledger>>

\* The next entry in content-ID order is unlinked, unless it is gone.  Sharing and
\* compression decide what each domain gets back.
EvictEntry(c) ==
  /\ phase[c] = "evict" /\ pass[c].todo # {} /\ pass[c].remaining > pass[c].target
  /\ LET e == Min(pass[c].todo) IN
     \/ /\ e \in cached
        /\ cached' = cached \ {e}
        /\ pass' = [pass EXCEPT ![c] = [@ EXCEPT !.todo = pass[c].todo \ {e},
                                                !.remaining = Minus(pass[c].remaining, Size[e]),
                                                !.evicted = pass[c].evicted \cup {e}]]
        /\ host' \in {host, Least(host + Size[e], HostBytes)}
        /\ guest' \in {guest, Least(guest + Size[e], GuestBytes)}
     \/ /\ e \notin cached
        /\ pass' = [pass EXCEPT ![c] = [@ EXCEPT !.todo = pass[c].todo \ {e}]]
        /\ UNCHANGED <<space, cached>>
  /\ UNCHANGED <<holder, phase, projected, ledger>>

\* The pass ends; a pass under admission measures again.
EndPass(c) ==
  /\ phase[c] = "evict" /\ (pass[c].todo = {} \/ pass[c].remaining <= pass[c].target)
  /\ \/ Holds(c) /\ Proceed(c, "remeasure") /\ UNCHANGED <<holder, projected, pass>>
     \/ ~Holds(c) /\ EndAdmission(c)
  /\ UNCHANGED <<space, cached, ledger>>

\* Fault: the bytes deleted from the cache count as free space.
RemeasureLogically(c) ==
  /\ phase[c] = "remeasure"
  /\ LET freed == LogicalBytes(pass[c].evicted) IN
     \/ freed >= pass[c].reclaim /\ Proceed(c, "operate") /\ UNCHANGED <<holder, projected, pass>>
     \/ freed < pass[c].reclaim /\ EndAdmission(c)
  /\ UNCHANGED <<space, cached, ledger>>

\* ReservesStillUnmet ends the admission.
Remeasure(c) ==
  /\ phase[c] = "remeasure"
  /\ \/ /\ Admit(host, guest, projected[c])
        /\ Proceed(c, "operate") /\ UNCHANGED <<holder, projected, pass>>
     \/ ~Admit(host, guest, projected[c]) /\ EndAdmission(c)
  /\ UNCHANGED <<space, cached, ledger>>

\* Does another admission stand between its measurement and its allocation?
Concurrent(c) == \E d \in Client \ {c} : phase[d] = "operate"

\* What an operation may take from a domain with n free bytes: at most what was
\* projected, or it fails for lack of room.
Taken(n, c) == IF pass[c].op = "relief" THEN {n} ELSE n - Least(n, projected[c]) .. n

\* The protected operation.  A publication that succeeds adds an entry.
Operate(c) ==
  /\ phase[c] = "operate" /\ EndAdmission(c)
  /\ host' \in Taken(host, c)
  /\ guest' \in Taken(guest, c)
  /\ intruded' = (intruded \/ Concurrent(c))
  /\ \/ /\ pass[c].op = "publish"
        /\ \E e \in Entry : Size[e] = projected[c] /\ cached' = cached \cup {e}
     \/ UNCHANGED cached
  /\ UNCHANGED <<other, shared>>

\* Unrelated activity allocates without admission.
Allocate(n) ==
  /\ other + n <= MaxOther /\ other' = other + n
  /\ n <= host /\ n <= guest
  /\ host' = host - n /\ guest' = guest - n
  /\ intruded' = TRUE
  /\ UNCHANGED <<cached, admission, shared>>

AdmissionNext ==
  \/ \E c \in Client : \E p \in 1 .. MaxProjected :
       RelieveCachePressure(c, p) \/ AdmitWork(c, p)
  \/ \E c \in Client : EvictTo(c, 0)
  \/ \E c \in Client : \E e \in Entry : PublishCacheBlob(c, e)
  \/ \E c \in Client :
       ChooseTarget(c) \/ Scan(c) \/ EvictEntry(c) \/ EndPass(c) \/ Remeasure(c) \/ Operate(c)
  \/ \E n \in 1 .. MaxOther : Allocate(n)

AdmissionSpec == AdmissionInit /\ [][AdmissionNext]_admissionVars

-----------------------------------------------------------------------------
\* One coordinator's lock is held from the measurement to the end of the
\* operation: clients of one coordinator never stand between the two together.
OneAdmission ==
  \A c, d \in Client :
    phase[c] = "operate" /\ phase[d] = "operate" /\ CoordinatorOf[c] = CoordinatorOf[d]
      => c = d

\* As long as nobody has allocated without admission, and none of two coordinators
\* between the other's measurement and allocation, no step takes the free space of a
\* domain below its reserve, whatever eviction gave back.
ReservesKept ==
  [][~intruded' => /\ host' < host => host' >= HostReserve
                   /\ guest' < guest => guest' >= GuestReserve]_admissionVars

\* A pass that meets no other evicts, in content-ID order, the shortest prefix of
\* the cache that frees the required logical bytes.
EvictionMinimal ==
  ~shared => \A c \in Client : pass[c].evicted # {} =>
    LET last == Max(pass[c].evicted) IN
    /\ \A e \in pass[c].todo \cup cached : e > last
    /\ LogicalBytes(pass[c].evicted \ {last}) < pass[c].reclaim

(* What a step preserves while no two passes meet: at most one client is   *)
(* active, it evicts from the front of what it scanned, and its target is  *)
(* what was there less what is required.                                   *)

Alone == ~shared => \A c, d \in Client : phase[c] # "idle" /\ phase[d] # "idle" => c = d

FreshPass(at, p) ==
  /\ at = "idle" => p = NoPass
  /\ at \in {"usage", "scan"} => p.evicted = {} /\ p.todo = {}

\* The last entry evicted, and what had been freed before it
Shortest(p) == p.evicted # {} => \E last \in p.evicted :
  (\A e \in p.evicted : e <= last) /\ LogicalBytes(p.evicted \ {last}) < p.reclaim

PrefixPass(at, p, S) ==
  /\ at = "scan" => p.target = Minus(LogicalBytes(S), p.reclaim)
  /\ at = "evict" =>
       /\ p.todo = S /\ p.remaining = LogicalBytes(S)
       /\ p.target = Minus(LogicalBytes(p.evicted) + LogicalBytes(S), p.reclaim)
  /\ \A e \in p.evicted, f \in p.todo \cup S : e < f
  /\ Shortest(p)

EvictionIInv ==
  /\ pass \in [Client -> Pass] /\ other \in 0 .. MaxOther /\ shared \in BOOLEAN
  /\ Alone
  /\ \A c \in Client : FreshPass(phase[c], pass[c])
  /\ ~shared => \A c \in Client : PrefixPass(phase[c], pass[c], cached)

\* One client of a coordinator is admitted at a time, from its measurement to its
\* publication, and nothing is evicted that was not needed.
AdmissionSound == AdmissionTypeOK /\ OneAdmission /\ EvictionMinimal
=============================================================================
