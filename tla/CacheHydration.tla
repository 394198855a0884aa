--------------------------- MODULE CacheHydration ---------------------------
(***************************************************************************)
(* The entries of the derived blob cache (reflink-forest-cache): hydration *)
(* from the cold store under single flight, publication by hard link,      *)
(* quarantine of invalid entries, eviction and reconciliation.             *)
(*                                                                         *)
(* A handle is the result of one Cache::open.  The daemon opens two on the *)
(* same root, one for checkouts and one for maintenance; entry locks and   *)
(* flights belong to a handle, the files belong to all.  A lock stripe     *)
(* covers several blobs; no operation takes a second stripe, so one lock   *)
(* per blob behaves the same.                                              *)
(***************************************************************************)
EXTENDS Integers, FiniteSets

CONSTANTS Blob, Thread, Handle,
          HandleOf,      \* the handle each thread uses
          Free,          \* no thread
          MaxFaults,     \* bound on corruptions and evictions
          MaxCalls       \* bound on calls of a thread

VARIABLES
  leaf,       \* the entry of each blob: "missing", "valid" or "invalid"
  quarantine, \* blobs with a valid file below .quarantine
  lock,       \* holder of each handle's lock of a blob
  flight,     \* leader of each handle's flight for a blob
  landed,     \* flights whose completion has been announced
  pc,         \* where each thread is
  blob,       \* the blob it works on
  held,       \* what it moved to the quarantine: "missing", "valid", "invalid"
  temp,       \* does its temporary file exist?
  retried,    \* has its hydration been retried?
  direct,     \* does it publish bytes it already has, without a flight?
  result,     \* outcome of the last call
  calls,
  published,  \* history: blobs whose valid entry was published and not evicted
  disturbed,  \* history: has anything interfered with a publication?
  abandoned,  \* history: flights whose leader panicked
  faults

files == <<leaf, quarantine>>
local == <<blob, held, temp, retried, direct, result, calls>>
sync == <<lock, flight, landed>>
history == <<published, disturbed, abandoned, faults>>
vars == <<files, sync, pc, local, history>>

EntryStatus == {"missing", "valid", "invalid"}

Leading == {"lead", "lookup", "discard_lock", "inspect", "move", "recheck",
            "publish_lock", "stream", "link", "verify", "complete", "remove"}

\* Every variable has its type.
TypeOK ==
  /\ leaf \in [Blob -> EntryStatus]
  /\ quarantine \subseteq Blob
  /\ lock \in [Handle \X Blob -> Thread \cup {Free}]
  /\ flight \in [Handle \X Blob -> Thread \cup {Free}]
  /\ landed \subseteq Handle \X Blob
  /\ pc \in [Thread -> {"idle", "dead", "check", "join", "wait", "reconcile", "sweep"} \cup Leading]
  /\ blob \in [Thread -> Blob]
  /\ held \in [Thread -> EntryStatus]
  /\ temp \in [Thread -> BOOLEAN]
  /\ retried \in [Thread -> BOOLEAN]
  /\ direct \in [Thread -> BOOLEAN]
  /\ result \in [Thread -> {"none", "ok", "rejected", "error"}]
  /\ calls \in [Thread -> 0 .. MaxCalls]
  /\ published \subseteq Blob
  /\ disturbed \in BOOLEAN
  /\ abandoned \subseteq Handle \X Blob
  /\ faults \in 0 .. MaxFaults

\* A cache left by an earlier process may hold invalid entries.
Init ==
  /\ leaf \in [Blob -> EntryStatus]
  /\ quarantine = {}
  /\ lock = [k \in Handle \X Blob |-> Free]
  /\ flight = [k \in Handle \X Blob |-> Free]
  /\ landed = {}
  /\ pc = [t \in Thread |-> "idle"]
  /\ blob \in [Thread -> Blob]
  /\ held = [t \in Thread |-> "missing"]
  /\ temp = [t \in Thread |-> FALSE]
  /\ retried = [t \in Thread |-> FALSE]
  /\ direct = [t \in Thread |-> FALSE]
  /\ result = [t \in Thread |-> "none"]
  /\ calls = [t \in Thread |-> 0]
  /\ published = {b \in Blob : leaf[b] = "valid"}
  /\ disturbed = FALSE
  /\ abandoned = {}
  /\ faults = 0

Key(t) == <<HandleOf[t], blob[t]>>
Leaf(t) == leaf[blob[t]]
Goto(t, l) == pc' = [pc EXCEPT ![t] = l]

\* verified_path: the status of the entry at the time it is read.
Status(t) == Leaf(t)

\* A leader announces the outcome before it returns.
Return(t, r) ==
  /\ result' = [result EXCEPT ![t] = r]
  /\ Goto(t, IF flight[Key(t)] = t THEN "complete" ELSE "idle")

-----------------------------------------------------------------------------
(* singleflight_hydrate.                                                   *)

\* What the call of any public method starts with.
Call(t, b, isDirect, r) ==
  /\ pc[t] = "idle" /\ calls[t] < MaxCalls
  /\ blob' = [blob EXCEPT ![t] = b]
  /\ retried' = [retried EXCEPT ![t] = FALSE]
  /\ direct' = [direct EXCEPT ![t] = isDirect]
  /\ result' = [result EXCEPT ![t] = r]
  /\ calls' = [calls EXCEPT ![t] = @ + 1]

Hydrate(t, b) ==
  /\ Call(t, b, FALSE, "none")
  /\ Goto(t, "check")
  /\ UNCHANGED <<files, sync, held, temp, history>>

\* A valid entry ends the call; the other states lead to the flight.
Check(t) ==
  /\ pc[t] = "check"
  /\ \/ /\ Status(t) = "valid"
        /\ Return(t, "ok")
     \/ Status(t) # "valid" /\ Goto(t, "join") /\ UNCHANGED result
  /\ UNCHANGED <<files, sync, blob, held, temp, retried, direct, calls, history>>

\* Fault: a flight that has landed, but was not removed yet, is replaced.
JoinReplacing(t) ==
  /\ pc[t] = "join"
  /\ \/ /\ flight[Key(t)] = Free \/ Key(t) \in landed
        /\ flight' = [flight EXCEPT ![Key(t)] = t]
        /\ landed' = landed \ {Key(t)}
        /\ Goto(t, "lead")
     \/ /\ flight[Key(t)] # Free /\ Key(t) \notin landed
        /\ Goto(t, "wait")
        /\ UNCHANGED <<flight, landed>>
  /\ UNCHANGED <<files, lock, local, history>>

\* The first caller leads the flight.  A follower waits for it to land; one that
\* finds it landed looks at the entry again.
Join(t) ==
  /\ pc[t] = "join"
  /\ \/ /\ flight[Key(t)] = Free
        /\ flight' = [flight EXCEPT ![Key(t)] = t]
        /\ Goto(t, "lead")
     \/ /\ flight[Key(t)] # Free
        /\ Goto(t, IF Key(t) \in landed THEN "check" ELSE "wait")
        /\ UNCHANGED flight
  /\ UNCHANGED <<files, lock, landed, local, history>>

\* Fault: nobody is notified.
CompleteSilently(t) ==
  /\ pc[t] = "complete"
  /\ landed' = landed \cup {Key(t)}
  /\ Goto(t, "remove")
  /\ UNCHANGED <<files, lock, flight, local, history>>

\* completed = true and notify_all: every follower looks at the entry again.
Complete(t) ==
  /\ pc[t] = "complete"
  /\ landed' = landed \cup {Key(t)}
  /\ pc' = [u \in Thread |-> IF u = t THEN "remove"
                             ELSE IF pc[u] = "wait" /\ Key(u) = Key(t) THEN "check"
                             ELSE pc[u]]
  /\ UNCHANGED <<files, lock, flight, local, history>>

\* The leader removes its own flight from the map and returns.
Remove(t) ==
  /\ pc[t] = "remove"
  /\ flight' = [flight EXCEPT ![Key(t)] = IF @ = t THEN Free ELSE @]
  /\ landed' = landed \ {Key(t)}
  /\ Goto(t, "idle")
  /\ UNCHANGED <<files, lock, local, history>>

\* The closure panics: the thread unwinds and releases its locks, the process
\* lives on, and the flight stays in the map and never lands.
Panic(t) ==
  /\ pc[t] \in {"lookup", "stream"} /\ ~direct[t]
  /\ faults < MaxFaults /\ faults' = faults + 1
  /\ lock' = [k \in Handle \X Blob |-> IF lock[k] = t THEN Free ELSE lock[k]]
  /\ abandoned' = abandoned \cup {Key(t)}
  /\ temp' = [temp EXCEPT ![t] = FALSE]
  /\ result' = [result EXCEPT ![t] = "error"]
  /\ disturbed' = TRUE
  /\ Goto(t, "dead")
  /\ UNCHANGED <<files, flight, landed, blob, held, retried, direct, calls, published>>

-----------------------------------------------------------------------------
(* hydrate_blob_from_chunk_inner, run by the leader.                       *)

\* Fault: the lock is not waited for.
LockIgnored(t) == lock' = [lock EXCEPT ![Key(t)] = t]

Lock(t) == lock[Key(t)] = Free /\ lock' = [lock EXCEPT ![Key(t)] = t]
Unlock(t) == lock' = [lock EXCEPT ![Key(t)] = Free]

Lead(t) ==
  /\ pc[t] = "lead"
  /\ \/ Status(t) = "valid" /\ Return(t, "ok")
     \/ Status(t) = "missing" /\ Goto(t, "lookup") /\ UNCHANGED result
     \/ Status(t) = "invalid" /\ Goto(t, "discard_lock") /\ UNCHANGED result
  /\ UNCHANGED <<files, sync, blob, held, temp, retried, direct, calls, history>>

\* discard_invalid_blob under the entry lock: inspect, move to the quarantine,
\* inspect what was moved, and restore or remove it.
DiscardLock(t) ==
  /\ pc[t] = "discard_lock" /\ Lock(t)
  /\ Goto(t, "inspect")
  /\ UNCHANGED <<files, flight, landed, local, history>>

\* After the discard a hydration looks the location up; its retry publishes.
AfterDiscard(t) == IF retried[t] THEN "publish_lock" ELSE "lookup"

Inspect(t) ==
  /\ pc[t] = "inspect"
  /\ \/ Status(t) # "invalid" /\ Unlock(t) /\ Goto(t, AfterDiscard(t))
     \/ Status(t) = "invalid" /\ Goto(t, "move") /\ UNCHANGED lock
  /\ UNCHANGED <<files, flight, landed, local, history>>

\* Does another handle hold its lock of the blob?  The locks of two handles do not
\* exclude each other.
Interferes(t) == \E h \in Handle \ {HandleOf[t]} : lock[<<h, blob[t]>>] # Free

\* The rename takes whatever has the name now.
MoveAway(t) ==
  /\ held' = [held EXCEPT ![t] = Status(t)]
  /\ leaf' = [leaf EXCEPT ![blob[t]] = "missing"]
  /\ disturbed' = (disturbed \/ Interferes(t))

Move(t) ==
  /\ pc[t] = "move" /\ MoveAway(t)
  /\ IF Status(t) = "missing"
       THEN Unlock(t) /\ Goto(t, AfterDiscard(t))
       ELSE Goto(t, "recheck") /\ UNCHANGED lock
  /\ UNCHANGED <<quarantine, flight, landed, blob, temp, retried, direct, result, calls,
                 published, abandoned, faults>>

\* Fault: the file that was moved is removed without a second look.
RecheckBlindly(t) ==
  /\ pc[t] = "recheck" /\ Unlock(t)
  /\ held' = [held EXCEPT ![t] = "missing"]
  /\ Goto(t, AfterDiscard(t))
  /\ UNCHANGED <<files, flight, landed, blob, temp, retried, direct, result, calls, history>>

\* restore_quarantined links the file back, unless the name is taken again.
Restored(t) == IF Status(t) = "missing" THEN "valid" ELSE Status(t)

Recheck(t) ==
  /\ pc[t] = "recheck" /\ Unlock(t)
  /\ leaf' = [leaf EXCEPT ![blob[t]] = IF held[t] = "valid" THEN Restored(t) ELSE @]
  /\ held' = [held EXCEPT ![t] = "missing"]
  /\ Goto(t, AfterDiscard(t))
  /\ UNCHANGED <<quarantine, flight, landed, blob, temp, retried, direct, result, calls, history>>

\* The catalog lookup; a missing location or one that is no blob is an error.
Lookup(t) ==
  /\ pc[t] = "lookup"
  /\ Goto(t, "publish_lock")
  /\ UNCHANGED <<files, sync, local, history>>

\* publish_blob_streamed: an existing entry is verified instead.
PublishLock(t) ==
  /\ pc[t] = "publish_lock" /\ Lock(t)
  /\ Goto(t, IF Status(t) = "missing" THEN "stream" ELSE "verify")
  /\ UNCHANGED <<files, flight, landed, local, history>>

\* The cold record is decoded into a temporary file, hashed and synchronized.
Stream(t) ==
  /\ pc[t] = "stream"
  /\ temp' = [temp EXCEPT ![t] = TRUE]
  /\ Goto(t, "link")
  /\ UNCHANGED <<files, sync, blob, held, retried, direct, result, calls, history>>

\* The hard link publishes the entry, unless one exists; it fails when a
\* reconciliation took the temporary file away.
Link(t) ==
  /\ pc[t] = "link"
  /\ temp' = [temp EXCEPT ![t] = FALSE]
  /\ \/ /\ temp[t]
        /\ leaf' = [leaf EXCEPT ![blob[t]] = IF @ = "missing" THEN "valid" ELSE @]
        /\ published' = IF Status(t) = "missing" THEN published \cup {blob[t]} ELSE published
        /\ Goto(t, "verify")
        /\ UNCHANGED <<lock, result>>
     \/ /\ ~temp[t]
        /\ Unlock(t) /\ Return(t, "error")
        /\ UNCHANGED <<leaf, published>>
  /\ UNCHANGED <<quarantine, flight, landed, blob, held, retried, direct, calls,
                 disturbed, abandoned, faults>>

\* verified_path ends the publication.  A hydration that finds an invalid entry
\* discards it and publishes once more; a direct publication reports it.
Verify(t) ==
  /\ pc[t] = "verify" /\ Unlock(t)
  /\ \/ /\ Status(t) = "invalid" /\ ~retried[t] /\ ~direct[t]
        /\ retried' = [retried EXCEPT ![t] = TRUE]
        /\ Goto(t, "discard_lock") /\ UNCHANGED result
     \/ /\ Status(t) # "invalid" \/ retried[t] \/ direct[t]
        /\ Return(t, CASE Status(t) = "valid" -> "ok"
                        [] direct[t] /\ Status(t) = "invalid" -> "rejected"
                        [] OTHER -> "error")
        /\ UNCHANGED retried
  /\ UNCHANGED <<files, flight, landed, blob, held, temp, direct, calls, history>>

\* publish_blob: bytes that match the content ID are published under the same
\* protocol, without a flight.
PublishBlob(t, b) ==
  /\ Call(t, b, TRUE, "none")
  /\ lock[<<HandleOf[t], b>>] = Free
  /\ lock' = [lock EXCEPT ![<<HandleOf[t], b>>] = t]
  /\ Goto(t, IF leaf[b] = "missing" THEN "stream" ELSE "verify")
  /\ UNCHANGED <<files, flight, landed, held, temp, history>>

\* open_verified_blob, for a clone: the descriptor whose content was hashed.
OpenVerifiedBlob(t, b) ==
  /\ Call(t, b, FALSE, IF leaf[b] = "valid" THEN "ok" ELSE "rejected")
  /\ lock[<<HandleOf[t], b>>] = Free
  /\ UNCHANGED <<files, sync, pc, held, temp, history>>

\* Any file operation may fail: the cold record is missing or damaged, the disk is
\* full, a directory cannot be synchronized.  The caller's temporary file is
\* removed; what it had moved to the quarantine stays there.
Fail(t) ==
  /\ pc[t] \in {"check", "lead", "lookup", "inspect", "move", "recheck",
               "stream", "link", "verify", "reconcile", "sweep"}
  /\ faults < MaxFaults /\ faults' = faults + 1
  /\ lock' = [k \in Handle \X Blob |-> IF lock[k] = t THEN Free ELSE lock[k]]
  /\ quarantine' = IF held[t] = "valid" THEN quarantine \cup {blob[t]} ELSE quarantine
  /\ held' = [held EXCEPT ![t] = "missing"]
  /\ temp' = [temp EXCEPT ![t] = FALSE]
  /\ disturbed' = TRUE
  /\ Return(t, "error")
  /\ UNCHANGED <<leaf, flight, landed, blob, retried, direct, calls, published, abandoned>>

-----------------------------------------------------------------------------
(* Reconciliation: every leaf, then the files that are no canonical leaf.  *)

\* reconcile_leaf inspects under the lock and quarantines an invalid entry.
ReconcileLeaf(t, b) ==
  /\ Call(t, b, FALSE, "none")
  /\ lock[<<HandleOf[t], b>>] = Free
  /\ \/ /\ leaf[b] = "invalid"
        /\ lock' = [lock EXCEPT ![<<HandleOf[t], b>>] = t]
        /\ Goto(t, "reconcile")
     \/ leaf[b] # "invalid" /\ Goto(t, "sweep") /\ UNCHANGED lock
  /\ UNCHANGED <<files, flight, landed, held, temp, history>>

\* quarantine_untrusted does not look at what it moved: the file stays below
\* .quarantine.
Quarantine(t) ==
  /\ pc[t] = "reconcile" /\ Unlock(t)
  /\ quarantine' = IF Status(t) = "valid" THEN quarantine \cup {blob[t]} ELSE quarantine
  /\ leaf' = [leaf EXCEPT ![blob[t]] = "missing"]
  /\ disturbed' = (disturbed \/ Interferes(t))
  /\ Goto(t, "sweep")
  /\ UNCHANGED <<flight, landed, local, published, abandoned, faults>>

\* A temporary file is no canonical leaf: it is moved away without any lock, also
\* when its publication is still in progress.
Sweep(t) ==
  /\ pc[t] = "sweep"
  /\ temp' = [u \in Thread |-> temp[u] /\ blob[u] # blob[t]]
  /\ disturbed' = (disturbed \/ \E u \in Thread : temp[u] /\ blob[u] = blob[t])
  /\ Goto(t, "idle")
  /\ UNCHANGED <<files, sync, blob, held, retried, direct, result, calls,
                 published, abandoned, faults>>

-----------------------------------------------------------------------------
(* Eviction, corruption and restart.                                       *)

\* evict_entry, under the lock of its handle.
Evict(h, b) ==
  /\ faults < MaxFaults /\ faults' = faults + 1
  /\ lock[<<h, b>>] = Free
  /\ leaf[b] # "missing"
  /\ leaf' = [leaf EXCEPT ![b] = "missing"]
  /\ published' = published \ {b}
  /\ disturbed' = TRUE
  /\ UNCHANGED <<quarantine, sync, pc, local, abandoned>>

Corrupt(b) ==
  /\ faults < MaxFaults /\ faults' = faults + 1
  /\ leaf[b] = "valid"
  /\ leaf' = [leaf EXCEPT ![b] = "invalid"]
  /\ published' = published \ {b}
  /\ disturbed' = TRUE
  /\ UNCHANGED <<quarantine, sync, pc, local, abandoned>>

\* The process ends.  What a discard had moved stays in the quarantine.
Restart ==
  /\ faults < MaxFaults /\ faults' = faults + 1
  /\ quarantine' = quarantine \cup {blob[t] : t \in {u \in Thread : held[u] = "valid"}}
  /\ lock' = [k \in Handle \X Blob |-> Free]
  /\ flight' = [k \in Handle \X Blob |-> Free]
  /\ landed' = {} /\ abandoned' = {}
  /\ pc' = [t \in Thread |-> "idle"]
  /\ held' = [t \in Thread |-> "missing"]
  /\ temp' = [t \in Thread |-> FALSE]
  /\ retried' = [t \in Thread |-> FALSE]
  /\ direct' = [t \in Thread |-> FALSE]
  /\ result' = [t \in Thread |-> "none"]
  /\ UNCHANGED <<leaf, blob, calls, published, disturbed>>

-----------------------------------------------------------------------------
Step(t) ==
  \/ Check(t) \/ Join(t) \/ Complete(t) \/ Remove(t)
  \/ Lead(t) \/ DiscardLock(t) \/ Inspect(t) \/ Move(t) \/ Recheck(t)
  \/ Lookup(t) \/ PublishLock(t) \/ Stream(t) \/ Link(t) \/ Verify(t)
  \/ Quarantine(t) \/ Sweep(t)

Next ==
  \/ \E t \in Thread : Step(t) \/ Panic(t) \/ Fail(t)
  \/ \E t \in Thread, b \in Blob :
       Hydrate(t, b) \/ PublishBlob(t, b) \/ OpenVerifiedBlob(t, b) \/ ReconcileLeaf(t, b)
  \/ \E h \in Handle, b \in Blob : Evict(h, b)
  \/ \E b \in Blob : Corrupt(b)
  \/ Restart

Spec == Init /\ [][Next]_vars

\* Threads run.
FairSpec == Spec /\ \A t \in Thread : WF_vars(Step(t))

-----------------------------------------------------------------------------
(* Properties.                                                             *)

\* A blob is read from the cold store and published by one thread of a handle at
\* a time, also while a landed flight is still in the map: the thread that leads
\* is the one the map names.
SingleFlight ==
  \A t \in Thread : pc[t] \in Leading /\ ~direct[t] => flight[Key(t)] = t

\* Only eviction deletes a valid entry.  A discard that inspected an invalid
\* entry and then moved the valid one another handle had put in its place brings
\* it back; a reconciliation or a crash may strand it, but only in the quarantine.
ValidSurvives ==
  \A b \in published :
    \/ leaf[b] = "valid"
    \/ b \in quarantine
    \/ \E t \in Thread : blob[t] = b /\ held[t] = "valid"

\* A hydration or publication fails only when a file operation failed, an eviction
\* or a sweep met it, or another handle moved the entry while it was at work: stale
\* invalid entries and concurrent callers of the same handle never make one fail.
UndisturbedSucceeds == ~disturbed => \A t \in Thread : result[t] # "error"

\* A handle's threads read a blob from the cold store and publish it one at a
\* time; only eviction deletes a valid entry; stale entries and concurrent callers
\* of a handle make no hydration or publication fail.
EntriesSound == TypeOK /\ SingleFlight /\ ValidSurvives /\ UndisturbedSucceeds

\* Every call returns.  A call waits for ever only for a flight whose leader
\* panicked: that flight stays in the map, and its followers stay with it.
CallsReturn ==
  \A t \in Thread : pc[t] # "idle" ~> (pc[t] \in {"idle", "dead"} \/ Key(t) \in abandoned)
-----------------------------------------------------------------------------
(* What the safety properties rest on.                                     *)

\* The handles the threads use; Free is none of them.
Wellformed ==
  /\ Free \notin Thread /\ HandleOf \in [Thread -> Handle]
  /\ MaxFaults \in Nat /\ MaxCalls \in Nat
ASSUME HydrationAssumption == Wellformed

\* The map names only threads at work on that flight, or one that panicked.
FlightInv ==
  \A k \in Handle \X Blob : \A t \in Thread : flight[k] = t =>
    Key(t) = k /\ ~direct[t] /\ pc[t] \in Leading \cup {"dead"}

\* A direct publication has only the steps of a publication.
DirectInv ==
  \A t \in Thread : direct[t] => pc[t] \in {"idle", "stream", "link", "verify"}

\* Inspection, quarantine and publication happen under the entry lock.
Locking == {"inspect", "move", "recheck", "stream", "link", "verify", "reconcile"}
LockInv == \A t \in Thread : pc[t] \in Locking => lock[Key(t)] = t

\* A thread has a file of its own in the quarantine only until its second look.
HeldInv == \A t \in Thread : held[t] # "missing" => pc[t] = "recheck"

\* An entry becomes invalid only by corruption.
InvalidInv == \A b \in published : leaf[b] # "invalid"

\* What an undisturbed thread finds: its temporary file, an entry that it or
\* another published, and no invalid entry once it has looked for one.
Undisturbed(t) ==
  /\ result[t] # "error"
  /\ pc[t] = "link" => temp[t]
  /\ pc[t] = "verify" => Leaf(t) # "missing"
  /\ ~direct[t] /\ pc[t] \in {"recheck", "lookup", "publish_lock", "stream", "link", "verify"} =>
       Leaf(t) # "invalid"

\* Every step preserves this.
IInv ==
  /\ FlightInv /\ DirectInv /\ SingleFlight
  /\ LockInv /\ HeldInv /\ InvalidInv /\ ValidSurvives
  /\ ~disturbed => \A t \in Thread : Undisturbed(t)
=============================================================================
