-------------------------- MODULE DaemonLifecycle --------------------------
(***************************************************************************)
(* Startup and shutdown of daemon processes that may share a state root or *)
(* a runtime directory: the instance lock, durable recovery, the mount and *)
(* catalog checks of the production service, the runtime lock and the      *)
(* socket, and the order in which a dropped service gives them up.  flock  *)
(* and RocksDB's own lock end with the process; a socket file does not.    *)
(***************************************************************************)
EXTENDS Integers

CONSTANTS Process,     \* daemon processes
          StateRoot,   \* state roots, each with its catalog
          RuntimeDir,  \* runtime directories
          Nobody,        \* no holder, no socket
          MaxStarts    \* bound on the startups of a process

ASSUME ProcessAssumption == Nobody \notin Process /\ MaxStarts \in Nat

VARIABLES
  root, dir,     \* the state root and runtime directory of each process
  stage,            \* where each process is
  instanceLock,  \* the holder of each state root's instance.lock
  runtimeLock,   \* the holder of each runtime directory's daemon.lock
  catalogLock,   \* the process that has each catalog open
  socket,        \* daemon.sock: the process that bound it, "file", or Nobody
  running,       \* the processes whose work is recorded as running, per root
  rebuild,       \* is an object-location rebuild in progress, per root?
  starts

locks == <<instanceLock, runtimeLock, catalogLock>>
processVars == <<root, dir, stage, locks, socket, running, rebuild, starts>>

ProcessSteps == {"stopped", "locked", "recovered", "checked", "opened", "ready", "bound",
          "serving", "unlinked", "released", "unlocked"}

Tables ==
  /\ root \in [Process -> StateRoot] /\ dir \in [Process -> RuntimeDir]
  /\ stage \in [Process -> ProcessSteps]
  /\ instanceLock \in [StateRoot -> Process \cup {Nobody}]
  /\ runtimeLock \in [RuntimeDir -> Process \cup {Nobody}]
  /\ catalogLock \in [StateRoot -> Process \cup {Nobody}]
  /\ socket \in [RuntimeDir -> Process \cup {"file", Nobody}]
  /\ running \in [StateRoot -> SUBSET Process]
  /\ rebuild \in [StateRoot -> BOOLEAN]

\* Every variable has its type.
ProcessTypeOK == Tables /\ starts \in [Process -> 0 .. MaxStarts]

\* Any assignment of configurations; a regular file may lie at a socket's path,
\* and a rebuild may have been interrupted.
ProcessInit ==
  /\ root \in [Process -> StateRoot] /\ dir \in [Process -> RuntimeDir]
  /\ stage = [p \in Process |-> "stopped"]
  /\ instanceLock = [s \in StateRoot |-> Nobody]
  /\ runtimeLock = [d \in RuntimeDir |-> Nobody]
  /\ catalogLock = [s \in StateRoot |-> Nobody]
  /\ socket \in [RuntimeDir -> {"file", Nobody}]
  /\ running = [s \in StateRoot |-> {}]
  /\ rebuild \in [StateRoot -> BOOLEAN]
  /\ starts = [p \in Process |-> 0]

Free(lock, owner) == [x \in DOMAIN lock |-> IF lock[x] = owner THEN Nobody ELSE lock[x]]

-----------------------------------------------------------------------------
(* start_with_preflight.  An error on the way drops what was acquired.     *)

\* Fault: a lock that would block is taken all the same.
AcquireIgnoring(p) ==
  /\ stage[p] = "stopped" /\ starts[p] < MaxStarts
  /\ instanceLock' = [instanceLock EXCEPT ![root[p]] = p]
  /\ stage' = [stage EXCEPT ![p] = "locked"]
  /\ starts' = [starts EXCEPT ![p] = @ + 1]
  /\ UNCHANGED <<root, dir, runtimeLock, catalogLock, socket, running, rebuild>>

\* prepare and acquire_lock; StoreAlreadyInUse otherwise.
Acquire(p) ==
  /\ stage[p] = "stopped" /\ starts[p] < MaxStarts
  /\ instanceLock[root[p]] = Nobody
  /\ instanceLock' = [instanceLock EXCEPT ![root[p]] = p]
  /\ stage' = [stage EXCEPT ![p] = "locked"]
  /\ starts' = [starts EXCEPT ![p] = @ + 1]
  /\ UNCHANGED <<root, dir, runtimeLock, catalogLock, socket, running, rebuild>>

\* Fault: recovery is left to a later moment.
RecoverNothing(p) ==
  /\ stage[p] = "locked"
  /\ stage' = [stage EXCEPT ![p] = "recovered"]
  /\ UNCHANGED <<root, dir, locks, socket, running, rebuild, starts>>

\* JobStore::open_with_recovery, ScrubScheduleStore::open, MigrationStore::open.
Recover(p) ==
  /\ stage[p] = "locked"
  /\ running' = [running EXCEPT ![root[p]] = {}]
  /\ stage' = [stage EXCEPT ![p] = "recovered"]
  /\ UNCHANGED <<root, dir, locks, socket, rebuild, starts>>

\* native_preflight and checked_catalog_root.
Preflight(p) ==
  /\ stage[p] = "recovered"
  /\ stage' = [stage EXCEPT ![p] = "checked"]
  /\ UNCHANGED <<root, dir, locks, socket, running, rebuild, starts>>

OpenCatalog(p) ==
  /\ stage[p] = "checked" /\ catalogLock[root[p]] = Nobody
  /\ catalogLock' = [catalogLock EXCEPT ![root[p]] = p]
  /\ stage' = [stage EXCEPT ![p] = "opened"]
  /\ UNCHANGED <<root, dir, instanceLock, runtimeLock, socket, running, rebuild, starts>>

\* Fault: an interrupted rebuild is not noticed.
ReconcileUnchecked(p) ==
  /\ stage[p] = "opened"
  /\ stage' = [stage EXCEPT ![p] = "ready"]
  /\ UNCHANGED <<root, dir, locks, socket, running, rebuild, starts>>

\* reconcile_catalog_startup.
ReconcileCatalog(p) ==
  /\ stage[p] = "opened" /\ ~rebuild[root[p]]
  /\ stage' = [stage EXCEPT ![p] = "ready"]
  /\ UNCHANGED <<root, dir, locks, socket, running, rebuild, starts>>

\* Fault: a stale socket is removed before the runtime lock is held.
BindUnlinkingFirst(p) ==
  /\ stage[p] = "ready" /\ socket[dir[p]] # "file"
  /\ socket' = [socket EXCEPT ![dir[p]] = Nobody]
  /\ IF runtimeLock[dir[p]] = Nobody
       THEN runtimeLock' = [runtimeLock EXCEPT ![dir[p]] = p] /\ stage' = [stage EXCEPT ![p] = "bound"]
       ELSE UNCHANGED <<runtimeLock, stage>>
  /\ UNCHANGED <<root, dir, instanceLock, catalogLock, running, rebuild, starts>>

\* Daemon::bind up to the removal of an old socket.
BindLock(p) ==
  /\ stage[p] = "ready" /\ runtimeLock[dir[p]] = Nobody /\ socket[dir[p]] # "file"
  /\ runtimeLock' = [runtimeLock EXCEPT ![dir[p]] = p]
  /\ socket' = [socket EXCEPT ![dir[p]] = Nobody]
  /\ stage' = [stage EXCEPT ![p] = "bound"]
  /\ UNCHANGED <<root, dir, instanceLock, catalogLock, running, rebuild, starts>>

BindSocket(p) ==
  /\ stage[p] = "bound"
  /\ socket' = [socket EXCEPT ![dir[p]] = p]
  /\ stage' = [stage EXCEPT ![p] = "serving"]
  /\ UNCHANGED <<root, dir, locks, running, rebuild, starts>>

\* A failed step drops the startup state: no socket was bound.
StartFails(p) ==
  /\ stage[p] \in {"locked", "recovered", "checked", "opened", "ready", "bound"}
  /\ instanceLock' = Free(instanceLock, p)
  /\ runtimeLock' = Free(runtimeLock, p)
  /\ catalogLock' = Free(catalogLock, p)
  /\ stage' = [stage EXCEPT ![p] = "stopped"]
  /\ UNCHANGED <<root, dir, socket, running, rebuild, starts>>

-----------------------------------------------------------------------------
(* Service: workers record their work as running and settle it.  The       *)
(* workers borrow the service, so that none outlives it.                   *)

Work(p) ==
  /\ stage[p] = "serving"
  /\ \/ running' = [running EXCEPT ![root[p]] = @ \cup {p}]
     \/ running' = [running EXCEPT ![root[p]] = @ \ {p}]
  /\ UNCHANGED <<root, dir, stage, locks, socket, rebuild, starts>>

\* Fault: the locks go before the socket is removed.
DropLockFirst(p) ==
  /\ stage[p] = "serving" /\ p \notin running[root[p]]
  /\ runtimeLock' = Free(runtimeLock, p)
  /\ instanceLock' = Free(instanceLock, p)
  /\ stage' = [stage EXCEPT ![p] = "unlinked"]
  /\ UNCHANGED <<root, dir, catalogLock, socket, running, rebuild, starts>>

\* Drop for Daemon: the path is removed, whoever's socket it is; then the fields
\* go in their order: runtime lock, instance lock, and at last the catalog.
DropSocket(p) ==
  /\ stage[p] = "serving" /\ p \notin running[root[p]]
  /\ socket' = [socket EXCEPT ![dir[p]] = Nobody]
  /\ stage' = [stage EXCEPT ![p] = "unlinked"]
  /\ UNCHANGED <<root, dir, locks, running, rebuild, starts>>

DropRuntimeLock(p) ==
  /\ stage[p] = "unlinked"
  /\ runtimeLock' = Free(runtimeLock, p)
  /\ stage' = [stage EXCEPT ![p] = "released"]
  /\ UNCHANGED <<root, dir, instanceLock, catalogLock, socket, running, rebuild, starts>>

DropInstanceLock(p) ==
  /\ stage[p] = "released"
  /\ instanceLock' = Free(instanceLock, p)
  /\ stage' = [stage EXCEPT ![p] = "unlocked"]
  /\ UNCHANGED <<root, dir, runtimeLock, catalogLock, socket, running, rebuild, starts>>

DropCatalog(p) ==
  /\ stage[p] = "unlocked"
  /\ catalogLock' = Free(catalogLock, p)
  /\ stage' = [stage EXCEPT ![p] = "stopped"]
  /\ UNCHANGED <<root, dir, instanceLock, runtimeLock, socket, running, rebuild, starts>>

KillProcess(p) ==
  /\ stage[p] # "stopped"
  /\ instanceLock' = Free(instanceLock, p)
  /\ runtimeLock' = Free(runtimeLock, p)
  /\ catalogLock' = Free(catalogLock, p)
  /\ stage' = [stage EXCEPT ![p] = "stopped"]
  /\ UNCHANGED <<root, dir, socket, running, rebuild, starts>>

\* An operator's rebuild, offline: begun, interrupted, restarted, completed.
Rebuild(s) ==
  /\ catalogLock[s] = Nobody
  /\ rebuild' = [rebuild EXCEPT ![s] = ~@]
  /\ UNCHANGED <<root, dir, stage, locks, socket, running, starts>>

-----------------------------------------------------------------------------
StartStep(p) ==
  \/ Acquire(p) \/ Recover(p) \/ Preflight(p) \/ OpenCatalog(p) \/ ReconcileCatalog(p)
  \/ BindLock(p) \/ BindSocket(p)
Drop(p) == DropSocket(p) \/ DropRuntimeLock(p) \/ DropInstanceLock(p) \/ DropCatalog(p)

ProcessNext ==
  \/ \E p \in Process : StartStep(p) \/ StartFails(p) \/ Work(p) \/ Drop(p) \/ KillProcess(p)
  \/ \E s \in StateRoot : Rebuild(s)

ProcessSpec == ProcessInit /\ [][ProcessNext]_processVars

-----------------------------------------------------------------------------
(* Properties.                                                             *)

Inside(p) == stage[p] \notin {"stopped", "unlocked"}

\* Of the processes with one state root, only one is past acquiring it and not
\* yet done: nothing is recovered, checked or served by two at a time.
OneInstance ==
  \A p, q \in Process : Inside(p) /\ Inside(q) /\ root[p] = root[q] => p = q

\* A process that serves is reachable: the socket of its directory is its own.
\* No other process that starts, stops or dies removes or replaces it.
SocketReachable == \A p \in Process : stage[p] = "serving" => socket[dir[p]] = p

\* A service never meets work that another process, which has died, left
\* recorded as running; recovery ended before the socket was bound.
NoForeignWork ==
  \A p \in Process : stage[p] = "serving" => running[root[p]] \subseteq {p}

\* A service never answers from a catalog whose locations are being rebuilt.
ServesWholeCatalog == \A p \in Process : stage[p] = "serving" => ~rebuild[root[p]]

-----------------------------------------------------------------------------
(* Each property is a consequence of which lock a process holds at which   *)
(* step, and holds because the next process takes the same lock before it  *)
(* can disturb it: Held states the first, Sound what the lock protects.    *)

\* The locks a process holds.
Held == \A p \in Process :
  /\ Inside(p) => instanceLock[root[p]] = p
  /\ stage[p] \in {"bound", "serving", "unlinked"} => runtimeLock[dir[p]] = p
  /\ stage[p] \in {"opened", "ready", "bound", "serving"} => catalogLock[root[p]] = p

\* What they protect: the socket, the recovered records and the catalog.
Sound == \A p \in Process :
  /\ stage[p] = "serving" => socket[dir[p]] = p
  /\ stage[p] \in {"recovered", "checked", "opened", "ready", "bound", "serving"} => running[root[p]] \subseteq {p}
  /\ stage[p] \in {"ready", "bound", "serving"} => ~rebuild[root[p]]

ProcessIInv == Tables /\ Held /\ Sound

\* One process works on a state root; a serving one owns its socket, meets no dead
\* process's work and has no rebuild in progress.
ServiceSafe ==
  ProcessTypeOK /\ OneInstance /\ SocketReachable /\ NoForeignWork /\ ServesWholeCatalog
=============================================================================
