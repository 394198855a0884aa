---------------------------- MODULE DaemonWorkers ----------------------------
(***************************************************************************)
(* The daemon's fixed-purpose workers: legacy maintenance, trusted import  *)
(* and checkout, cache pressure, and operational GC.  Each claims the jobs *)
(* of its own kinds from the common queue, and decodes the payload before  *)
(* it acts.  A trusted import or checkout is known to its backend by the   *)
(* job's identifier only, which the daemon registers after the enqueue     *)
(* returned it.  A GC job lists the extra objects to retain before it      *)
(* waits for the catalog mutex.  The queue itself is module JobStore.      *)
(***************************************************************************)
EXTENDS Integers, FiniteSets

CONSTANTS Job,        \* jobs
          Object,     \* objects that only the retained source refers to
          Chunk,      \* chunk identities a payload can name
          Inventory,  \* the chunks the maintenance handler was built with
          MaxCrashes, None

VARIABLES
  job,         \* kind, payload, origin, state and error of each job
  registered,  \* jobs the trusted backend knows
  turn,        \* each worker's job, its step, and the objects it listed
  mutex,       \* who holds the coordinator's catalog mutex
  objects,     \* the objects of the current generation
  retained,    \* the objects the retained source would list
  steady,      \* history: objects retained ever since the GC job listed them
  crashes

vars == <<job, registered, turn, mutex, objects, retained, steady, crashes>>

Family == {"maintenance", "orchestrator", "pressure", "gc"}
LegacyKind == {"cache-reconcile", "cache-evict", "verify-cold-chunk"}
TrustedKind == {"trusted-import", "trusted-checkout"}
Kind == LegacyKind \cup TrustedKind \cup {"operational-gc", "cache-pressure", "other"}

\* A payload is its length and, at twelve bytes, the chunk identity it reads as.
Bytes(n) == [length |-> n, chunk |-> None]

\* Fault: the generation is written as a 64-bit number.
EncodeColdChunkWide(c) == [length |-> 16, chunk |-> None]

EncodeColdChunk(c) == [length |-> 12, chunk |-> c]
Payload == {Bytes(n) : n \in {0, 3, 8}} \cup {EncodeColdChunk(c) : c \in Chunk}

MaintenanceError == {"InvalidPayload", "UnsupportedKind", "UnconfiguredColdChunk", "Failed"}
ImportCheckoutError == {"ClientPayloadRejected", "UnsupportedJobKind", "Capacity", "Operation"}
OperationalError == {"InvalidPayload", "UnsupportedKind", "RetainedObjects", "Operational"}
Error == MaintenanceError \cup ImportCheckoutError \cup OperationalError

\* Every variable has its type.
TypeOK ==
  /\ job \in [Job -> [kind : Kind, payload : Payload, origin : {"daemon", "client"},
                      state : {"Queued", "Running", "Succeeded", "Failed"},
                      error : Error \cup {None}] \cup {None}]
  /\ registered \subseteq Job
  /\ turn \in [Family -> [job : Job, step : {"claimed", "listed", "working"},
                          listed : SUBSET Object] \cup {None}]
  /\ mutex \in {"gc", "reader", None}
  /\ objects \subseteq Object /\ retained \subseteq Object /\ steady \subseteq Object
  /\ crashes \in 0..MaxCrashes

Init ==
  /\ job = [j \in Job |-> None] /\ registered = {}
  /\ turn = [w \in Family |-> None] /\ mutex = None
  /\ objects = Object /\ retained = {} /\ steady = {} /\ crashes = 0

-----------------------------------------------------------------------------
(* The daemon's own enqueue functions, and a client's enqueue command with *)
(* any kind and payload.                                                   *)

Add(j, k, p, o) ==
  /\ job[j] = None
  /\ job' = [job EXCEPT ![j] = [kind |-> k, payload |-> p, origin |-> o,
                                state |-> "Queued", error |-> None]]
  /\ UNCHANGED <<registered, turn, mutex, objects, retained, steady, crashes>>

EnqueueLegacy(j) ==
  \/ Add(j, "cache-reconcile", Bytes(0), "daemon")
  \/ Add(j, "cache-evict", Bytes(8), "daemon")
  \/ \E c \in Chunk : Add(j, "verify-cold-chunk", EncodeColdChunk(c), "daemon")

EnqueueTrusted(j) == \E k \in TrustedKind : Add(j, k, Bytes(0), "daemon")

EnqueueOperational(j) ==
  \/ Add(j, "operational-gc", Bytes(0), "daemon")
  \/ Add(j, "cache-pressure", Bytes(8), "daemon")

ClientEnqueue(j) == \E k \in Kind, p \in Payload : Add(j, k, p, "client")

\* External: the deployment registers the identifier the enqueue returned.
Register(j) ==
  /\ job[j] # None /\ job[j].origin = "daemon" /\ job[j].kind \in TrustedKind
  /\ registered' = registered \cup {j}
  /\ UNCHANGED <<job, turn, mutex, objects, retained, steady, crashes>>

-----------------------------------------------------------------------------
(* Claiming by predicate, and how a turn ends.                             *)

\* Fault: the legacy worker takes every job on the cache.
IsLegacyMaintenanceJobWide(k) == k \in LegacyKind \cup {"cache-pressure"}

\* Fault: checkouts are left to nobody.
IsTrustedImportJob(k) == k = "trusted-import"

IsLegacyMaintenanceJob(k) == k \in LegacyKind
IsTrustedImportCheckoutJob(k) == k \in TrustedKind
IsOperationalGcJob(k) == k = "operational-gc"
IsCachePressureJob(k) == k = "cache-pressure"

Matches(w, k) ==
  \/ w = "maintenance" /\ IsLegacyMaintenanceJob(k)
  \/ w = "orchestrator" /\ IsTrustedImportCheckoutJob(k)
  \/ w = "gc" /\ IsOperationalGcJob(k)
  \/ w = "pressure" /\ IsCachePressureJob(k)

Claim(w, j) ==
  /\ turn[w] = None /\ job[j] # None /\ job[j].state = "Queued"
  /\ Matches(w, job[j].kind)
  /\ job' = [job EXCEPT ![j].state = "Running"]
  /\ turn' = [turn EXCEPT ![w] = [job |-> j, step |-> "claimed", listed |-> {}]]
  /\ UNCHANGED <<registered, mutex, objects, retained, steady, crashes>>

At(w, step) == turn[w] # None /\ turn[w].step = step
Mine(w) == job[turn[w].job]
EnterStep(w, step) == turn' = [turn EXCEPT ![w].step = step]

Succeeds(w) ==
  /\ job' = [job EXCEPT ![turn[w].job].state = "Succeeded", ![turn[w].job].error = None]
  /\ turn' = [turn EXCEPT ![w] = None]

Fails(w, error) ==
  /\ job' = [job EXCEPT ![turn[w].job].state = "Failed", ![turn[w].job].error = error]
  /\ turn' = [turn EXCEPT ![w] = None]

-----------------------------------------------------------------------------
(* MaintenanceJobHandler::execute: cache reconciliation and eviction       *)
(* (module CacheAdmission) and the verification of one chunk.              *)

Maintain ==
  /\ At("maintenance", "claimed")
  /\ LET k == Mine("maintenance").kind
         p == Mine("maintenance").payload
     IN CASE k = "cache-reconcile" /\ p.length # 0 -> Fails("maintenance", "InvalidPayload")
          [] k = "cache-evict" /\ p.length # 8 -> Fails("maintenance", "InvalidPayload")
          [] k = "verify-cold-chunk" /\ p.length # 12 -> Fails("maintenance", "InvalidPayload")
          [] k = "verify-cold-chunk" /\ p.length = 12 /\ p.chunk \notin Inventory
               -> Fails("maintenance", "UnconfiguredColdChunk")
          [] k \notin LegacyKind -> Fails("maintenance", "UnsupportedKind")
          [] OTHER -> Succeeds("maintenance") \/ Fails("maintenance", "Failed")
  /\ UNCHANGED <<registered, mutex, objects, retained, steady, crashes>>

-----------------------------------------------------------------------------
(* DaemonImportCheckoutOrchestrator::execute: the payload is refused       *)
(* before the kind is looked at; a checkout is first asked for its cache   *)
(* bytes, then materialised under its coordinator's admission lock.        *)

Orchestrate ==
  /\ At("orchestrator", "claimed")
  /\ LET k == Mine("orchestrator").kind
         p == Mine("orchestrator").payload
     IN IF p.length # 0 THEN Fails("orchestrator", "ClientPayloadRejected")
        ELSE IF k \notin TrustedKind THEN Fails("orchestrator", "UnsupportedJobKind")
        ELSE \/ Fails("orchestrator", "Operation")
             \/ k = "trusted-checkout" /\ Fails("orchestrator", "Capacity")
             \/ turn["orchestrator"].job \in registered /\ Succeeds("orchestrator")
  /\ UNCHANGED <<registered, mutex, objects, retained, steady, crashes>>

-----------------------------------------------------------------------------
(* CachePressureJobHandler::execute and OperationalGcJobHandler::execute.  *)

RelievePressure ==
  /\ At("pressure", "claimed")
  /\ IF Mine("pressure").kind # "cache-pressure" THEN Fails("pressure", "UnsupportedKind")
     ELSE IF Mine("pressure").payload.length # 8 THEN Fails("pressure", "InvalidPayload")
     ELSE Succeeds("pressure") \/ Fails("pressure", "Operational")
  /\ UNCHANGED <<registered, mutex, objects, retained, steady, crashes>>

\* Fault: the objects are not listed.
GcStartUnlisted ==
  /\ At("gc", "claimed")
  /\ EnterStep("gc", "listed") /\ steady' = retained
  /\ UNCHANGED <<job, registered, mutex, objects, retained, crashes>>

GcStart ==
  /\ At("gc", "claimed")
  /\ IF Mine("gc").kind # "operational-gc" THEN Fails("gc", "UnsupportedKind")
     ELSE IF Mine("gc").payload.length # 0 THEN Fails("gc", "InvalidPayload")
     ELSE \/ Fails("gc", "RetainedObjects")
          \/ /\ turn' = [turn EXCEPT !["gc"].step = "listed", !["gc"].listed = retained]
             /\ UNCHANGED job
  /\ steady' = retained
  /\ UNCHANGED <<registered, mutex, objects, retained, crashes>>

GcLock ==
  /\ At("gc", "listed") /\ mutex = None
  /\ mutex' = "gc"
  /\ EnterStep("gc", "working")
  /\ UNCHANGED <<job, registered, objects, retained, steady, crashes>>

\* Mark, compact and publish (module GenerationGC): what was not listed is gone.
\* A failure after the publication fails the job with the new generation current.
GcRun ==
  /\ At("gc", "working")
  /\ \/ Fails("gc", "Operational") /\ UNCHANGED objects
     \/ /\ Succeeds("gc") \/ Fails("gc", "Operational")
        /\ objects' = objects \cap turn["gc"].listed
  /\ mutex' = None
  /\ UNCHANGED <<registered, retained, steady, crashes>>

\* with_catalog: another user of the coordinator reads the catalog.
WithCatalog ==
  /\ mutex = None
  /\ mutex' = "reader"
  /\ UNCHANGED <<job, registered, turn, objects, retained, steady, crashes>>

ReleaseCatalog ==
  /\ mutex = "reader"
  /\ mutex' = None
  /\ UNCHANGED <<job, registered, turn, objects, retained, steady, crashes>>

\* External: the retained source starts to retain an object, or stops.
Retain(o) ==
  /\ o \in objects \/ o \in retained
  /\ retained' = IF o \in retained THEN retained \ {o} ELSE retained \cup {o}
  /\ steady' = steady \ {o}
  /\ UNCHANGED <<job, registered, turn, mutex, objects, crashes>>

\* The process ends; the next one queues interrupted jobs again.
Restart ==
  /\ crashes < MaxCrashes
  /\ crashes' = crashes + 1
  /\ job' = [j \in Job |-> IF job[j] # None /\ job[j].state = "Running"
                           THEN [job[j] EXCEPT !.state = "Queued"] ELSE job[j]]
  /\ turn' = [w \in Family |-> None] /\ mutex' = None
  /\ UNCHANGED <<registered, objects, retained, steady>>

-----------------------------------------------------------------------------
Next ==
  \/ \E j \in Job : \/ EnqueueLegacy(j) \/ EnqueueTrusted(j) \/ EnqueueOperational(j)
                    \/ ClientEnqueue(j) \/ Register(j)
  \/ \E w \in Family, j \in Job : Claim(w, j)
  \/ Maintain \/ Orchestrate \/ RelievePressure \/ GcStart \/ GcLock \/ GcRun
  \/ WithCatalog \/ ReleaseCatalog
  \/ \E o \in Object : Retain(o)
  \/ Restart

Spec == Init /\ [][Next]_vars

-----------------------------------------------------------------------------
(* Properties.                                                             *)

\* A job the daemon itself enqueues is claimed by a worker that knows its kind
\* and can decode its payload: encoders, predicates and decoders agree.
DaemonJobsAccepted ==
  \A j \in Job : job[j] # None /\ job[j].origin = "daemon"
    => job[j].error \notin {"InvalidPayload", "UnsupportedKind", "ClientPayloadRejected",
                            "UnsupportedJobKind"}

\* An object retained from before the GC job listed the retained objects until
\* the cycle publishes is in the published generation.
ListedSurvives ==
  [][objects' # objects => steady \cap objects \subseteq objects']_vars

\* A queued job of a kind some worker serves reaches a terminal state, whatever
\* its payload and whoever enqueued it, when the workers keep taking turns and
\* the readers of the catalog release it.  (A client that starts a job by hand
\* takes it from the workers; module JobStore has those commands.)
JobsFinish ==
  \A j \in Job : (job[j] # None /\ job[j].kind # "other")
                   ~> (job[j] # None /\ job[j].state \in {"Succeeded", "Failed"})
=============================================================================
