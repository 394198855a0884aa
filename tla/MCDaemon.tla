------------------------------ MODULE MCDaemon ------------------------------
(***************************************************************************)
(* The daemon's work for TLC: the scrub schedule, the migration journal,   *)
(* the workers of the job queue, the control socket and the log of         *)
(* operation events.  The parts share no state here; a behaviour is one of *)
(* one part.                                                               *)
(***************************************************************************)
EXTENDS ScrubSchedule, MigrationJournal, ControlSocket, StructuredLog, FiniteSets

VARIABLES part,
          job, registered, running, mutex, objects, retained, steady, wcrashes

Workers == INSTANCE DaemonWorkers
  WITH Job <- {"j1"}, Object <- {"o1", "o2"}, Chunk <- {"c1", "c2"}, Inventory <- {"c1"},
       MaxCrashes <- 2, turn <- running, crashes <- wcrashes

\* A client enqueues, one sends any request, and one is another user's.
MCRequests == {[c \in {"a", "b", "c"} |-> [verb |-> IF c = "b" THEN v ELSE "enqueue", id |-> 1]] : v \in Verb}

wvars == <<job, registered, running, mutex, objects, retained, steady, wcrashes>>
allVars == <<part, vars, migrationVars, wvars, socketVars, logVars>>

MCInit ==
  /\ part \in {"scrub", "migration", "workers", "socket", "log"}
  /\ Init /\ MigrationInit /\ Workers!Init /\ LogInit /\ SocketInit
  /\ part # "socket" => request["b"].verb = "invalid"

Scrubbing(A) == part = "scrub" /\ A /\ UNCHANGED <<part, migrationVars, wvars, socketVars, logVars>>
Migrating(A) == part = "migration" /\ A /\ UNCHANGED <<part, vars, wvars, socketVars, logVars>>
Working(A) == part = "workers" /\ A /\ UNCHANGED <<part, vars, migrationVars, socketVars, logVars>>
Serving(A) == part = "socket" /\ A /\ UNCHANGED <<part, vars, migrationVars, wvars, logVars>>
Logging(A) == part = "log" /\ A /\ UNCHANGED <<part, vars, migrationVars, wvars, socketVars>>

MCNext ==
  Scrubbing(Next) \/ Migrating(MigrationNext) \/ Working(Workers!Next) \/ Serving(SocketNext) \/ Logging(LogNext)

\* The workers keep polling, their handlers return, an interrupted daemon is
\* started again while a migration is partial, a mutex that is released again
\* and again is not withheld from its waiter for ever, and the socket's thread
\* takes the step it can.
Fairness ==
  /\ WF_allVars(Scrubbing(\E w \in Worker : Begin(w)))
  /\ \A w \in Worker : WF_allVars(Scrubbing(Finish(w)))
  /\ WF_allVars(Migrating(\E v \in 1 .. 3 : OpenDaemon(v)))
  /\ WF_allVars(Migrating(\E w \in MigrationWorker : Enter(w)))
  /\ \A w \in MigrationWorker : SF_allVars(Migrating(Call(w))) /\ SF_allVars(Migrating(Transition(w)))
  /\ \A w \in Workers!Family : WF_allVars(Working(\E j \in {"j1"} : Workers!Claim(w, j)))
  /\ WF_allVars(Working(Workers!Maintain)) /\ WF_allVars(Working(Workers!Orchestrate))
  /\ WF_allVars(Working(Workers!RelievePressure)) /\ WF_allVars(Working(Workers!GcStart))
  /\ SF_allVars(Working(Workers!GcLock)) /\ WF_allVars(Working(Workers!GcRun))
  /\ WF_allVars(Working(Workers!ReleaseCatalog))
  /\ WF_allVars(Serving(Accept)) /\ WF_allVars(Serving(Handle)) /\ WF_allVars(Serving(Respond))

MCSpec == MCInit /\ [][MCNext]_allVars /\ Fairness

-----------------------------------------------------------------------------
\* A scrub that is due is claimed, and one that runs ends (ScrubSchedule).
ScrubsHappen == DueClaimed /\ ScrubEnds

\* The daemon's own jobs are accepted by the workers that claim them, what was
\* retained throughout a GC job survives it, and a queued job that some worker
\* serves reaches a terminal state (DaemonWorkers).  A client of the socket is
\* answered unless a silent one is served (ControlSocket).
JobsServed ==
  /\ [](Workers!TypeOK /\ Workers!DaemonJobsAccepted) /\ Workers!ListedSurvives /\ Workers!JobsFinish
  /\ Answered
=============================================================================
