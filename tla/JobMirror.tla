----------------------------- MODULE JobMirror -----------------------------
(***************************************************************************)
(* The catalog's mirror of the job queue (CatalogJobJournal).  A journal   *)
(* method changes the job's file first and then publishes the record it    *)
(* got back in the catalog, synchronously; mirror_store publishes every    *)
(* visible record, one after the other.  Workers and the control socket    *)
(* change jobs without the journal meanwhile.                              *)
(***************************************************************************)
EXTENDS JobStore, Sequences, SequencesExt

VARIABLES
  mirror,    \* the record of each job in the catalog
  journal,   \* the records the journal's caller has yet to publish
  premature  \* history: jobs whose record was listed before it was durable

mirrorVars == <<mirror, journal, premature>>

MirrorTypeOK ==
  /\ TypeOK
  /\ mirror \in [JobId -> Version]
  /\ journal \in Seq(JobId \X Record)
  /\ premature \subseteq JobId

MirrorInit ==
  /\ Init
  /\ mirror = [i \in JobId |-> None] /\ journal = <<>> /\ premature = {}

-----------------------------------------------------------------------------
\* A client's change of a job, through the queue.
Change(i) == (\E k \in Kind : Enqueue(i, k)) \/ Start(i) \/ Retry(i) \/ ClientSettle(i)

\* Fault: the catalog is written first.
JournaledFirst(i) ==
  /\ journal = <<>>
  /\ Change(i)
  /\ mirror' = [mirror EXCEPT ![i] = disk'[i]]
  /\ UNCHANGED <<journal, premature>>

\* enqueue, start, succeed, fail and retry of the journal: the record is handed
\* on only when the queue has returned Ok.
Journaled(i) ==
  /\ journal = <<>>
  /\ Change(i)
  /\ journal' = IF errors' = errors THEN <<<<i, disk'[i]>>>> ELSE <<>>
  /\ UNCHANGED <<mirror, premature>>

\* mirror_store lists the visible records.
MirrorStore ==
  /\ phase = "up" /\ journal = <<>> /\ ~leftover
  /\ LET present == {i \in JobId : disk[i] # None} IN
       /\ journal' = [n \in 1 .. Len(SetToSortSeq(present, <)) |->
                        LET i == SetToSortSeq(present, <)[n] IN <<i, disk[i]>>]
       /\ premature' = premature \cup {i \in present : past[i] # {}}
  /\ UNCHANGED <<vars, mirror>>

\* mirror_record: one synchronous catalog batch; its error ends the method.
MirrorRecord ==
  /\ phase = "up" /\ journal # <<>>
  /\ \/ /\ mirror' = [mirror EXCEPT ![journal[1][1]] = journal[1][2]]
        /\ journal' = Tail(journal)
     \/ journal' = <<>> /\ UNCHANGED mirror
  /\ UNCHANGED <<vars, premature>>

\* Changes that bypass the journal.
Direct ==
  /\ (\E i \in JobId : Change(i)) \/ (\E w \in Worker : Claim(w) \/ Settle(w)) \/ Recover
  /\ UNCHANGED mirrorVars

Crash == (Kill \/ PowerLoss) /\ journal' = <<>> /\ UNCHANGED <<mirror, premature>>

MirrorNext ==
  \/ \E i \in JobId : Journaled(i)
  \/ MirrorStore \/ MirrorRecord \/ Direct \/ Crash

MirrorSpec == MirrorInit /\ [][MirrorNext]_<<vars, mirrorVars>>

-----------------------------------------------------------------------------
(* Properties.                                                             *)

\* How far a job has come: running, settled, and queued again for each attempt.
Progress(r) ==
  IF r = None THEN 0
  ELSE 3 * r.attempts + (CASE r.state = "Running" -> 1 [] r.state = "Queued" -> 3 [] OTHER -> 2)

\* The catalog never claims more of a job than every version of its file that a
\* power loss may bring back: a job the catalog calls succeeded is not run
\* again.  (mirror_store may publish a record whose own write had failed.)
MirrorNotAhead ==
  \A i \in JobId \ premature : \A r \in Versions(i) : Progress(mirror[i]) <= Progress(r)

\* The mirror of a job never goes back, whatever workers and clients do to the
\* job between the change of its file and the publication of its record.
MirrorForward ==
  [][\A i \in JobId \ premature' : Progress(mirror'[i]) >= Progress(mirror[i])]_<<vars, mirrorVars>>
=============================================================================
