--------------------------- MODULE StructuredLog ---------------------------
(***************************************************************************)
(* The daemon's log of operation events (structured_log.rs): lines that    *)
(* are appended and synchronized one by one, by a handle that never reads  *)
(* what the file holds.  Of a line the model keeps its event and its       *)
(* newline; a short write leaves a fragment, or all but the newline.       *)
(***************************************************************************)
EXTENDS Integers, Sequences, FiniteSets

CONSTANTS
  MaxEvents,  \* bound: events
  MaxLogFaults   \* bound: failed calls, kills and power losses

LogConstants == MaxEvents \in Nat /\ MaxLogFaults \in Nat
ASSUME LogAssumption == LogConstants

VARIABLES
  entry,   \* the file's directory entry: "absent", "volatile" or "durable"
  text,    \* the file: a sequence of events, "fragment" and "newline"
  synced,  \* the length of it that a power loss keeps
  logStep,      \* "closed", "created", "open" or "written"
  events,  \* the number of events handed to append
  logFaults,
  acked,   \* ghost: the events whose append returned
  risked   \* ghost: those of them that returned before the entry was durable

logVars == <<entry, text, synced, logStep, events, logFaults, acked, risked>>

\* Every variable has its type.
LogTypeOK ==
  /\ entry \in {"absent", "volatile", "durable"}
  /\ synced \in 0 .. Len(text)
  /\ logStep \in {"closed", "created", "open", "written"}
  /\ events \in 0 .. MaxEvents /\ logFaults \in 0 .. MaxLogFaults
  /\ acked \subseteq 1 .. events /\ risked \subseteq acked

LogInit ==
  /\ entry = "absent" /\ text = <<>> /\ synced = 0 /\ logStep = "closed"
  /\ events = 0 /\ logFaults = 0 /\ acked = {} /\ risked = {}

\* A token of the file: an event, "fragment" or "newline".
Body(n) == [is |-> "event", of |-> n]
Fragment == [is |-> "fragment", of |-> 0]
Newline == [is |-> "newline", of |-> 0]

-----------------------------------------------------------------------------
\* StructuredOperationLog::open.  Only the call that finds no file
\* synchronizes it and its directory.
OpenLog ==
  /\ logStep = "closed"
  /\ IF entry = "absent" THEN entry' = "volatile" /\ logStep' = "created"
     ELSE logStep' = "open" /\ UNCHANGED entry
  /\ UNCHANGED <<text, synced, events, logFaults, acked, risked>>

SyncNew ==
  /\ logStep = "created"
  /\ entry' = "durable" /\ logStep' = "open"
  /\ UNCHANGED <<text, synced, events, logFaults, acked, risked>>

OpenFails ==
  /\ logStep = "created" /\ logFaults < MaxLogFaults
  /\ logStep' = "closed" /\ logFaults' = logFaults + 1
  /\ UNCHANGED <<entry, text, synced, events, acked, risked>>

\* Fault: the line is written without its end.
Unterminated(n) == <<Body(n)>>

EncodeEvent(n) == <<Body(n), Newline>>

\* append: the line is written ...
WriteLine ==
  /\ logStep = "open" /\ events < MaxEvents
  /\ events' = events + 1
  /\ text' = text \o EncodeEvent(events + 1)
  /\ logStep' = "written"
  /\ UNCHANGED <<entry, synced, logFaults, acked, risked>>

WriteLineFails ==
  /\ logStep = "open" /\ events < MaxEvents /\ logFaults < MaxLogFaults
  /\ events' = events + 1 /\ logFaults' = logFaults + 1
  /\ \E written \in {<<>>, <<Fragment>>, <<Body(events + 1)>>} : text' = text \o written
  /\ UNCHANGED <<entry, synced, logStep, acked, risked>>

\* Fault: the data are left to the kernel.
LeaveUnsynced ==
  /\ logStep = "written"
  /\ acked' = acked \cup {events}
  /\ risked' = IF entry = "durable" THEN risked ELSE risked \cup {events}
  /\ logStep' = "open"
  /\ UNCHANGED <<entry, text, synced, events, logFaults>>

\* ... and synchronized.
SyncData ==
  /\ logStep = "written"
  /\ synced' = Len(text)
  /\ acked' = acked \cup {events}
  /\ risked' = IF entry = "durable" THEN risked ELSE risked \cup {events}
  /\ logStep' = "open"
  /\ UNCHANGED <<entry, text, events, logFaults>>

SyncFails ==
  /\ logStep = "written" /\ logFaults < MaxLogFaults
  /\ logFaults' = logFaults + 1 /\ logStep' = "open"
  /\ UNCHANGED <<entry, text, synced, events, acked, risked>>

KillLogger ==
  /\ logStep # "closed" /\ logFaults < MaxLogFaults
  /\ logFaults' = logFaults + 1 /\ logStep' = "closed"
  /\ UNCHANGED <<entry, text, synced, events, acked, risked>>

LogPowerLoss ==
  /\ logFaults < MaxLogFaults /\ logFaults' = logFaults + 1 /\ logStep' = "closed"
  /\ \/ /\ entry = "volatile" /\ entry' = "absent" /\ text' = <<>> /\ synced' = 0
     \/ /\ entry # "absent" /\ entry' = "durable"
        /\ \E n \in synced .. Len(text) : text' = SubSeq(text, 1, n) /\ synced' = n
  /\ UNCHANGED <<events, acked, risked>>

LogNext == OpenLog \/ SyncNew \/ OpenFails \/ WriteLine \/ WriteLineFails \/ SyncData \/ SyncFails \/ KillLogger \/ LogPowerLoss

LogSpec == LogInit /\ [][LogNext]_logVars

-----------------------------------------------------------------------------
\* An event whose append returned is in the part of the file that a power
\* loss keeps, after the events acknowledged before it, if the call that
\* created the file synchronized its directory.
AcknowledgedLogged ==
  LET at(n) == CHOOSE i \in 1 .. synced : text[i] = Body(n)
  IN \A n \in acked \ risked :
       /\ \E i \in 1 .. synced : text[i] = Body(n)
       /\ \A k \in acked \ risked : k < n => at(k) < at(n)

\* Has event n a line of its own in the first m tokens of a file?
Own(file, n, m) ==
  \E i \in 1 .. m - 1 : file[i] = Body(n) /\ file[i + 1] = Newline /\ (i = 1 \/ file[i - 1] = Newline)

Spoiled == {n \in acked \ risked : ~Own(text, n, synced)}

\* Consumers read complete lines.  A failed call, a kill or a power loss can
\* leave a partial line that swallows the next event, and only that one: as
\* many acknowledged events are not lines of their own as there were faults.
SpoiledPerFault == Cardinality(Spoiled) <= logFaults

-----------------------------------------------------------------------------
(* What a step preserves: the events of the file are in their order, the   *)
(* one being written is the last, and those acknowledged in a file whose   *)
(* entry is not durable are at risk.                                       *)

Token == [is : {"event", "fragment", "newline"}, of : Nat]

Ordered ==
  /\ text \in Seq(Token)
  /\ \A i \in 1 .. Len(text) : text[i].of <= events
  /\ \A i, j \in 1 .. Len(text) :
       i < j /\ text[i].is = "event" /\ text[j].is = "event" => text[i].of < text[j].of

\* The fault that left a partial line has not spoiled an acknowledged event yet: the
\* next one will join that line, or is the one being written.
Unclean ==
  IF logStep = "written" THEN ~Own(text, events, Len(text))
  ELSE text # <<>> /\ text[Len(text)] # Newline

Paid ==
  /\ logStep = "written" =>
       Len(text) > 1 /\ text[Len(text) - 1] = Body(events) /\ text[Len(text)] = Newline
  /\ Cardinality(Spoiled) + (IF Unclean THEN 1 ELSE 0) <= logFaults

LogIInv ==
  /\ LogTypeOK /\ Ordered
  /\ logStep = "written" => events > 0 /\ \E i \in 1 .. Len(text) : text[i] = Body(events)
  /\ \A n \in acked \ risked : \E i \in 1 .. synced : text[i] = Body(n)
  /\ entry # "durable" => acked \subseteq risked

\* An acknowledged event is in the durable log, and a fault spoils one later event
\* at most.
LogKept == LogTypeOK /\ AcknowledgedLogged /\ SpoiledPerFault
=============================================================================
