-------------------------- MODULE WorkspaceReplace --------------------------
(***************************************************************************)
(* publish_workspace called by several checkouts for one public name, each *)
(* with a staged tree of its own and its replace policy.  Every look at a  *)
(* path and every rename is a step; trees are never empty, so a rename     *)
(* onto an existing directory fails.                                       *)
(***************************************************************************)
CONSTANTS Caller,    \* a caller also stands for the tree it staged
          Absent

ASSUME ReplaceAssumption == Absent \notin Caller

VARIABLES destination,   \* the tree with the public name
          staging,       \* caller -> the tree at its staging path
          retired,       \* the tree at <trash>/<name>-retired
          cleaned,       \* trees removed from the trash
          replace,       \* caller -> ReplacePolicy
          pc,
          result         \* caller -> what the call returned

rvars == <<destination, staging, retired, cleaned, replace, pc, result>>

ReplaceInit ==
  /\ destination = Absent /\ retired = Absent /\ cleaned = {}
  /\ staging = [c \in Caller |-> c]
  /\ replace \in [Caller -> {"reject", "replace"}]
  /\ pc = [c \in Caller |-> "look"]
  /\ result = [c \in Caller |-> "none"]

ReplaceGoto(c, step) == pc' = [pc EXCEPT ![c] = step] /\ UNCHANGED result
ReplaceReturn(c, r) == pc' = [pc EXCEPT ![c] = "done"] /\ result' = [result EXCEPT ![c] = r]

Look(c) ==
  /\ pc[c] = "look"
  /\ CASE destination = Absent -> ReplaceGoto(c, "rename")
       [] destination # Absent /\ replace[c] = "reject" -> ReplaceReturn(c, "exists")
       [] OTHER -> ReplaceGoto(c, "exchange")
  /\ UNCHANGED <<destination, staging, retired, cleaned, replace>>

Rename(c) ==
  /\ pc[c] = "rename"
  /\ IF destination = Absent
       THEN /\ destination' = staging[c]
            /\ staging' = [staging EXCEPT ![c] = Absent]
            /\ ReplaceReturn(c, "ok")
       ELSE ReplaceReturn(c, "error") /\ UNCHANGED <<destination, staging>>
  /\ UNCHANGED <<retired, cleaned, replace>>

\* Fault: the old tree is moved away before the new one is moved in.
ExchangeByRename(c) ==
  /\ pc[c] = "exchange"
  /\ retired' = destination
  /\ destination' = Absent
  /\ ReplaceGoto(c, "rename")
  /\ UNCHANGED <<staging, cleaned, replace>>

\* renameat2 with RENAME_EXCHANGE; the kernel may not support it.
Exchange(c) ==
  /\ pc[c] = "exchange"
  /\ \/ /\ destination # Absent
        /\ destination' = staging[c]
        /\ staging' = [staging EXCEPT ![c] = destination]
        /\ ReplaceGoto(c, "look retired")
     \/ ReplaceReturn(c, "unsupported") /\ UNCHANGED <<destination, staging>>
  /\ UNCHANGED <<retired, cleaned, replace>>

\* The name has been replaced when this check refuses.
LookRetired(c) ==
  /\ pc[c] = "look retired"
  /\ IF retired = Absent THEN ReplaceGoto(c, "retire") ELSE ReplaceReturn(c, "exists")
  /\ UNCHANGED <<destination, staging, retired, cleaned, replace>>

\* Fault: the retired tree of an earlier replacement is overwritten.
RetireOverwriting(c) ==
  /\ pc[c] = "retire"
  /\ retired' = staging[c]
  /\ staging' = [staging EXCEPT ![c] = Absent]
  /\ ReplaceReturn(c, "ok")
  /\ UNCHANGED <<destination, cleaned, replace>>

Retire(c) ==
  /\ pc[c] = "retire"
  /\ IF retired = Absent
       THEN /\ retired' = staging[c]
            /\ staging' = [staging EXCEPT ![c] = Absent]
            /\ ReplaceReturn(c, "ok")
       ELSE ReplaceReturn(c, "error") /\ UNCHANGED <<retired, staging>>
  /\ UNCHANGED <<destination, cleaned, replace>>

\* The asynchronous cleaner of the trash directory.
Clean ==
  /\ retired # Absent
  /\ cleaned' = cleaned \cup {retired}
  /\ retired' = Absent
  /\ UNCHANGED <<destination, staging, replace, pc, result>>

ReplaceNext ==
  \/ \E c \in Caller :
       Look(c) \/ Rename(c) \/ Exchange(c) \/ LookRetired(c) \/ Retire(c)
  \/ Clean

ReplaceSpec == ReplaceInit /\ [][ReplaceNext]_rvars

\* Every variable has its type.
ReplaceTypeOK ==
  /\ destination \in Caller \cup {Absent} /\ retired \in Caller \cup {Absent}
  /\ staging \in [Caller -> Caller \cup {Absent}]
  /\ cleaned \subseteq Caller
  /\ replace \in [Caller -> {"reject", "replace"}]
  /\ pc \in [Caller -> {"look", "rename", "exchange", "look retired", "retire", "done"}]
  /\ result \in [Caller -> {"none", "ok", "exists", "error", "unsupported"}]

\* No two paths lead to one tree.
Apart ==
  /\ \A c, d \in Caller : staging[c] = staging[d] /\ staging[c] # Absent => c = d
  /\ \A c \in Caller : staging[c] # Absent =>
       staging[c] # destination /\ staging[c] # retired /\ staging[c] \notin cleaned
  /\ destination # Absent => destination # retired /\ destination \notin cleaned
  /\ retired # Absent => retired \notin cleaned

\* Every tree is somewhere.
Whole ==
  \A tree \in Caller :
    destination = tree \/ retired = tree \/ tree \in cleaned \/ \E c \in Caller : staging[c] = tree

\* However publications of one name interleave, no staged tree is overwritten or
\* has two paths, and a tree is cleaned up only after another took its name.
TreesConserved == Apart /\ Whole /\ (cleaned # {} => destination # Absent)

\* There is no moment at which a published name leads nowhere while a publication
\* replaces it.
NameNeverAbsent == [][destination # Absent => destination' # Absent]_rvars

-----------------------------------------------------------------------------
(* What a step preserves: a call that is not done has a tree at its        *)
(* staging path, and what was retired was replaced.                        *)

Holding ==
  /\ \A c \in Caller : pc[c] # "done" => staging[c] # Absent
  /\ \A c \in Caller : pc[c] \in {"look retired", "retire"} => destination # Absent
  /\ retired # Absent \/ cleaned # {} => destination # Absent

ReplaceIInv == ReplaceTypeOK /\ Apart /\ Whole /\ Holding

\* Concurrent publications under one name lose no tree, and a published name is
\* never absent while it is replaced.
TreesKept == [](ReplaceTypeOK /\ TreesConserved) /\ NameNeverAbsent
=============================================================================
