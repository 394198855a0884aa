---------------------------- MODULE MCWorkspaces ----------------------------
(***************************************************************************)
(* Checkout for TLC: planning and staging, the publication of a directory  *)
(* under a contended name, and durable workspaces.  The three share no     *)
(* state here; a behaviour is one of one part.                             *)
(***************************************************************************)
EXTENDS Workspaces, WorkspaceReplace

VARIABLES part, trees, policy, entries, offered, planning, error, stage

\* Two requests for ID 1, one for ID 2 under the same name, and ID 3 by itself.
MCManifest ==
  {[id |-> 1, name |-> "n1", generation |-> 1], [id |-> 1, name |-> "n1", generation |-> 2],
   [id |-> 2, name |-> "n1", generation |-> 1], [id |-> 3, name |-> "n2", generation |-> 1]}

\* Paths of dots, slashes and one letter; trees that share names, nest, repeat
\* themselves, name a blob as a directory, or use an unknown mode.
a == <<3>>
b == <<4>>
RawPaths == UNION {[1 .. n -> {1, 2, 3}] : n \in 0 .. 4}
TreeEntry ==
  [name : {a, b}, mode : {"040000"}, oid : {"t1", "t2"}]
    \cup {[name |-> a, mode |-> "100644", oid |-> "blob"],
          [name |-> b, mode |-> "160000", oid |-> "blob"],
          [name |-> b, mode |-> "100664", oid |-> "blob"],
          [name |-> b, mode |-> "040000", oid |-> "blob"]}
TreeContents == [{"t1", "t2"} -> UNION {[1 .. n -> TreeEntry] : n \in 0 .. 2}]

Plan == INSTANCE CheckoutPlan
  WITH RawPath <- RawPaths, Mode <- {"100755", "120000", "100664"}, TreeId <- {"t1", "t2"},
       Trees <- TreeContents, MaxEntries <- 2, MaxComponents <- 2,
       MaxComponentBytes <- 2, MaxPathBytes <- 4, pc <- planning

pvars == <<trees, policy, entries, offered, planning, error, stage>>

MCInit ==
  \/ /\ part = "durable" /\ Init
     /\ Plan!Init /\ policy = "reject" /\ DOMAIN stage = {}
     /\ ReplaceInit /\ replace = [c \in Caller |-> "reject"]
  \/ /\ part = "plan" /\ Plan!Init
     /\ Init /\ dirs = [n \in Name |-> None]
     /\ ReplaceInit /\ replace = [c \in Caller |-> "reject"]
  \/ /\ part = "replace" /\ ReplaceInit
     /\ Init /\ dirs = [n \in Name |-> None]
     /\ Plan!Init /\ policy = "reject" /\ DOMAIN stage = {}

MCNext ==
  \/ part = "durable" /\ Next /\ UNCHANGED <<part, pvars, rvars>>
  \/ part = "plan" /\ Plan!Next /\ UNCHANGED <<part, vars, rvars>>
  \/ part = "replace" /\ ReplaceNext /\ UNCHANGED <<part, vars, pvars>>

MCSpec == MCInit /\ [][MCNext]_<<part, vars, pvars, rvars>>

\* A plan is what was offered, and can be staged: a parsed path is the offered one
\* in safe components, a tree is planned leaf by leaf or refused with reason, no
\* entry lies below another, creation meets no missing parent or taken name, and
\* the manifest counts the staged files (CheckoutPlan).
PlanFaithful ==
  /\ Plan!TypeOK
  /\ Plan!ParseFaithful
  /\ part = "plan" => Plan!TreePlanned
  /\ Plan!PlanIsTree
  /\ Plan!Creatable
  /\ Plan!CountsMatchStage
=============================================================================
