--------------------------- MODULE MCGenerationGC ---------------------------
(* GenerationGC for TLC: a commit that refers to a blob, one repository     *)
(* with a ref to the commit and one with a tag on the blob, so that they    *)
(* share an object one of them reaches through the graph.  A behaviour has  *)
(* either both repositories and several collections, or one repository,     *)
(* one collection, readers and workspaces.                                  *)
EXTENDS GenerationGC

CONSTANT Part  \* the parts whose behaviours are checked

VARIABLE part

MCRepo == {"project", "fork"}
MCObject == {"commit", "blob"}
MCRefs == [x \in MCObject |-> IF x = "commit" THEN {"blob"} ELSE {}]
MCRoots == [r \in MCRepo |-> IF r = "project" THEN {"commit"} ELSE {"blob"}]

MCInit == Init /\ part \in Part

\* The bounds keep imports, workspaces, listings, lookups and restarts from
\* beginning; what has begun is not bounded.
MCNext ==
  /\ Next /\ UNCHANGED part
  /\ part = "sharing" => crashes' = 0 /\ plan' = 0 /\ \A p \in Reader : rgen'[p] = 0
  /\ part = "retirement" => job'["fork"] = "new" /\ (listed' => current' = 1)

MCSpec == MCInit /\ [][MCNext]_<<vars, part>> /\ Fairness
=============================================================================
