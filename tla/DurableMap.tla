----------------------------- MODULE DurableMap -----------------------------
(***************************************************************************)
(* What the cold tier promises its clients, with no files, no catalog and  *)
(* no failures: a write-once map from repository-scoped object names to    *)
(* contents.  A name is bound at most once, and a bound name resolves to   *)
(* the same content for ever.                                              *)
(***************************************************************************)
CONSTANTS Key,      \* (RepoId, native Git OID) pairs
          Content,  \* ContentIds of Git objects
          None      \* no value

VARIABLE map        \* what each name resolves to

Init == map = [k \in Key |-> None]

Put(k, x) ==
  /\ map[k] = None
  /\ map' = [map EXCEPT ![k] = x]

Next == \E k \in Key, x \in Content : Put(k, x)

Spec == Init /\ [][Next]_map
=============================================================================
