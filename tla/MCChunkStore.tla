---------------------------- MODULE MCChunkStore ----------------------------
(* ChunkStore for TLC: every record has the same size, more than twice the *)
(* footer's (a record is at least 152 bytes long, the footer 64).  A       *)
(* behaviour has either several chunks and complete writes, or one chunk,  *)
(* short writes and more records and crashes.                              *)
EXTENDS ChunkStore, FiniteSets, TLC

VARIABLE part

MCSize == [x \in Content |-> 5]

Short == INSTANCE ChunkStore WITH ShortWrites <- TRUE, MaxRecords <- 3, MaxCrashes <- 3

MCInit == Init /\ part \in {"chunks", "writes"}

MCNext ==
  \/ part = "chunks" /\ Next /\ UNCHANGED part
  \/ part = "writes" /\ Short!Next /\ UNCHANGED part
       /\ Cardinality({c \in Chunk : name'[c] # "absent"}) <= 1

MCSpec == MCInit /\ [][MCNext]_<<vars, part>>

\* Contents and names are interchangeable; chunk identifiers too.
Symmetry == Permutations(Chunk) \cup Permutations(Content) \cup Permutations(Key)
=============================================================================
