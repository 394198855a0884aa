----------------------------- MODULE MCJobStore -----------------------------
(* JobStore for TLC: one worker per family, and a kind that only clients    *)
(* run, with the start command.                                             *)
EXTENDS JobStore

MCJobId == 1 .. 2
MCKind == {"gc", "client"}
MCServes == [w \in Worker |-> {"gc"}]
=============================================================================
