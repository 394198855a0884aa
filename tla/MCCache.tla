------------------------------ MODULE MCCache ------------------------------
(***************************************************************************)
(* The two halves of the cache, its entries and its space, for TLC.  They  *)
(* share no state here: a behaviour is one of either half, so the state    *)
(* spaces add up instead of multiplying.                                   *)
(***************************************************************************)
EXTENDS CacheHydration, CacheAdmission, TLC

CONSTANTS h1, h2, t1, t2, t3, b1, c1, c2, k1

VARIABLE half

\* Two threads of the checkout handle, one of the maintenance handle.
MCHandleOf == t1 :> h1 @@ t2 :> h1 @@ t3 :> h2

\* Two clients of one coordinator.
MCCoordinatorOf == c1 :> k1 @@ c2 :> k1
MCSize == 1 :> 1 @@ 2 :> 2

MCInit ==
  /\ half \in {"entries", "space"}
  /\ Init /\ AdmissionInit
  /\ half = "entries" => host = 0 /\ guest = 0 /\ cached = {}
  /\ half = "space" => leaf = [b \in Blob |-> "missing"]

Entries(A) == half = "entries" /\ A /\ UNCHANGED <<half, admissionVars>>
Space(A) == half = "space" /\ A /\ UNCHANGED <<half, vars>>

MCNext == Entries(Next) \/ Space(AdmissionNext)

MCVars == <<half, vars, admissionVars>>

\* The threads of the cache run.
MCSpec ==
  MCInit /\ [][MCNext]_MCVars /\ \A t \in Thread : WF_MCVars(Entries(Step(t)))
=============================================================================
