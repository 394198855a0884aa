------------------------- MODULE GenerationGCProofs -------------------------
(* The safety of imports, collection, retirement and leases (GenerationGC) *)
(* for every object graph and any number of repositories, readers,         *)
(* generations and restarts; and the probes that test whether the roots of *)
(* the store share extents (CloneProbe), for any number of probers.        *)
EXTENDS GenerationGC, CloneProbe, TLAPS

-----------------------------------------------------------------------------
(* Types.                                                                  *)

\* Every step keeps the types of the import state.
LEMMA ImportType ==
  ASSUME TypeOK, [Next]_vars
  PROVE  ImportOK'
<1> USE GraphAssumption, BoundAssumption DEF importVars, gcVars, retireVars, readerVars,
     listVars, vars, Unlist, TypeOK, ImportOK, StoreOK, ProcessOK, Gen, Steps, Finish, Forget, Marked
<1>1. ASSUME NEW r \in Repo, NEW T \in SUBSET Object, Import(r, T) PROVE ImportOK'
  BY <1>1 DEF Import
<1>2. ASSUME NEW r \in Repo, PublishSnapshot(r) PROVE ImportOK'
  BY Zenon, <1>2 DEF PublishSnapshot
<1>3. ASSUME NEW r \in Repo, ReconcileSnapshot(r) PROVE ImportOK'
  BY <1>3 DEF ReconcileSnapshot
<1>4. ASSUME NEW r \in Repo, DeleteRepository(r) PROVE ImportOK'
  BY <1>4 DEF DeleteRepository
<1>5. CASE PlanWorkspace
  BY <1>5 DEF PlanWorkspace
<1>6. ASSUME NEW r \in Repo, PersistWorkspace(r) PROVE ImportOK'
  BY <1>6 DEF PersistWorkspace
<1>7. ASSUME NEW pin \in Gen \X Repo, DeleteWorkspace(pin) PROVE ImportOK'
  BY <1>7 DEF DeleteWorkspace
<1>8. CASE GcMark
  BY <1>8 DEF GcMark
<1>9. CASE GcCopy
  BY <1>9 DEF GcCopy
<1>10. CASE GcPublish
  BY <1>10 DEF GcPublish
<1>11. CASE GcPointer
  BY <1>11 DEF GcPointer
<1>12. ASSUME NEW g \in Gen, RetireDeferred(g) PROVE ImportOK'
  BY <1>12 DEF RetireDeferred
<1>13. CASE MoveRefused
  BY <1>13 DEF MoveRefused
<1>14. ASSUME NEW g \in Gen, RetireMark(g) PROVE ImportOK'
  BY <1>14 DEF RetireMark
<1>15. ASSUME NEW g \in Gen, MoveToTrash(g) PROVE ImportOK'
  BY <1>15 DEF MoveToTrash
<1>16. ASSUME NEW p \in Reader, NEW x \in Object, Locate(p, x) PROVE ImportOK'
  BY SMTT(60), <1>16 DEF Locate
<1>17. ASSUME NEW p \in Reader, Lease(p) PROVE ImportOK'
  BY <1>17 DEF Lease
<1>18. ASSUME NEW p \in Reader, LeaseFails(p) PROVE ImportOK'
  BY <1>18 DEF LeaseFails
<1>19. ASSUME NEW p \in Reader, Release(p) PROVE ImportOK'
  BY <1>19 DEF Release
<1>20. CASE Restart
  BY <1>20 DEF Restart
<1>21. CASE UNCHANGED vars
  BY ZenonT(60), <1>21
<1>22. CASE GcList
  BY ZenonT(60), <1>22 DEF GcList, Retained
<1>23. CASE GcMarkFails
  BY ZenonT(60), <1>23 DEF GcMarkFails
<1> QED
  BY ZenonT(60), <1>1, <1>2, <1>3, <1>4, <1>5, <1>6, <1>7, <1>8, <1>9, <1>10, <1>11, <1>12,
       <1>13, <1>14, <1>15, <1>16, <1>17, <1>18, <1>19, <1>20, <1>21,
       <1>22, <1>23 DEF Next, GcStep

\* Every step keeps the types of the store.
LEMMA StoreType ==
  ASSUME TypeOK, [Next]_vars
  PROVE  StoreOK'
<1> USE GraphAssumption, BoundAssumption DEF importVars, gcVars, retireVars, readerVars,
     listVars, vars, Unlist, TypeOK, ImportOK, StoreOK, ProcessOK, Gen, Steps, Finish, Forget, Marked
<1>1. ASSUME NEW r \in Repo, NEW T \in SUBSET Object, Import(r, T) PROVE StoreOK'
  BY <1>1 DEF Import
<1>2. ASSUME NEW r \in Repo, PublishSnapshot(r) PROVE StoreOK'
  BY SMTT(60), <1>2 DEF PublishSnapshot
<1>3. ASSUME NEW r \in Repo, ReconcileSnapshot(r) PROVE StoreOK'
  BY <1>3 DEF ReconcileSnapshot
<1>4. ASSUME NEW r \in Repo, DeleteRepository(r) PROVE StoreOK'
  BY <1>4 DEF DeleteRepository
<1>5. CASE PlanWorkspace
  BY <1>5 DEF PlanWorkspace
<1>6. ASSUME NEW r \in Repo, PersistWorkspace(r) PROVE StoreOK'
  BY <1>6 DEF PersistWorkspace
<1>7. ASSUME NEW pin \in Gen \X Repo, DeleteWorkspace(pin) PROVE StoreOK'
  BY ZenonT(60), <1>7 DEF DeleteWorkspace
<1>8. CASE GcMark
  BY <1>8 DEF GcMark
<1>9. CASE GcCopy
  <2>1. PICK copied \in SUBSET live : bytes' = [bytes EXCEPT ![current + 1] = @ \cup copied]
    BY Zenon, <1>9 DEF GcCopy
  <2>2. bytes' \in [Gen -> SUBSET Object]
    BY ZenonT(60), <2>1 DEF TypeOK, StoreOK, ProcessOK
  <2> QED
    BY <1>9, <2>2 DEF GcCopy, retireVars, TypeOK, StoreOK
<1>10. CASE GcPublish
  <2>1. current + 1 \in Gen /\ current + 1 \in 0 .. MaxGen
    BY <1>10 DEF GcPublish, TypeOK, StoreOK, ProcessOK, Gen
  <2>2. loc' \in [Object -> 0 .. MaxGen] /\ current' \in Gen
    BY <1>10, <2>1 DEF GcPublish, TypeOK, StoreOK
  <2> QED
    BY <1>10, <2>2 DEF GcPublish, retireVars, TypeOK, StoreOK
<1>11. CASE GcPointer
  BY ZenonT(60), <1>11 DEF GcPointer
<1>12. ASSUME NEW g \in Gen, RetireDeferred(g) PROVE StoreOK'
  BY <1>12 DEF RetireDeferred
<1>13. CASE MoveRefused
  BY ZenonT(60), <1>13 DEF MoveRefused
<1>14. ASSUME NEW g \in Gen, RetireMark(g) PROVE StoreOK'
  BY <1>14 DEF RetireMark
<1>15. ASSUME NEW g \in Gen, MoveToTrash(g) PROVE StoreOK'
  BY ZenonT(60), <1>15 DEF MoveToTrash
<1>16. ASSUME NEW p \in Reader, NEW x \in Object, Locate(p, x) PROVE StoreOK'
  BY <1>16 DEF Locate
<1>17. ASSUME NEW p \in Reader, Lease(p) PROVE StoreOK'
  BY ZenonT(60), <1>17 DEF Lease
<1>18. ASSUME NEW p \in Reader, LeaseFails(p) PROVE StoreOK'
  BY <1>18 DEF LeaseFails
<1>19. ASSUME NEW p \in Reader, Release(p) PROVE StoreOK'
  BY ZenonT(60), <1>19 DEF Release
<1>20. CASE Restart
  BY <1>20 DEF Restart
<1>21. CASE UNCHANGED vars
  BY ZenonT(60), <1>21
<1>22. CASE GcList
  BY ZenonT(60), <1>22 DEF GcList, Retained
<1>23. CASE GcMarkFails
  BY ZenonT(60), <1>23 DEF GcMarkFails
<1> QED
  BY ZenonT(60), <1>1, <1>2, <1>3, <1>4, <1>5, <1>6, <1>7, <1>8, <1>9, <1>10, <1>11, <1>12,
       <1>13, <1>14, <1>15, <1>16, <1>17, <1>18, <1>19, <1>20, <1>21,
       <1>22, <1>23 DEF Next, GcStep

\* Every step keeps the types of the collector and the readers.
LEMMA ProcessType ==
  ASSUME TypeOK, [Next]_vars
  PROVE  ProcessOK'
<1> USE GraphAssumption, BoundAssumption DEF importVars, gcVars, retireVars, readerVars,
     listVars, vars, Unlist, TypeOK, ImportOK, StoreOK, ProcessOK, Gen, Steps, Finish, Forget, Marked
<1>1. ASSUME NEW r \in Repo, NEW T \in SUBSET Object, Import(r, T) PROVE ProcessOK'
  BY ZenonT(60), <1>1 DEF Import
<1>2. ASSUME NEW r \in Repo, PublishSnapshot(r) PROVE ProcessOK'
  BY <1>2 DEF PublishSnapshot
<1>3. ASSUME NEW r \in Repo, ReconcileSnapshot(r) PROVE ProcessOK'
  BY ZenonT(60), <1>3 DEF ReconcileSnapshot
<1>4. ASSUME NEW r \in Repo, DeleteRepository(r) PROVE ProcessOK'
  BY <1>4 DEF DeleteRepository
<1>5. CASE PlanWorkspace
  BY ZenonT(60), <1>5 DEF PlanWorkspace
<1>6. ASSUME NEW r \in Repo, PersistWorkspace(r) PROVE ProcessOK'
  BY <1>6 DEF PersistWorkspace
<1>7. ASSUME NEW pin \in Gen \X Repo, DeleteWorkspace(pin) PROVE ProcessOK'
  BY ZenonT(60), <1>7 DEF DeleteWorkspace
<1>8. CASE GcMark
  <2>1. /\ listed' \in BOOLEAN /\ listing' \subseteq Repo \X Object
        /\ late' \subseteq Repo /\ overtaken' \subseteq Repo
    BY ZenonT(60), <1>8 DEF GcMark
  <2>2. /\ pc' \in Steps /\ (pc' \in {"copy", "publish"} => current' < MaxGen)
        /\ live' \subseteq Object /\ victim' \in 0 .. MaxGen /\ rgen' \in [Reader -> 0 .. MaxGen]
        /\ robj' \in [Reader -> SUBSET Object] /\ held' \subseteq Reader /\ leaked' \subseteq Gen
        /\ crashes' \in 0 .. MaxCrashes
    BY SMTT(60), <1>8 DEF GcMark
  <2> QED BY Zenon, <2>1, <2>2
<1>9. CASE GcCopy
  BY SMTT(60), <1>9 DEF GcCopy
<1>10. CASE GcPublish
  BY SMTT(60), <1>10 DEF GcPublish
<1>11. CASE GcPointer
  BY SMTT(60), <1>11 DEF GcPointer
<1>12. ASSUME NEW g \in Gen, RetireDeferred(g) PROVE ProcessOK'
  BY SMTT(60), <1>12 DEF RetireDeferred
<1>13. CASE MoveRefused
  BY SMTT(60), <1>13 DEF MoveRefused
<1>14. ASSUME NEW g \in Gen, RetireMark(g) PROVE ProcessOK'
  BY SMTT(60), <1>14 DEF RetireMark
<1>15. ASSUME NEW g \in Gen, MoveToTrash(g) PROVE ProcessOK'
  BY SMTT(60), <1>15 DEF MoveToTrash
<1>16. ASSUME NEW p \in Reader, NEW x \in Object, Locate(p, x) PROVE ProcessOK'
  BY <1>16 DEF Locate
<1>17. ASSUME NEW p \in Reader, Lease(p) PROVE ProcessOK'
  BY ZenonT(60), <1>17 DEF Lease
<1>18. ASSUME NEW p \in Reader, LeaseFails(p) PROVE ProcessOK'
  <2>1. leaked' \subseteq Gen
    <3>1. rgen[p] \in Gen
      BY SMTT(60), <1>18 DEF LeaseFails, TypeOK, ProcessOK, Gen
    <3> QED
      BY ZenonT(60), <1>18, <3>1 DEF LeaseFails, TypeOK, ProcessOK
  <2> QED
    BY <1>18, <2>1 DEF LeaseFails, Forget, gcVars, TypeOK, ProcessOK
<1>19. ASSUME NEW p \in Reader, Release(p) PROVE ProcessOK'
  BY SMTT(60), <1>19 DEF Release
<1>20. CASE Restart
  <2>1. /\ listed' \in BOOLEAN /\ listing' \subseteq Repo \X Object
        /\ late' \subseteq Repo /\ overtaken' \subseteq Repo
    BY ZenonT(60), <1>20 DEF Restart
  <2>2. /\ pc' \in Steps /\ (pc' \in {"copy", "publish"} => current' < MaxGen)
        /\ live' \subseteq Object /\ victim' \in 0 .. MaxGen /\ rgen' \in [Reader -> 0 .. MaxGen]
        /\ robj' \in [Reader -> SUBSET Object] /\ held' \subseteq Reader /\ leaked' \subseteq Gen
        /\ crashes' \in 0 .. MaxCrashes
    BY SMTT(60), <1>20 DEF Restart
  <2> QED BY Zenon, <2>1, <2>2
<1>21. CASE UNCHANGED vars
  BY <1>21
<1>22. CASE GcList
  BY SMTT(60), <1>22 DEF GcList, Retained
<1>23. CASE GcMarkFails
  <2>1. /\ listed' \in BOOLEAN /\ listing' \subseteq Repo \X Object
        /\ late' \subseteq Repo /\ overtaken' \subseteq Repo
    BY ZenonT(60), <1>23 DEF GcMarkFails
  <2>2. /\ pc' \in Steps /\ (pc' \in {"copy", "publish"} => current' < MaxGen)
        /\ live' \subseteq Object /\ victim' \in 0 .. MaxGen /\ rgen' \in [Reader -> 0 .. MaxGen]
        /\ robj' \in [Reader -> SUBSET Object] /\ held' \subseteq Reader /\ leaked' \subseteq Gen
        /\ crashes' \in 0 .. MaxCrashes
    BY SMTT(60), <1>23 DEF GcMarkFails
  <2> QED BY Zenon, <2>1, <2>2
<1> QED
  BY ZenonT(60), <1>1, <1>2, <1>3, <1>4, <1>5, <1>6, <1>7, <1>8, <1>9, <1>10, <1>11, <1>12,
       <1>13, <1>14, <1>15, <1>16, <1>17, <1>18, <1>19, <1>20, <1>21,
       <1>22, <1>23 DEF Next, GcStep

\* The initial state has its type.
LEMMA TypeInit == Init => TypeOK
<1> SUFFICES ASSUME Init PROVE TypeOK
  OBVIOUS
<1>1. /\ listed \in BOOLEAN /\ listing \subseteq Repo \X Object
      /\ late \subseteq Repo /\ overtaken \subseteq Repo
  BY Zenon DEF Init
<1>2. ImportOK /\ StoreOK
  BY GraphAssumption, BoundAssumption DEF Init, ImportOK, StoreOK, Gen
<1>3. /\ pc \in Steps /\ (pc \in {"copy", "publish"} => current < MaxGen)
      /\ live \subseteq Object /\ victim \in 0 .. MaxGen /\ rgen \in [Reader -> 0 .. MaxGen]
      /\ robj \in [Reader -> SUBSET Object] /\ held \subseteq Reader /\ leaked \subseteq Gen
      /\ crashes \in 0 .. MaxCrashes
  BY GraphAssumption, BoundAssumption DEF Init, Gen, Steps
<1> QED BY Zenon, <1>1, <1>2, <1>3 DEF TypeOK, ProcessOK

\* The state of imports, catalog, collector and readers always has its type;
\* in particular the target generation of a compaction never passes the bound
\* that checked_add enforces.
THEOREM TypeCorrect == Spec => []TypeOK
<1>1. TypeOK /\ [Next]_vars => TypeOK'
  BY ImportType, StoreType, ProcessType DEF TypeOK
<1> QED
  BY TypeInit, <1>1, PTL DEF Spec

-----------------------------------------------------------------------------
(* The object graph.                                                       *)

\* More roots reach more objects.
LEMMA ReachableMonotone ==
  ASSUME NEW S, NEW T, S \subseteq T
  PROVE  Reachable(S) \subseteq Reachable(T)
BY ZenonT(60) DEF Reachable

-----------------------------------------------------------------------------
(* The inductive invariant.                                                *)

\* Names, manifests and visibility stay consistent.
LEMMA ImportInvStep ==
  ASSUME TypeOK, TypeOK', IInv, [Next]_vars
  PROVE  ImportInv'
<1> USE GraphAssumption, BoundAssumption DEF importVars, gcVars, retireVars, readerVars,
     listVars, vars, Unlist, IInv, ImportInv, Active, TypeOK, ImportOK
<1>1. ASSUME NEW r \in Repo, NEW T \in SUBSET Object, Import(r, T) PROVE ImportInv'
  BY SMTT(60), <1>1 DEF Import
<1>2. ASSUME NEW r \in Repo, PublishSnapshot(r) PROVE ImportInv'
  BY SMTT(60), <1>2 DEF PublishSnapshot
<1>3. ASSUME NEW r \in Repo, ReconcileSnapshot(r) PROVE ImportInv'
  BY SMTT(60), <1>3 DEF ReconcileSnapshot
<1>4. ASSUME NEW r \in Repo, DeleteRepository(r) PROVE ImportInv'
  BY SMTT(60), <1>4 DEF DeleteRepository
<1>5. CASE PlanWorkspace
  BY ZenonT(60), <1>5 DEF PlanWorkspace
<1>6. ASSUME NEW r \in Repo, PersistWorkspace(r) PROVE ImportInv'
  BY SMTT(60), <1>6 DEF PersistWorkspace
<1>7. ASSUME NEW pin \in Gen \X Repo, DeleteWorkspace(pin) PROVE ImportInv'
  BY ZenonT(60), <1>7 DEF DeleteWorkspace
<1>8. CASE GcMark
  BY SMTT(60), <1>8 DEF GcMark
<1>9. CASE GcCopy
  BY ZenonT(60), <1>9 DEF GcCopy
<1>10. CASE GcPublish
  BY SMTT(60), <1>10 DEF GcPublish
<1>11. CASE GcPointer
  BY ZenonT(60), <1>11 DEF GcPointer
<1>12. ASSUME NEW g \in Gen, RetireDeferred(g) PROVE ImportInv'
  BY <1>12 DEF RetireDeferred
<1>13. CASE MoveRefused
  BY ZenonT(60), <1>13 DEF MoveRefused
<1>14. ASSUME NEW g \in Gen, RetireMark(g) PROVE ImportInv'
  BY ZenonT(60), <1>14 DEF RetireMark
<1>15. ASSUME NEW g \in Gen, MoveToTrash(g) PROVE ImportInv'
  BY ZenonT(60), <1>15 DEF MoveToTrash
<1>16. ASSUME NEW p \in Reader, NEW x \in Object, Locate(p, x) PROVE ImportInv'
  BY SMTT(60), <1>16 DEF Locate
<1>17. ASSUME NEW p \in Reader, Lease(p) PROVE ImportInv'
  BY ZenonT(60), <1>17 DEF Lease
<1>18. ASSUME NEW p \in Reader, LeaseFails(p) PROVE ImportInv'
  BY SMTT(60), <1>18 DEF LeaseFails
<1>19. ASSUME NEW p \in Reader, Release(p) PROVE ImportInv'
  BY ZenonT(60), <1>19 DEF Release
<1>20. CASE Restart
  BY <1>20 DEF Restart
<1>21. CASE UNCHANGED vars
  BY ZenonT(60), <1>21
<1>22. CASE GcList
  BY ZenonT(60), <1>22 DEF GcList, Retained
<1>23. CASE GcMarkFails
  BY ZenonT(60), <1>23 DEF GcMarkFails
<1> QED
  BY ZenonT(60), <1>1, <1>2, <1>3, <1>4, <1>5, <1>6, <1>7, <1>8, <1>9, <1>10, <1>11, <1>12,
       <1>13, <1>14, <1>15, <1>16, <1>17, <1>18, <1>19, <1>20, <1>21,
       <1>22, <1>23 DEF Next, GcStep

\* The listing stays complete, but for those that named something since.
LEMMA ListInvStep ==
  ASSUME TypeOK, TypeOK', IInv, [Next]_vars
  PROVE  ListInv'
<1> USE DEF importVars, listVars, vars, IInv, ImportInv, ListInv, Active, TypeOK, ImportOK, Unlist
<1>1. ASSUME NEW r \in Repo, NEW T \in SUBSET Object, Import(r, T) PROVE ListInv'
  <2> SUFFICES ASSUME listed, NEW e \in named', Active(e[1])', e[1] \notin late'
               PROVE  e \in listing
    BY ZenonT(60), <1>1 DEF Import
  <2>1. e[1] \in Repo /\ late \subseteq late'
    BY ZenonT(60), <1>1 DEF Import
  <2>2. e \in named
    <3>1. CASE {r} \X T \subseteq named
      BY ZenonT(60), <1>1, <3>1 DEF Import
    <3>2. CASE ~({r} \X T \subseteq named)
      <4>1. r \in late'
        BY ZenonT(60), <1>1, <3>2 DEF Import
      <4> QED
        BY ZenonT(60), <1>1, <4>1 DEF Import
    <3> QED
      BY Zenon, <3>1, <3>2
  <2>3. Active(e[1])
    <3>1. job[e[1]] # "new"
      BY Zenon, <2>2 DEF IInv, ImportInv
    <3>2. CASE e[1] = r
      BY Zenon, <1>1, <3>1, <3>2 DEF Import, Active
    <3>3. CASE e[1] # r
      BY SMTT(60), <1>1, <2>1, <3>3 DEF Import, Active, TypeOK, ImportOK
    <3> QED
      BY Zenon, <3>2, <3>3
  <2> QED
    BY Zenon, <2>1, <2>2, <2>3 DEF IInv, ListInv
<1>2. ASSUME NEW r \in Repo, PublishSnapshot(r) PROVE ListInv'
  BY SMTT(60), <1>2 DEF PublishSnapshot
<1>3. ASSUME NEW r \in Repo, ReconcileSnapshot(r) PROVE ListInv'
  BY SMTT(60), <1>3 DEF ReconcileSnapshot
<1>4. ASSUME NEW r \in Repo, DeleteRepository(r) PROVE ListInv'
  BY ZenonT(60), <1>4 DEF DeleteRepository
<1>5. CASE PlanWorkspace
  BY ZenonT(60), <1>5 DEF PlanWorkspace
<1>6. ASSUME NEW r \in Repo, PersistWorkspace(r) PROVE ListInv'
  BY ZenonT(60), <1>6 DEF PersistWorkspace
<1>7. ASSUME NEW pin \in Gen \X Repo, DeleteWorkspace(pin) PROVE ListInv'
  BY ZenonT(60), <1>7 DEF DeleteWorkspace
<1>8. CASE GcMark
  BY ZenonT(60), <1>8 DEF GcMark
<1>9. CASE GcCopy
  BY ZenonT(60), <1>9 DEF GcCopy
<1>10. CASE GcPublish
  BY ZenonT(60), <1>10 DEF GcPublish
<1>11. CASE GcPointer
  BY ZenonT(60), <1>11 DEF GcPointer
<1>12. ASSUME NEW g \in Gen, RetireDeferred(g) PROVE ListInv'
  BY ZenonT(60), <1>12 DEF RetireDeferred
<1>13. CASE MoveRefused
  BY ZenonT(60), <1>13 DEF MoveRefused
<1>14. ASSUME NEW g \in Gen, RetireMark(g) PROVE ListInv'
  BY ZenonT(60), <1>14 DEF RetireMark
<1>15. ASSUME NEW g \in Gen, MoveToTrash(g) PROVE ListInv'
  BY ZenonT(60), <1>15 DEF MoveToTrash
<1>16. ASSUME NEW p \in Reader, NEW x \in Object, Locate(p, x) PROVE ListInv'
  BY ZenonT(60), <1>16 DEF Locate
<1>17. ASSUME NEW p \in Reader, Lease(p) PROVE ListInv'
  BY ZenonT(60), <1>17 DEF Lease
<1>18. ASSUME NEW p \in Reader, LeaseFails(p) PROVE ListInv'
  BY ZenonT(60), <1>18 DEF LeaseFails
<1>19. ASSUME NEW p \in Reader, Release(p) PROVE ListInv'
  BY ZenonT(60), <1>19 DEF Release
<1>20. CASE Restart
  BY ZenonT(60), <1>20 DEF Restart
<1>21. CASE UNCHANGED vars
  BY ZenonT(60), <1>21
<1>22. CASE GcList
  BY ZenonT(60), <1>22 DEF GcList, Retained
<1>23. CASE GcMarkFails
  BY ZenonT(60), <1>23 DEF GcMarkFails
<1> QED
  BY ZenonT(60), <1>1, <1>2, <1>3, <1>4, <1>5, <1>6, <1>7, <1>8, <1>9, <1>10, <1>11, <1>12,
       <1>13, <1>14, <1>15, <1>16, <1>17, <1>18, <1>19, <1>20, <1>21,
       <1>22, <1>23 DEF Next, GcStep

\* Locations keep leading to records.
LEMMA StoreInvStep ==
  ASSUME TypeOK, TypeOK', IInv, [Next]_vars
  PROVE  StoreInv'
<1> USE GraphAssumption, BoundAssumption DEF importVars, gcVars, retireVars, readerVars,
     listVars, vars, Unlist, IInv, ImportInv, StoreInv, GcInv, Active, Protected, Spared, TypeOK, ImportOK,
     StoreOK, ProcessOK, Gen, Finish
<1>1. ASSUME NEW r \in Repo, NEW T \in SUBSET Object, Import(r, T) PROVE StoreInv'
  BY SMTT(60), <1>1 DEF Import
<1>2. ASSUME NEW r \in Repo, PublishSnapshot(r) PROVE StoreInv'
  BY SMTT(60), <1>2 DEF PublishSnapshot
<1>3. ASSUME NEW r \in Repo, ReconcileSnapshot(r) PROVE StoreInv'
  BY SMTT(60), <1>3 DEF ReconcileSnapshot
<1>4. ASSUME NEW r \in Repo, DeleteRepository(r) PROVE StoreInv'
  BY SMTT(60), <1>4 DEF DeleteRepository
<1>5. CASE PlanWorkspace
  BY ZenonT(60), <1>5 DEF PlanWorkspace
<1>6. ASSUME NEW r \in Repo, PersistWorkspace(r) PROVE StoreInv'
  BY ZenonT(60), <1>6 DEF PersistWorkspace
<1>7. ASSUME NEW pin \in Gen \X Repo, DeleteWorkspace(pin) PROVE StoreInv'
  BY ZenonT(60), <1>7 DEF DeleteWorkspace
<1>8. CASE GcMark
  BY ZenonT(60), <1>8 DEF GcMark
<1>9. CASE GcCopy
  BY SMTT(60), <1>9 DEF GcCopy
<1>10. CASE GcPublish
  <2>1. CASE UNCHANGED <<loc, current>>
    BY ZenonT(60), <1>10, <2>1 DEF GcPublish
  <2>2. CASE loc' = [x \in Object |-> IF x \in live THEN current + 1 ELSE loc[x]] /\ current' = current + 1
    <3>1. bytes' = bytes /\ named' = named /\ pc = "publish" /\ current \in Nat
          /\ \A r \in Repo : Spared(r)' = Spared(r)
      BY SMTT(60), <1>10 DEF GcPublish
    <3>2. \A x \in Object : loc'[x] # 0 => loc'[x] <= current' /\ x \in bytes'[loc'[x]]
      BY SMTT(60), <2>2, <3>1
    <3>3. \A e \in named' : Spared(e[1])' => loc'[e[2]] = current'
      BY ZenonT(60), <2>2, <3>1
    <3> QED
      BY ZenonT(60), <3>2, <3>3
  <2> QED
    BY ZenonT(60), <1>10, <2>1, <2>2 DEF GcPublish
<1>11. CASE GcPointer
  BY ZenonT(60), <1>11 DEF GcPointer
<1>12. ASSUME NEW g \in Gen, RetireDeferred(g) PROVE StoreInv'
  BY ZenonT(60), <1>12 DEF RetireDeferred
<1>13. CASE MoveRefused
  BY ZenonT(60), <1>13 DEF MoveRefused
<1>14. ASSUME NEW g \in Gen, RetireMark(g) PROVE StoreInv'
  BY ZenonT(60), <1>14 DEF RetireMark
<1>15. ASSUME NEW g \in Gen, MoveToTrash(g) PROVE StoreInv'
  BY ZenonT(60), <1>15 DEF MoveToTrash
<1>16. ASSUME NEW p \in Reader, NEW x \in Object, Locate(p, x) PROVE StoreInv'
  BY ZenonT(60), <1>16 DEF Locate
<1>17. ASSUME NEW p \in Reader, Lease(p) PROVE StoreInv'
  BY ZenonT(60), <1>17 DEF Lease
<1>18. ASSUME NEW p \in Reader, LeaseFails(p) PROVE StoreInv'
  BY ZenonT(60), <1>18 DEF LeaseFails
<1>19. ASSUME NEW p \in Reader, Release(p) PROVE StoreInv'
  BY ZenonT(60), <1>19 DEF Release
<1>20. CASE Restart
  BY ZenonT(60), <1>20 DEF Restart
<1>21. CASE UNCHANGED vars
  BY <1>21
<1>22. CASE GcList
  BY ZenonT(60), <1>22 DEF GcList, Retained
<1>23. CASE GcMarkFails
  BY ZenonT(60), <1>23 DEF GcMarkFails
<1> QED
  BY ZenonT(60), <1>1, <1>2, <1>3, <1>4, <1>5, <1>6, <1>7, <1>8, <1>9, <1>10, <1>11, <1>12,
       <1>13, <1>14, <1>15, <1>16, <1>17, <1>18, <1>19, <1>20, <1>21,
       <1>22, <1>23 DEF Next, GcStep

\* The collector keeps track of what it must not lose.
LEMMA GcInvStep ==
  ASSUME TypeOK, TypeOK', IInv, [Next]_vars
  PROVE  GcInv'
<1> USE GraphAssumption, BoundAssumption DEF importVars, gcVars, retireVars, readerVars,
     listVars, vars, Unlist, IInv, ImportInv, GcInv, RetireInv, Active, Protected, Spared, Pinned, TypeOK, ImportOK,
     StoreOK, ProcessOK, Gen, Finish
<1>1. ASSUME NEW r \in Repo, NEW T \in SUBSET Object, Import(r, T) PROVE GcInv'
  BY ZenonT(60), <1>1 DEF Import
<1>2. ASSUME NEW r \in Repo, PublishSnapshot(r) PROVE GcInv'
  BY ZenonT(60), <1>2 DEF PublishSnapshot
<1>3. ASSUME NEW r \in Repo, ReconcileSnapshot(r) PROVE GcInv'
  BY ZenonT(60), <1>3 DEF ReconcileSnapshot
<1>4. ASSUME NEW r \in Repo, DeleteRepository(r) PROVE GcInv'
  BY ZenonT(60), <1>4 DEF DeleteRepository
<1>5. CASE PlanWorkspace
  BY ZenonT(60), <1>5 DEF PlanWorkspace
<1>6. ASSUME NEW r \in Repo, PersistWorkspace(r) PROVE GcInv'
  BY ZenonT(60), <1>6 DEF PersistWorkspace
<1>7. ASSUME NEW pin \in Gen \X Repo, DeleteWorkspace(pin) PROVE GcInv'
  BY ZenonT(60), <1>7 DEF DeleteWorkspace
<1>8. CASE GcMark
  <2>1. PICK visited \in SUBSET named :
          /\ Walks(visited)
          /\ Marked(visited) = Reachable(Marked(MarkRoots))
          /\ live' = Marked(visited)
    BY ZenonT(60), <1>8 DEF GcMark
  <2>2. ASSUME NEW e \in named, Spared(e[1])'
        PROVE  e[2] \in live'
    <3>1. e[1] \in Repo /\ e[2] \in Object
      BY ZenonT(60) DEF TypeOK, ImportOK
    <3>4. Protected(e[1]) /\ e[1] \notin late
      BY ZenonT(60), <1>8, <2>2 DEF GcMark, importVars, Active, Protected, Spared
    <3>2. CASE Active(e[1])
      <4>1. e \in MarkRoots
        BY ZenonT(60), <1>8, <3>2, <3>4 DEF GcMark, MarkRoots, IInv, ListInv
      <4>2. e \in visited
        BY ONLY Zenon, <2>1, <4>1 DEF Walks
      <4>3. e[2] \in Marked(visited)
        BY ONLY Zenon, <4>2 DEF Marked
      <4> QED
        BY ONLY Zenon, <2>1, <4>3
    <3>3. CASE snap[e[1]] = "Ready"
      <4>1. \A x \in Roots[e[1]] : <<e[1], x>> \in MarkRoots
        BY ZenonT(60), <3>1, <3>3 DEF MarkRoots
      <4>2. Roots[e[1]] \subseteq Marked(MarkRoots)
        <5> SUFFICES ASSUME NEW x \in Roots[e[1]]
                     PROVE  x \in Marked(MarkRoots)
          BY ZenonT(60)
        <5>1. <<e[1], x>>[2] = x /\ <<e[1], x>> \in MarkRoots
          BY ZenonT(60), <4>1
        <5> QED
          BY ZenonT(60), <5>1 DEF Marked
      <4>3. e[2] \in Reachable(Roots[e[1]])
        BY ZenonT(60) DEF IInv, ImportInv
      <4>4. Reachable(Roots[e[1]]) \subseteq Reachable(Marked(MarkRoots))
        BY ONLY ZenonT(60), <4>2, ReachableMonotone
      <4>5. live' = Reachable(Marked(MarkRoots))
        BY ONLY Zenon, <2>1
      <4> QED
        BY ONLY Zenon, <4>3, <4>4, <4>5
    <3> QED
      BY ZenonT(60), <3>2, <3>3, <3>4 DEF Protected
  <2> QED
    BY ZenonT(60), <1>8, <2>2 DEF GcMark, importVars, GcInv
<1>9. CASE GcCopy
  BY SMTT(60), <1>9 DEF GcCopy
<1>10. CASE GcPublish
  <2>1. pc' \in {"idle", "pointer"}
    BY ZenonT(60), <1>10 DEF GcPublish
  <2>2. pc' = "pointer" => current' = current + 1 /\ current \in Nat \ {0}
    BY SMTT(60), <1>10 DEF GcPublish
  <2>3. pc' = "pointer" => current' > 1
    BY SMTT(60), <2>2
  <2> QED
    BY ZenonT(60), <2>1, <2>3
<1>11. CASE GcPointer
  BY SMTT(60), <1>11 DEF GcPointer
<1>12. ASSUME NEW g \in Gen, RetireDeferred(g) PROVE GcInv'
  BY ZenonT(60), <1>12 DEF RetireDeferred
<1>13. CASE MoveRefused
  BY <1>13 DEF MoveRefused
<1>14. ASSUME NEW g \in Gen, RetireMark(g) PROVE GcInv'
  BY ZenonT(60), <1>14 DEF RetireMark
<1>15. ASSUME NEW g \in Gen, MoveToTrash(g) PROVE GcInv'
  BY ZenonT(60), <1>15 DEF MoveToTrash
<1>16. ASSUME NEW p \in Reader, NEW x \in Object, Locate(p, x) PROVE GcInv'
  BY ZenonT(60), <1>16 DEF Locate
<1>17. ASSUME NEW p \in Reader, Lease(p) PROVE GcInv'
  BY ZenonT(60), <1>17 DEF Lease
<1>18. ASSUME NEW p \in Reader, LeaseFails(p) PROVE GcInv'
  BY ZenonT(60), <1>18 DEF LeaseFails
<1>19. ASSUME NEW p \in Reader, Release(p) PROVE GcInv'
  BY ZenonT(60), <1>19 DEF Release
<1>20. CASE Restart
  BY ZenonT(60), <1>20 DEF Restart
<1>21. CASE UNCHANGED vars
  BY ZenonT(60), <1>21
<1>22. CASE GcList
  BY ZenonT(60), <1>22 DEF GcList, Retained
<1>23. CASE GcMarkFails
  BY ZenonT(60), <1>23 DEF GcMarkFails
<1> QED
  BY ZenonT(60), <1>1, <1>2, <1>3, <1>4, <1>5, <1>6, <1>7, <1>8, <1>9, <1>10, <1>11, <1>12,
       <1>13, <1>14, <1>15, <1>16, <1>17, <1>18, <1>19, <1>20, <1>21,
       <1>22, <1>23 DEF Next, GcStep

\* Retired generations stay behind the pointer.
LEMMA RetireInvStep ==
  ASSUME TypeOK, TypeOK', IInv, [Next]_vars
  PROVE  RetireInv'
<1> USE GraphAssumption, BoundAssumption DEF importVars, gcVars, retireVars, readerVars,
     listVars, vars, Unlist, IInv, GcInv, RetireInv, TypeOK, StoreOK, ProcessOK, Gen, Finish
<1>1. ASSUME NEW r \in Repo, NEW T \in SUBSET Object, Import(r, T) PROVE RetireInv'
  BY ZenonT(60), <1>1 DEF Import
<1>2. ASSUME NEW r \in Repo, PublishSnapshot(r) PROVE RetireInv'
  BY ZenonT(60), <1>2 DEF PublishSnapshot
<1>3. ASSUME NEW r \in Repo, ReconcileSnapshot(r) PROVE RetireInv'
  BY ZenonT(60), <1>3 DEF ReconcileSnapshot
<1>4. ASSUME NEW r \in Repo, DeleteRepository(r) PROVE RetireInv'
  BY ZenonT(60), <1>4 DEF DeleteRepository
<1>5. CASE PlanWorkspace
  BY ZenonT(60), <1>5 DEF PlanWorkspace
<1>6. ASSUME NEW r \in Repo, PersistWorkspace(r) PROVE RetireInv'
  BY ZenonT(60), <1>6 DEF PersistWorkspace
<1>7. ASSUME NEW pin \in Gen \X Repo, DeleteWorkspace(pin) PROVE RetireInv'
  BY ZenonT(60), <1>7 DEF DeleteWorkspace
<1>8. CASE GcMark
  BY ZenonT(60), <1>8 DEF GcMark
<1>9. CASE GcCopy
  BY ZenonT(60), <1>9 DEF GcCopy
<1>10. CASE GcPublish
  BY SMTT(60), <1>10 DEF GcPublish
<1>11. CASE GcPointer
  BY SMTT(60), <1>11 DEF GcPointer
<1>12. ASSUME NEW g \in Gen, RetireDeferred(g) PROVE RetireInv'
  BY SMTT(60), <1>12 DEF RetireDeferred
<1>13. CASE MoveRefused
  BY ZenonT(60), <1>13 DEF MoveRefused
<1>14. ASSUME NEW g \in Gen, RetireMark(g) PROVE RetireInv'
  BY SMTT(60), <1>14 DEF RetireMark
<1>15. ASSUME NEW g \in Gen, MoveToTrash(g) PROVE RetireInv'
  BY ZenonT(60), <1>15 DEF MoveToTrash
<1>16. ASSUME NEW p \in Reader, NEW x \in Object, Locate(p, x) PROVE RetireInv'
  BY ZenonT(60), <1>16 DEF Locate
<1>17. ASSUME NEW p \in Reader, Lease(p) PROVE RetireInv'
  BY ZenonT(60), <1>17 DEF Lease
<1>18. ASSUME NEW p \in Reader, LeaseFails(p) PROVE RetireInv'
  BY ZenonT(60), <1>18 DEF LeaseFails
<1>19. ASSUME NEW p \in Reader, Release(p) PROVE RetireInv'
  BY ZenonT(60), <1>19 DEF Release
<1>20. CASE Restart
  BY SMTT(60), <1>20 DEF Restart
<1>21. CASE UNCHANGED vars
  BY SMTT(60), <1>21
<1>22. CASE GcList
  BY ZenonT(60), <1>22 DEF GcList, Retained
<1>23. CASE GcMarkFails
  BY ZenonT(60), <1>23 DEF GcMarkFails
<1> QED
  BY ZenonT(60), <1>1, <1>2, <1>3, <1>4, <1>5, <1>6, <1>7, <1>8, <1>9, <1>10, <1>11, <1>12,
       <1>13, <1>14, <1>15, <1>16, <1>17, <1>18, <1>19, <1>20, <1>21,
       <1>22, <1>23 DEF Next, GcStep

\* Leases keep protecting what was looked up.
LEMMA ReaderInvStep ==
  ASSUME TypeOK, TypeOK', IInv, [Next]_vars
  PROVE  ReaderInv'
<1> USE GraphAssumption, BoundAssumption DEF importVars, gcVars, retireVars, readerVars,
     listVars, vars, Unlist, IInv, StoreInv, GcInv, RetireInv, ReaderInv, Leased, Forget, TypeOK, StoreOK,
     ProcessOK, Gen, Finish
<1>1. ASSUME NEW r \in Repo, NEW T \in SUBSET Object, Import(r, T) PROVE ReaderInv'
  BY SMTT(60), <1>1 DEF Import
<1>2. ASSUME NEW r \in Repo, PublishSnapshot(r) PROVE ReaderInv'
  BY ZenonT(60), <1>2 DEF PublishSnapshot
<1>3. ASSUME NEW r \in Repo, ReconcileSnapshot(r) PROVE ReaderInv'
  BY ZenonT(60), <1>3 DEF ReconcileSnapshot
<1>4. ASSUME NEW r \in Repo, DeleteRepository(r) PROVE ReaderInv'
  BY ZenonT(60), <1>4 DEF DeleteRepository
<1>5. CASE PlanWorkspace
  BY ZenonT(60), <1>5 DEF PlanWorkspace
<1>6. ASSUME NEW r \in Repo, PersistWorkspace(r) PROVE ReaderInv'
  BY ZenonT(60), <1>6 DEF PersistWorkspace
<1>7. ASSUME NEW pin \in Gen \X Repo, DeleteWorkspace(pin) PROVE ReaderInv'
  BY ZenonT(60), <1>7 DEF DeleteWorkspace
<1>8. CASE GcMark
  BY ZenonT(60), <1>8 DEF GcMark
<1>9. CASE GcCopy
  BY SMTT(60), <1>9 DEF GcCopy
<1>10. CASE GcPublish
  BY ZenonT(60), <1>10 DEF GcPublish
<1>11. CASE GcPointer
  BY ZenonT(60), <1>11 DEF GcPointer
<1>12. ASSUME NEW g \in Gen, RetireDeferred(g) PROVE ReaderInv'
  BY ZenonT(60), <1>12 DEF RetireDeferred
<1>13. CASE MoveRefused
  BY SMTT(60), <1>13 DEF MoveRefused
<1>14. ASSUME NEW g \in Gen, RetireMark(g) PROVE ReaderInv'
  BY ZenonT(60), <1>14 DEF RetireMark
<1>15. ASSUME NEW g \in Gen, MoveToTrash(g) PROVE ReaderInv'
  BY ZenonT(60), <1>15 DEF MoveToTrash
<1>16. ASSUME NEW p \in Reader, NEW x \in Object, Locate(p, x) PROVE ReaderInv'
  BY ZenonT(60), <1>16 DEF Locate
<1>17. ASSUME NEW p \in Reader, Lease(p) PROVE ReaderInv'
  BY ZenonT(60), <1>17 DEF Lease
<1>18. ASSUME NEW p \in Reader, LeaseFails(p) PROVE ReaderInv'
  BY ZenonT(60), <1>18 DEF LeaseFails
<1>19. ASSUME NEW p \in Reader, Release(p) PROVE ReaderInv'
  BY ZenonT(60), <1>19 DEF Release
<1>20. CASE Restart
  BY SMTT(60), <1>20 DEF Restart
<1>21. CASE UNCHANGED vars
  BY <1>21
<1>22. CASE GcList
  BY ZenonT(60), <1>22 DEF GcList, Retained
<1>23. CASE GcMarkFails
  BY ZenonT(60), <1>23 DEF GcMarkFails
<1> QED
  BY ZenonT(60), <1>1, <1>2, <1>3, <1>4, <1>5, <1>6, <1>7, <1>8, <1>9, <1>10, <1>11, <1>12,
       <1>13, <1>14, <1>15, <1>16, <1>17, <1>18, <1>19, <1>20, <1>21,
       <1>22, <1>23 DEF Next, GcStep

\* The invariant behind all safety properties: every step preserves it.
LEMMA Invariance == Spec => [](TypeOK /\ IInv)
<1>1. Init => TypeOK /\ IInv
  <2>1. Init => ImportInv /\ ListInv /\ GcInv
    BY ZenonT(60) DEF Init, ImportInv, ListInv, GcInv, Active
  <2>2. Init => StoreInv /\ RetireInv /\ ReaderInv
    BY SMTT(60), BoundAssumption DEF Init, StoreInv, RetireInv, ReaderInv
  <2> QED
    BY ZenonT(60), <2>1, <2>2, TypeInit DEF IInv
<1>2. (TypeOK /\ IInv) /\ [Next]_vars => (TypeOK /\ IInv)'
  <2> SUFFICES ASSUME TypeOK, IInv, [Next]_vars
               PROVE  TypeOK' /\ IInv'
    OBVIOUS
  <2>1. TypeOK'
    BY ImportType, StoreType, ProcessType DEF TypeOK
  <2> QED
    BY <2>1, ImportInvStep, ListInvStep, StoreInvStep, GcInvStep, RetireInvStep, ReaderInvStep
       DEF IInv
<1> QED
  BY <1>1, <1>2, PTL DEF Spec

\* As long as no import finds the stale location of a collected object, every
\* object of a Ready snapshot stays readable, through any number of imports,
\* deletions, collections, retirements and restarts, unless its import named
\* objects between a GC job's listing and its mark.
THEOREM ReadyStaysReadable ==
  ASSUME ~StaleDedupe
  PROVE  Spec => []ReadyReadable
<1>1. TypeOK /\ IInv => ReadyReadable
  <2> SUFFICES ASSUME TypeOK, IInv,
                      NEW r \in Repo \ overtaken, snap[r] = "Ready",
                      NEW x \in Reachable(Roots[r])
               PROVE  <<r, x>> \in named /\ Readable(x)
    BY ZenonT(60) DEF ReadyReadable
  <2>1. <<r, x>> \in named
    BY ZenonT(60) DEF IInv, ImportInv
  <2>2. loc[x] = current /\ x \in Object
    <3>1. Spared(r)
      BY Zenon DEF Protected, Spared
    <3> QED
      BY ZenonT(60), <2>1, <3>1 DEF IInv, StoreInv, Reachable
  <2>3. current \notin trashed
    BY DEF IInv, RetireInv, TypeOK, StoreOK, Gen
  <2>4. current # 0
    BY SMTT(60) DEF TypeOK, StoreOK, Gen
  <2> QED
    BY ZenonT(60), <2>1, <2>2, <2>3, <2>4 DEF Readable, IInv, StoreInv
<1> QED
  BY Invariance, <1>1, PTL

\* A lease protects the record its reader looked up, stale dedupe or not.
THEOREM LeasesProtect == Spec => []LeaseProtects
<1>1. TypeOK /\ IInv => LeaseProtects
  BY DEF LeaseProtects, IInv, ReaderInv, TypeOK, ProcessOK
<1> QED
  BY Invariance, <1>1, PTL

\* The active-generation file never names a generation in the trash.
THEOREM PointerStaysInPlace == Spec => []PointerInPlace
<1>1. TypeOK /\ IInv => PointerInPlace
  BY SMTT(60) DEF PointerInPlace, IInv, RetireInv, TypeOK, StoreOK, Gen
<1> QED
  BY Invariance, <1>1, PTL

\* Only superseded generations that nobody pins or leases are moved to the trash.
THEOREM OnlyUnusedRetires == Spec => RetiresUnused
<1>1. TypeOK /\ IInv /\ [Next]_vars =>
        [\A g \in trashed' \ trashed :
           g < current /\ ~Pinned(g) /\ \A p \in held : rgen[p] # g]_vars
  <2> SUFFICES ASSUME TypeOK, IInv, [Next]_vars, NEW g \in trashed' \ trashed
               PROVE  g < current /\ ~Pinned(g) /\ \A p \in held : rgen[p] # g
    BY ZenonT(60)
  <2>1. MoveToTrash(g)
    <3>1. \E h \in Gen : MoveToTrash(h)
      BY ZenonT(60) DEF Next, GcStep, vars, retireVars, Import, PublishSnapshot,
           ReconcileSnapshot,
             DeleteRepository, PlanWorkspace, PersistWorkspace, DeleteWorkspace, GcList, GcMark, GcMarkFails, GcCopy,
             GcPublish, GcPointer, RetireDeferred, MoveRefused, RetireMark, Locate, Lease,
             LeaseFails, Release, Restart
    <3> QED
      BY <3>1 DEF MoveToTrash
  <2> QED
    BY <2>1 DEF MoveToTrash, Leased, IInv, GcInv
<1> QED
  BY Invariance, <1>1, PTL DEF Spec, RetiresUnused

-----------------------------------------------------------------------------
(* The probes of the clone domain, for any number of probes, times and     *)
(* failing calls.                                                          *)

\* The steps of a probe with respect to the file it makes in a directory.
Kept(p, d) ==
  /\ probeStep[p] \in Holding(d) => probeStep'[p] \in Holding(d)
  /\ probeStep'[p] \in Working(d) => probeStep[p] \in Working(d)
  /\ probeStep[p] \in Removed(d) => probeStep'[p] \in Removed(d)
Created(p, d) ==
  /\ name[d][nonce[p]] = NoInode /\ name' = [name EXCEPT ![d][nonce[p]] = <<p, d>>]
  /\ stuck' = stuck /\ probeStep'[p] \in Holding(d) /\ probeStep[p] \notin Removed(d)
Deleted(p, d) ==
  /\ name' = [name EXCEPT ![d][nonce[p]] = NoInode] /\ stuck' = stuck \ {<<d, nonce[p]>>}
  /\ probeStep'[p] \in Removed(d) /\ probeStep'[p] \notin Working(d)
Left(p, d) ==
  /\ name' = name /\ stuck' = stuck \cup {<<d, nonce[p]>>}
  /\ probeStep'[p] \in Removed(d) /\ probeStep'[p] \notin Working(d)
Stays(d) == name'[d] = name[d] /\ \A n \in Nonce : <<d, n>> \in stuck' <=> <<d, n>> \in stuck

\* A probe moves on alone, and the time and the filesystem stay what they are.
LEMMA ProbeMoves ==
  ASSUME ProbeIInv, NEW p \in Prober, Step(p)
  PROVE  /\ nonce' = nonce /\ domain' = domain
         /\ \A q \in Prober \ {p} : probeStep'[q] = probeStep[q] /\ source'[q] = source[q] /\ target'[q] = target[q] /\ result'[q] = result[q]
         /\ \A q \in Prober : Paired(q)' <=> Paired(q)
<1>1. nonce' = nonce /\ domain' = domain
  BY ZenonT(60) DEF Step, BeginProbe, CreateSource, CreateTarget,
       CreateProbeFile, WriteSource, Clone, ReadTarget, ReadSource, ReadAgain,
     OpenTarget, WriteTarget, RemoveSource, RemoveTarget, RemoveProbeFile, ProbeReturn, SyncFails, CallFails
<1>2. \A q \in Prober \ {p} : probeStep'[q] = probeStep[q]
  <2>1. \E x : probeStep' = [probeStep EXCEPT ![p] = x]
    BY ZenonT(60) DEF Step, ProbeGoto, Errs, BeginProbe, CreateSource,
         CreateTarget, CreateProbeFile, WriteSource, Clone, ReadTarget, ReadSource,
       ReadAgain, OpenTarget, WriteTarget, RemoveSource, RemoveTarget, RemoveProbeFile, ProbeReturn, SyncFails, CallFails
  <2> QED BY Zenon, <2>1 DEF ProbeIInv, ProbeTypeOK
<1>3. \A q \in Prober \ {p} : source'[q] = source[q] /\ target'[q] = target[q]
  <2>1. \E x : source' \in {source, [source EXCEPT ![p] = x]}
    BY ZenonT(60) DEF Step, BeginProbe, CreateSource, CreateTarget,
         CreateProbeFile, WriteSource, Clone, ReadTarget, ReadSource,
       ReadAgain, OpenTarget, WriteTarget, RemoveSource, RemoveTarget, RemoveProbeFile, ProbeReturn, SyncFails, CallFails
  <2>2. \E x : target' \in {target, [target EXCEPT ![p] = x]}
    BY ZenonT(60) DEF Step, BeginProbe, CreateSource, CreateTarget,
         CreateProbeFile, WriteSource, Clone, ReadTarget, ReadSource,
       ReadAgain, OpenTarget, WriteTarget, RemoveSource, RemoveTarget, RemoveProbeFile, ProbeReturn, SyncFails, CallFails
  <2> QED BY Zenon, <2>1, <2>2 DEF ProbeIInv
<1>4. \A q \in Prober \ {p} : result'[q] = result[q]
  <2>1. \E x : result' \in {result, [result EXCEPT ![p] = x]}
    BY ZenonT(60) DEF Step, Errs, BeginProbe, CreateSource,
         CreateTarget, CreateProbeFile, WriteSource, Clone, ReadTarget, ReadSource,
       ReadAgain, OpenTarget, WriteTarget, RemoveSource, RemoveTarget, RemoveProbeFile, ProbeReturn, SyncFails, CallFails
  <2> QED BY Zenon, <2>1 DEF ProbeIInv, ProbeTypeOK
<1>5. \A q \in Prober : Paired(q)' <=> Paired(q) BY ZenonT(60), <1>1 DEF Paired
<1> QED BY Zenon, <1>1, <1>2, <1>3, <1>4, <1>5

\* What a step does to the names.
LEMMA ProbeNaming ==
  ASSUME ProbeIInv, NEW p \in Prober, Step(p)
  PROVE  \/ name' = name /\ stuck' = stuck /\ \A d \in Dir : Kept(p, d)
         \/ \E d \in Dir : (Created(p, d) \/ Deleted(p, d) \/ Left(p, d)) /\ \A e \in Dir \ {d} : Kept(p, e)
<1>0. probeStep \in [Prober -> ProbeSteps] BY Zenon DEF ProbeIInv, ProbeTypeOK
<1> DEFINE Goal == \/ name' = name /\ stuck' = stuck /\ \A d \in Dir : Kept(p, d)
                   \/ \E d \in Dir : (Created(p, d) \/ Deleted(p, d) \/ Left(p, d)) /\ \A e \in Dir \ {d} : Kept(p, e)
<1>1. ASSUME Errs(p), name' = name, stuck' = stuck, probeStep[p] \notin {"start", "removeSource", "removeTarget", "sync", "done"} PROVE Goal
  <2>1. probeStep'[p] = "removeSource" BY ZenonT(60), <1>0, <1>1 DEF Errs, ProbeGoto
  <2>2. \A d \in Dir : Kept(p, d)
    BY <1>1, <2>1 DEF Kept, Holding, Working, Removed, Comparing,
         Dir
  <2> QED BY Zenon, <1>1, <2>2
<1>2. CASE CreateSource(p)
  <2>1. CASE Errs(p) /\ name' = name
    BY Zenon, <1>1, <1>2, <2>1 DEF CreateSource, CreateProbeFile
  <2>2. CASE /\ name["cache"][nonce[p]] = NoInode /\ name' = [name EXCEPT !["cache"][nonce[p]] = <<p, "cache">>]
             /\ ProbeGoto(p, "writeSource") /\ stuck' = stuck
    <3>1. probeStep[p] = "createSource" /\ probeStep'[p] = "writeSource"
      BY ZenonT(60), <1>0, <1>2, <2>2 DEF CreateSource, CreateProbeFile, ProbeGoto
    <3>2. Created(p, "cache") /\ Kept(p, "staging")
      BY <2>2, <3>1 DEF Created, Kept, Holding, Working, Removed,
           Comparing
    <3> QED BY ZenonT(60), <3>2 DEF Dir
  <2> QED BY ZenonT(60), <1>2, <2>1, <2>2 DEF CreateSource, CreateProbeFile
<1>3. CASE CreateTarget(p)
  <2>1. CASE Errs(p) /\ name' = name
    BY Zenon, <1>1, <1>3, <2>1 DEF CreateTarget, CreateProbeFile
  <2>2. CASE /\ name["staging"][nonce[p]] = NoInode /\ name' = [name EXCEPT !["staging"][nonce[p]] = <<p, "staging">>]
             /\ ProbeGoto(p, "clone") /\ stuck' = stuck
    <3>1. probeStep[p] = "createTarget" /\ probeStep'[p] = "clone"
      BY ZenonT(60), <1>0, <1>3, <2>2 DEF CreateTarget, CreateProbeFile, ProbeGoto
    <3>2. Created(p, "staging") /\ Kept(p, "cache")
      BY <2>2, <3>1 DEF Created, Kept, Holding, Working, Removed,
           Comparing
    <3> QED BY Zenon, <3>2 DEF Dir
  <2> QED BY Zenon, <1>3, <2>1, <2>2 DEF CreateTarget, CreateProbeFile
<1>4. CASE RemoveSource(p)
  <2>1. probeStep[p] = "removeSource" /\ probeStep'[p] = "removeTarget"
    BY ZenonT(60), <1>0, <1>4 DEF RemoveSource, RemoveProbeFile, ProbeGoto
  <2>2. /\ probeStep'[p] \in Removed("cache") /\ probeStep'[p] \notin Working("cache") /\ Kept(p, "staging")
    BY <2>1 DEF Kept, Holding, Working, Removed, Comparing
  <2>3. Deleted(p, "cache") \/ Left(p, "cache")
    BY ZenonT(60), <1>4, <2>2 DEF RemoveSource, RemoveProbeFile, Deleted, Left
  <2> QED BY ZenonT(60), <2>2, <2>3 DEF Dir
<1>5. CASE RemoveTarget(p)
  <2>1. probeStep[p] = "removeTarget" /\ probeStep'[p] = "sync"
    BY ZenonT(60), <1>0, <1>5 DEF RemoveTarget, RemoveProbeFile, ProbeGoto
  <2>2. /\ probeStep'[p] \in Removed("staging") /\ probeStep'[p] \notin Working("staging") /\ Kept(p, "cache")
    BY <2>1 DEF Kept, Holding, Working, Removed, Comparing
  <2>3. Deleted(p, "staging") \/ Left(p, "staging")
    BY ZenonT(60), <1>5, <2>2 DEF RemoveTarget, RemoveProbeFile, Deleted, Left
  <2> QED BY ZenonT(60), <2>2, <2>3 DEF Dir
<1>6. CASE BeginProbe(p) \/ WriteSource(p) \/ WriteTarget(p) \/ ProbeReturn(p) \/ SyncFails(p)
  <2>1. /\ name' = name /\ stuck' = stuck
        /\ \/ probeStep[p] = "start" /\ probeStep'[p] = "createSource"
           \/ probeStep[p] = "writeSource" /\ probeStep'[p] = "createTarget"
           \/ probeStep[p] = "writeTarget" /\ probeStep'[p] = "readSource"
           \/ probeStep[p] = "sync" /\ probeStep'[p] = "done"
    BY ZenonT(60), <1>0, <1>6 DEF BeginProbe, WriteSource, WriteTarget,
         ProbeReturn, SyncFails, ProbeGoto
  <2>2. \A d \in Dir : Kept(p, d)
    BY <2>1 DEF Kept, Holding, Working, Removed, Comparing,
         Dir
  <2> QED BY ZenonT(60), <2>1, <2>2
<1>7. CASE Clone(p) \/ ReadTarget(p) \/ OpenTarget(p) \/ ReadSource(p) \/ CallFails(p)
  <2>1. CASE Errs(p)
    <3>1. name' = name /\ stuck' = stuck /\ probeStep[p] \notin {"start", "removeSource", "removeTarget", "sync", "done"}
      BY ZenonT(60), <1>7 DEF Clone, ReadTarget, OpenTarget,
           ReadSource, ReadAgain, CallFails
    <3> QED BY ZenonT(60), <1>1, <2>1, <3>1
  <2>2. CASE ~Errs(p)
    <3>1. /\ name' = name /\ stuck' = stuck
          /\ \/ probeStep[p] = "clone" /\ probeStep'[p] = "readTarget"
             \/ probeStep[p] = "readTarget" /\ probeStep'[p] = "openTarget"
             \/ probeStep[p] = "openTarget" /\ probeStep'[p] = "writeTarget"
             \/ probeStep[p] = "readSource" /\ probeStep'[p] = "removeSource"
      BY ZenonT(60), <1>0, <1>7, <2>2 DEF Clone, ReadTarget, OpenTarget,
           ReadSource, ReadAgain, CallFails, ProbeGoto
    <3>2. \A d \in Dir : Kept(p, d)
      BY SMTT(60), <3>1 DEF Kept, Holding, Working, Removed, Comparing,
           Dir
    <3> QED BY ZenonT(60), <3>1, <3>2
  <2> QED BY Zenon, <2>1, <2>2
<1> QED BY ZenonT(60), <1>2, <1>3, <1>4, <1>5, <1>6, <1>7 DEF Step

\* The invariant's part about names is kept.
LEMMA ProbeNamesStep ==
  ASSUME ProbeConstants, ProbeIInv, NEW p \in Prober, Step(p)
  PROVE  \A d \in Dir : Owned(d)' /\ NameTaken(d)' /\ Alone(d)'
<1>0. nonce \in [Prober -> Nonce] /\ name \in [Dir -> [Nonce -> Inode \cup {NoInode}]] /\ nonce' = nonce
  BY Zenon, ProbeMoves DEF ProbeIInv, ProbeTypeOK
<1>1. \A q \in Prober \ {p} : probeStep'[q] = probeStep[q] BY Zenon, ProbeMoves
<1>2. \A q \in Prober : Paired(q)' <=> Paired(q) BY Zenon, ProbeMoves
<1>3. \A d \in Dir : Owned(d) /\ NameTaken(d) /\ Alone(d)
  BY Zenon DEF ProbeIInv
\* What concerns one directory, from what the step does there
<1>4. ASSUME NEW d \in Dir, Kept(p, d), Stays(d)
      PROVE  Owned(d)' /\ NameTaken(d)' /\ Alone(d)'
  <2>1. \A q \in Prober : /\ probeStep[q] \in Holding(d) => probeStep'[q] \in Holding(d)
                          /\ probeStep'[q] \in Working(d) => probeStep[q] \in Working(d)
                          /\ probeStep[q] \in Removed(d) => probeStep'[q] \in Removed(d)
    BY Zenon, <1>1, <1>4 DEF Kept
  <2>2. Owned(d)'
    <3> SUFFICES ASSUME NEW n \in Nonce, name'[d][n] # NoInode, <<d, n>> \notin stuck'
                 PROVE  \E q \in Prober : name'[d][n] = <<q, d>> /\ nonce'[q] = n /\ probeStep'[q] \in Holding(d)
      BY Zenon DEF Owned
    <3>0. name[d][n] # NoInode /\ <<d, n>> \notin stuck BY Zenon, <1>4 DEF Stays
    <3>1. PICK q \in Prober : name[d][n] = <<q, d>> /\ nonce[q] = n /\ probeStep[q] \in Holding(d)
      BY Zenon, <1>3, <3>0 DEF Owned
    <3> QED BY Zenon, <1>0, <1>4, <2>1, <3>1 DEF Stays
  <2>3. NameTaken(d)'
    <3> SUFFICES ASSUME NEW q \in Prober, probeStep'[q] \in Working(d), name'[d][nonce'[q]] # <<q, d>>
                 PROVE  \E r \in Prober \ {q} : nonce'[r] = nonce'[q] /\ probeStep'[r] \in Removed(d)
      BY Zenon DEF NameTaken
    <3>1. PICK r \in Prober \ {q} : nonce[r] = nonce[q] /\ probeStep[r] \in Removed(d)
      BY ZenonT(60), <1>0, <1>3, <1>4, <2>1 DEF NameTaken, Stays
    <3> QED BY Zenon, <1>0, <2>1, <3>1
  <2>4. Alone(d)'
    BY Zenon, <1>0, <1>2, <1>3, <1>4, <2>1 DEF Alone, Stays
  <2> QED BY Zenon, <2>2, <2>3, <2>4
<1>5. ASSUME NEW d \in Dir, Created(p, d)
      PROVE  Owned(d)' /\ NameTaken(d)' /\ Alone(d)'
  <2>1. /\ name'[d][nonce[p]] = <<p, d>> /\ \A n \in Nonce \ {nonce[p]} : name'[d][n] = name[d][n]
        /\ stuck' = stuck /\ name[d][nonce[p]] = NoInode /\ probeStep'[p] \in Holding(d) /\ probeStep[p] \notin Removed(d)
    BY Zenon, <1>0, <1>5 DEF Created
  <2>2. ASSUME NEW n \in Nonce, name'[d][n] # NoInode, <<d, n>> \notin stuck'
        PROVE  \E q \in Prober : name'[d][n] = <<q, d>> /\ nonce'[q] = n /\ probeStep'[q] \in Holding(d)
    <3>1. CASE n = nonce[p] BY Zenon, <1>0, <2>1, <3>1
    <3>2. CASE n # nonce[p]
      <4>1. PICK q \in Prober : name[d][n] = <<q, d>> /\ nonce[q] = n /\ probeStep[q] \in Holding(d)
        BY ZenonT(60), <1>3, <2>1, <2>2, <3>2 DEF Owned
      <4> QED BY ZenonT(60), <1>0, <1>1, <2>1, <3>2, <4>1
    <3> QED BY ZenonT(60), <3>1, <3>2
  <2>3. ASSUME NEW q \in Prober, q # p, probeStep'[q] \in Working(d), name[d][nonce[q]] # <<q, d>>
        PROVE  \E r \in Prober \ {q} : r # p /\ nonce'[r] = nonce'[q] /\ probeStep'[r] \in Removed(d)
    <3>1. PICK r \in Prober \ {q} : nonce[r] = nonce[q] /\ probeStep[r] \in Removed(d)
      BY ZenonT(60), <1>1, <1>3, <2>3 DEF NameTaken
    <3>2. r # p BY Zenon, <2>1, <3>1
    <3> QED BY Zenon, <1>0, <1>1, <3>1, <3>2
  <2>4. ASSUME NEW q \in Prober, q # p, nonce[q] = nonce[p] PROVE name[d][nonce[q]] # <<q, d>>
    <3>1. <<q, d>> \in Inode BY Zenon DEF Inode
    <3> QED BY ZenonT(60), <2>1, <2>4, <3>1 DEF ProbeConstants
  <2>5. ASSUME NEW q \in Prober, probeStep'[q] \in Working(d)
        PROVE  \/ name'[d][nonce'[q]] = <<q, d>>
               \/ \E r \in Prober \ {q} : nonce'[r] = nonce'[q] /\ probeStep'[r] \in Removed(d)
    <3>1. CASE q = p BY Zenon, <1>0, <2>1, <3>1
    <3>2. CASE q # p /\ nonce[q] = nonce[p] BY ZenonT(60), <2>3, <2>4, <2>5, <3>2
    <3>3. CASE q # p /\ nonce[q] # nonce[p]
      <4>1. name'[d][nonce'[q]] = name[d][nonce[q]] BY ZenonT(60), <1>0, <2>1, <3>3
      <4> QED BY Zenon, <2>3, <2>5, <3>3, <4>1
    <3> QED BY ZenonT(60), <3>1, <3>2, <3>3
  <2>6. ASSUME NEW q \in Prober, Paired(q)', probeStep'[q] \in Working(d)
        PROVE  name'[d][nonce'[q]] \in {<<q, d>>, NoInode}
    <3>1. CASE q = p BY ZenonT(60), <1>0, <2>1, <3>1
    <3>2. CASE q # p /\ nonce[q] = nonce[p]
      <4>1. PICK r \in Prober \ {q} : r # p /\ nonce'[r] = nonce'[q]
        BY ZenonT(60), <2>3, <2>4, <2>6, <3>2
      <4>2. Paired(q) BY ZenonT(60), <1>2, <2>6
      <4> QED BY ZenonT(60), <1>0, <3>2, <4>1, <4>2 DEF Paired
    <3>3. CASE q # p /\ nonce[q] # nonce[p]
      <4>1. Paired(q) /\ probeStep[q] \in Working(d) BY ZenonT(60), <1>1, <1>2, <2>6, <3>3
      <4> QED BY ZenonT(60), <1>0, <1>3, <2>1, <3>3, <4>1 DEF Alone
    <3> QED BY Zenon, <3>1, <3>2, <3>3
  <2> QED BY ZenonT(60), <2>2, <2>5, <2>6 DEF Owned, NameTaken, Alone
<1>6. ASSUME NEW d \in Dir, Deleted(p, d)
      PROVE  Owned(d)' /\ NameTaken(d)' /\ Alone(d)'
  <2>1. /\ name'[d][nonce[p]] = NoInode /\ \A n \in Nonce \ {nonce[p]} : name'[d][n] = name[d][n]
        /\ probeStep'[p] \in Removed(d) /\ probeStep'[p] \notin Working(d)
        /\ stuck' = stuck \ {<<d, nonce[p]>>}
    BY ZenonT(60), <1>0, <1>6 DEF Deleted
  <2>2. ASSUME NEW n \in Nonce, name'[d][n] # NoInode, <<d, n>> \notin stuck'
        PROVE  \E q \in Prober : name'[d][n] = <<q, d>> /\ nonce'[q] = n /\ probeStep'[q] \in Holding(d)
    <3>1. n # nonce[p] BY ZenonT(60), <2>1, <2>2
    <3>0. <<d, n>> \notin stuck
      <4>1. <<d, n>> # <<d, nonce[p]>> BY SMTT(60), <3>1
      <4> QED BY Zenon, <2>1, <2>2, <4>1
    <3>2. PICK q \in Prober : name[d][n] = <<q, d>> /\ nonce[q] = n /\ probeStep[q] \in Holding(d)
      BY Zenon, <1>3, <2>1, <2>2, <3>0, <3>1 DEF Owned
    <3> QED BY ZenonT(60), <1>0, <1>1, <2>1, <3>1, <3>2
  <2>3. ASSUME NEW q \in Prober, probeStep'[q] \in Working(d)
        PROVE  \/ name'[d][nonce'[q]] = <<q, d>>
               \/ \E r \in Prober \ {q} : nonce'[r] = nonce'[q] /\ probeStep'[r] \in Removed(d)
    <3>1. q # p /\ probeStep[q] \in Working(d) BY Zenon, <1>1, <2>1, <2>3
    <3>2. CASE nonce[q] = nonce[p] BY Zenon, <1>0, <2>1, <3>1, <3>2
    <3>3. CASE nonce[q] # nonce[p]
      <4>1. CASE name[d][nonce[q]] = <<q, d>> BY ZenonT(60), <1>0, <2>1, <3>3, <4>1
      <4>2. CASE name[d][nonce[q]] # <<q, d>>
        <5>1. PICK r \in Prober \ {q} : nonce[r] = nonce[q] /\ probeStep[r] \in Removed(d)
          BY ZenonT(60), <1>3, <3>1, <4>2 DEF NameTaken
        <5> QED BY Zenon, <1>0, <1>1, <3>3, <5>1
      <4> QED BY Zenon, <4>1, <4>2
    <3> QED BY Zenon, <3>2, <3>3
  <2>4. ASSUME NEW q \in Prober, Paired(q)', probeStep'[q] \in Working(d)
        PROVE  name'[d][nonce'[q]] \in {<<q, d>>, NoInode}
    <3>1. Paired(q) /\ probeStep[q] \in Working(d) BY ZenonT(60), <1>1, <1>2, <2>1, <2>4
    <3> QED BY Zenon, <1>0, <1>3, <2>1, <3>1 DEF Alone
  <2> QED BY Zenon, <2>2, <2>3, <2>4 DEF Owned, NameTaken, Alone
<1>7. ASSUME NEW d \in Dir, Left(p, d)
      PROVE  Owned(d)' /\ NameTaken(d)' /\ Alone(d)'
  <2>1. /\ name' = name /\ stuck' = stuck \cup {<<d, nonce[p]>>}
        /\ probeStep'[p] \in Removed(d) /\ probeStep'[p] \notin Working(d)
    BY ZenonT(60), <1>7 DEF Left
  <2>2. ASSUME NEW n \in Nonce, name'[d][n] # NoInode, <<d, n>> \notin stuck'
        PROVE  \E q \in Prober : name'[d][n] = <<q, d>> /\ nonce'[q] = n /\ probeStep'[q] \in Holding(d)
    <3>1. name[d][n] # NoInode /\ <<d, n>> \notin stuck /\ n # nonce[p]
      BY ZenonT(60), <2>1, <2>2
    <3>2. PICK q \in Prober : name[d][n] = <<q, d>> /\ nonce[q] = n /\ probeStep[q] \in Holding(d)
      BY Zenon, <1>3, <3>1 DEF Owned
    <3> QED BY ZenonT(60), <1>0, <1>1, <2>1, <3>1, <3>2
  <2>3. ASSUME NEW q \in Prober, probeStep'[q] \in Working(d)
        PROVE  \/ name'[d][nonce'[q]] = <<q, d>>
               \/ \E r \in Prober \ {q} : nonce'[r] = nonce'[q] /\ probeStep'[r] \in Removed(d)
    <3>1. q # p /\ probeStep[q] \in Working(d) BY Zenon, <1>1, <2>1, <2>3
    <3>2. CASE name[d][nonce[q]] = <<q, d>> BY ZenonT(60), <1>0, <2>1, <3>2
    <3>3. CASE name[d][nonce[q]] # <<q, d>>
      <4>1. PICK r \in Prober \ {q} : nonce[r] = nonce[q] /\ probeStep[r] \in Removed(d)
        BY ZenonT(60), <1>3, <3>1, <3>3 DEF NameTaken
      <4>2. probeStep'[r] \in Removed(d) BY Zenon, <1>1, <2>1, <4>1
      <4> QED BY Zenon, <1>0, <4>1, <4>2
    <3> QED BY Zenon, <3>2, <3>3
  <2>4. ASSUME NEW q \in Prober, Paired(q)', probeStep'[q] \in Working(d)
        PROVE  name'[d][nonce'[q]] \in {<<q, d>>, NoInode}
    <3>1. Paired(q) /\ probeStep[q] \in Working(d) BY ZenonT(60), <1>1, <1>2, <2>1, <2>4
    <3> QED BY Zenon, <1>0, <1>3, <2>1, <3>1 DEF Alone
  <2> QED BY Zenon, <2>2, <2>3, <2>4 DEF Owned, NameTaken, Alone
<1>8. \A d \in Dir : Created(p, d) \/ Deleted(p, d) \/ Left(p, d) \/ (Kept(p, d) /\ Stays(d))
  <2>1. CASE name' = name /\ stuck' = stuck /\ \A d \in Dir : Kept(p, d)
    BY ZenonT(60), <2>1 DEF Stays
  <2>2. ASSUME NEW d \in Dir, Created(p, d) \/ Deleted(p, d) \/ Left(p, d), \A e \in Dir \ {d} : Kept(p, e) PROVE <1>8
    <3>1. \A e \in Dir \ {d} : name'[e] = name[e]
      BY Zenon, <1>0, <2>2 DEF Created, Deleted, Left
    <3>2. \A e \in Dir \ {d}, n \in Nonce : <<e, n>> # <<d, nonce[p]>> OBVIOUS
    <3>3. stuck' \in {stuck, stuck \ {<<d, nonce[p]>>}, stuck \cup {<<d, nonce[p]>>}}
      BY Zenon, <2>2 DEF Created, Deleted, Left
    <3>4. ASSUME NEW e \in Dir \ {d} PROVE Stays(e)
      <4>1. \A n \in Nonce : <<e, n>> # <<d, nonce[p]>> BY Zenon, <3>2
      <4>2. CASE stuck' = stuck BY Zenon, <3>1, <4>2 DEF Stays
      <4>3. CASE stuck' = stuck \ {<<d, nonce[p]>>} BY Zenon, <3>1, <4>1, <4>3 DEF Stays
      <4>4. CASE stuck' = stuck \cup {<<d, nonce[p]>>} BY Zenon, <3>1, <4>1, <4>4 DEF Stays
      <4> QED BY Zenon, <3>3, <4>2, <4>3, <4>4
    <3> QED BY Zenon, <2>2, <3>4
  <2> QED BY Zenon, <2>1, <2>2, ProbeNaming
<1> QED BY Zenon, <1>4, <1>5, <1>6, <1>7, <1>8

\* The types are kept.
LEMMA ProbeTypeStep ==
  ASSUME ProbeConstants, ProbeIInv, NEW p \in Prober, Step(p)
  PROVE  /\ ProbeTypeOK' /\ nonce' \in [Prober -> Nonce] /\ domain' \in {"isolates", "aliases", "refuses"}
         /\ source' = [q \in Prober |-> source'[q]] /\ target' = [q \in Prober |-> target'[q]]
<1>0. ProbeTypeOK /\ nonce \in [Prober -> Nonce] BY Zenon DEF ProbeIInv
<1>1. name' \in [Dir -> [Nonce -> Inode \cup {NoInode}]]
  <2>1. \A d \in Dir : <<p, d>> \in Inode BY Zenon DEF Inode
  <2>2. name' = name \/ \E d \in Dir, i \in Inode \cup {NoInode} : name' = [name EXCEPT ![d][nonce[p]] = i]
    BY Zenon, <2>1, ProbeNaming DEF Created, Deleted, Left
  <2>3. ASSUME NEW d \in Dir, NEW i \in Inode \cup {NoInode}, name' = [name EXCEPT ![d][nonce[p]] = i]
        PROVE  name' \in [Dir -> [Nonce -> Inode \cup {NoInode}]]
    <3>1. [name[d] EXCEPT ![nonce[p]] = i] \in [Nonce -> Inode \cup {NoInode}]
      BY Zenon, <1>0 DEF ProbeTypeOK
    <3> QED BY ZenonT(60), <1>0, <2>3, <3>1 DEF ProbeTypeOK
  <2> QED BY Zenon, <1>0, <2>2, <2>3 DEF ProbeTypeOK
<1>2. content' \in [Inode -> Bytes]
  <2>1. \A i : Written(i, "source") \in [Inode -> Bytes] /\ Written(i, "changed") \in [Inode -> Bytes]
    BY Zenon, <1>0 DEF Written, ProbeTypeOK, Bytes
  <2>2. CASE Clone(p) /\ content' # content
    <3>1. source[p] = <<p, "cache">>
      BY Zenon, <2>2 DEF Clone, ProbeIInv, Opened, Working,
           Comparing
    <3>2. <<p, "cache">> \in Inode BY Zenon DEF Inode, Dir
    <3> QED BY ZenonT(60), <1>0, <2>2, <3>1, <3>2 DEF Clone, ProbeTypeOK
  <2> QED
    BY ZenonT(60), <1>0, <2>1, <2>2 DEF ProbeTypeOK, Step, BeginProbe,
         CreateSource, CreateTarget, CreateProbeFile, WriteSource,
     ReadTarget, ReadSource, ReadAgain, OpenTarget, WriteTarget, RemoveSource, RemoveTarget, RemoveProbeFile, ProbeReturn, SyncFails, CallFails
<1>3. probeStep' \in [Prober -> ProbeSteps]
  <2>1. \E x \in ProbeSteps : probeStep' = [probeStep EXCEPT ![p] = x]
    BY ZenonT(60) DEF ProbeSteps, Step, ProbeGoto, Errs, BeginProbe,
         CreateSource, CreateTarget, CreateProbeFile, WriteSource, Clone, ReadTarget, ReadSource,
       ReadAgain, OpenTarget, WriteTarget, RemoveSource, RemoveTarget, RemoveProbeFile, ProbeReturn, SyncFails, CallFails
  <2> QED BY Zenon, <1>0, <2>1 DEF ProbeTypeOK
<1>4. result' \in [Prober -> {"none", "isolated", "error"}]
  <2>1. \E x \in {"none", "isolated", "error"} : result' = result \/ result' = [result EXCEPT ![p] = x]
    BY ZenonT(60) DEF Step, Errs, BeginProbe, CreateSource,
         CreateTarget, CreateProbeFile, WriteSource, Clone, ReadTarget, ReadSource,
       ReadAgain, OpenTarget, WriteTarget, RemoveSource, RemoveTarget, RemoveProbeFile, ProbeReturn, SyncFails, CallFails
  <2> QED BY Zenon, <1>0, <2>1 DEF ProbeTypeOK
<1>5. probeFaults' \in 0 .. MaxProbeFaults
  <2>1. probeFaults' = probeFaults \/ (probeFaults < MaxProbeFaults /\ probeFaults' = probeFaults + 1)
    BY ZenonT(60) DEF Step, BeginProbe, CreateSource, CreateTarget,
         CreateProbeFile, WriteSource, Clone, ReadTarget, ReadSource,
       ReadAgain, OpenTarget, WriteTarget, RemoveSource, RemoveTarget, RemoveProbeFile, ProbeReturn, SyncFails, CallFails
  <2> QED BY <1>0, <2>1 DEF ProbeTypeOK, ProbeConstants
<1>6. source' = [q \in Prober |-> source'[q]] /\ target' = [q \in Prober |-> target'[q]]
  <2>1. \E x : source' = source \/ source' = [source EXCEPT ![p] = x]
    BY ZenonT(60) DEF Step, BeginProbe, CreateSource, CreateTarget,
         CreateProbeFile, WriteSource, Clone, ReadTarget, ReadSource,
       ReadAgain, OpenTarget, WriteTarget, RemoveSource, RemoveTarget, RemoveProbeFile, ProbeReturn, SyncFails, CallFails
  <2>2. \E x : target' = target \/ target' = [target EXCEPT ![p] = x]
    BY ZenonT(60) DEF Step, BeginProbe, CreateSource, CreateTarget,
         CreateProbeFile, WriteSource, Clone, ReadTarget, ReadSource,
       ReadAgain, OpenTarget, WriteTarget, RemoveSource, RemoveTarget, RemoveProbeFile, ProbeReturn, SyncFails, CallFails
  <2> QED BY Zenon, <2>1, <2>2 DEF ProbeIInv
<1>7. stuck' \subseteq Dir \X Nonce
  <2>1. \A d \in Dir : <<d, nonce[p]>> \in Dir \X Nonce BY Zenon, <1>0
  <2>2. stuck' = stuck \/ \E d \in Dir : stuck' = stuck \ {<<d, nonce[p]>>} \/ stuck' = stuck \cup {<<d, nonce[p]>>}
    BY Zenon, ProbeNaming DEF Created, Deleted, Left
  <2> QED BY Zenon, <1>0, <2>1, <2>2 DEF ProbeTypeOK
<1>8. ProbeTypeOK' BY Zenon, <1>1, <1>2, <1>3, <1>4, <1>5, <1>7 DEF ProbeTypeOK
<1> QED BY Zenon, <1>6, <1>8, ProbeMoves DEF ProbeIInv

\* The descriptors of a probe are those of its own files, or of the one whose name it
\* opened again.
LEMMA ProbeOpenedStep ==
  ASSUME ProbeConstants, ProbeIInv, NEW p \in Prober, Step(p)
  PROVE  Opened'
<1>0. probeStep \in [Prober -> ProbeSteps] /\ Opened /\ source = [q \in Prober |-> source[q]] /\ target = [q \in Prober |-> target[q]]
  BY Zenon DEF ProbeIInv, ProbeTypeOK
<1>1. \A q \in Prober \ {p} : probeStep'[q] = probeStep[q] /\ source'[q] = source[q] /\ target'[q] = target[q]
  BY ZenonT(60), ProbeMoves
<1>2. \A q \in Prober : Paired(q)' <=> Paired(q) BY Zenon, ProbeMoves
<1>3. probeStep'[p] \in Working("cache") => source'[p] = <<p, "cache">>
  <2>1. CASE CreateSource(p)
    <3>1. CASE Errs(p)
      <4>1. probeStep'[p] = "removeSource" BY Zenon, <1>0, <3>1 DEF Errs, ProbeGoto
      <4> QED BY Zenon, <4>1 DEF Working, Comparing
    <3>2. CASE source' = [source EXCEPT ![p] = <<p, "cache">>] BY Zenon, <1>0, <3>2
    <3> QED BY ZenonT(60), <2>1, <3>1, <3>2 DEF CreateSource, CreateProbeFile
  <2>2. CASE ~CreateSource(p)
    <3>1. source' = source
      BY ZenonT(60), <2>2 DEF Step, BeginProbe, CreateTarget, CreateProbeFile,
           WriteSource, Clone, ReadTarget, ReadSource,
         ReadAgain, OpenTarget, WriteTarget, RemoveSource, RemoveTarget, RemoveProbeFile, ProbeReturn, SyncFails, CallFails
    <3>2. probeStep'[p] \in Working("cache") => probeStep[p] \in Working("cache")
      <4>1. \/ probeStep'[p] \in {"createSource", "removeSource", "removeTarget", "sync", "done"}
            \/ probeStep[p] \in {"writeSource", "createTarget", "clone", "readTarget", "openTarget", "writeTarget", "readSource"}
        BY ZenonT(60), <1>0, <2>2 DEF Step, ProbeGoto, Errs, BeginProbe,
             CreateTarget, CreateProbeFile, WriteSource, Clone, ReadTarget, ReadSource,
           ReadAgain, OpenTarget, WriteTarget, RemoveSource, RemoveTarget, RemoveProbeFile, ProbeReturn, SyncFails, CallFails
      <4> QED BY SMTT(60), <4>1 DEF Working, Comparing
    <3> QED BY ZenonT(60), <1>0, <3>1, <3>2 DEF Opened
  <2> QED BY Zenon, <2>1, <2>2
<1>4. probeStep'[p] = "clone" => target'[p] = <<p, "staging">>
  <2>1. probeStep'[p] = "clone" => CreateTarget(p) /\ ~Errs(p)
    BY ZenonT(60), <1>0 DEF Step, ProbeGoto, Errs, BeginProbe,
         CreateSource, CreateTarget, CreateProbeFile, WriteSource, Clone, ReadTarget, ReadSource,
       ReadAgain, OpenTarget, WriteTarget, RemoveSource, RemoveTarget, RemoveProbeFile, ProbeReturn, SyncFails, CallFails
  <2> QED BY Zenon, <1>0, <2>1 DEF CreateTarget, CreateProbeFile
<1>5. probeStep'[p] = "writeTarget" => target'[p] \in Inode /\ (Paired(p) => target'[p] = <<p, "staging">>)
  <2> SUFFICES ASSUME probeStep'[p] = "writeTarget" PROVE target'[p] \in Inode /\ (Paired(p) => target'[p] = <<p, "staging">>)
    OBVIOUS
  <2>1. OpenTarget(p) /\ ~Errs(p)
    BY ZenonT(60), <1>0 DEF Step, ProbeGoto, Errs, BeginProbe,
         CreateSource, CreateTarget, CreateProbeFile, WriteSource, Clone, ReadTarget, ReadSource,
       ReadAgain, OpenTarget, WriteTarget, RemoveSource, RemoveTarget, RemoveProbeFile, ProbeReturn, SyncFails, CallFails
  <2>2. probeStep[p] = "openTarget" /\ target'[p] = name["staging"][nonce[p]] /\ target'[p] # NoInode
    BY Zenon, <1>0, <2>1 DEF OpenTarget
  <2>3. target'[p] \in Inode BY ZenonT(60), <2>2 DEF ProbeIInv, ProbeTypeOK, Dir
  <2>4. probeStep[p] \in Working("staging") BY Zenon, <2>2 DEF Working, Comparing
  <2>5. Paired(p) => target'[p] = <<p, "staging">>
    BY Zenon, <2>2, <2>4 DEF ProbeIInv, Alone, Dir
  <2> QED BY ZenonT(60), <2>3, <2>5
<1> QED BY Zenon, <1>0, <1>1, <1>2, <1>3, <1>4, <1>5 DEF Opened

\* Every alias is one of a source and its clone, it comes with the clone, and what the
\* probe then writes to the clone is in its source.
LEMMA ProbeAliasedStep ==
  ASSUME ProbeConstants, ProbeIInv, NEW p \in Prober, Step(p)
  PROVE  Aliased'
<1>0. probeStep \in [Prober -> ProbeSteps] /\ Aliased /\ Opened /\ content \in [Inode -> Bytes]
  BY Zenon DEF ProbeIInv, ProbeTypeOK
<1>1. domain' = domain /\ \A q \in Prober \ {p} : probeStep'[q] = probeStep[q]
  BY Zenon, ProbeMoves
<1>2. \A q \in Prober : Paired(q)' <=> Paired(q) BY Zenon, ProbeMoves
<1>3. \A q \in Prober : <<q, "cache">> \in Inode BY Zenon DEF Inode, Dir
<1> DEFINE Pair(q) == {<<q, "cache">>, <<q, "staging">>}
<1>4. /\ shares \subseteq shares' /\ shares' \subseteq shares \cup {Pair(p)}
      /\ probeStep'[p] \in Comparing => probeStep[p] \in Comparing \/ (domain # "refuses" /\ (domain = "aliases" => Pair(p) \in shares'))
  <2>1. CASE Clone(p) /\ domain # "refuses"
    <3>1. source[p] = <<p, "cache">> /\ target[p] = <<p, "staging">>
      BY Zenon, <1>0, <2>1 DEF Clone, Opened, Working
    <3>2. shares' = IF domain = "aliases" THEN shares \cup {Pair(p)} ELSE shares
      BY Zenon, <2>1, <3>1 DEF Clone
    <3> QED BY Zenon, <2>1, <3>2
  <2>2. CASE ~(Clone(p) /\ domain # "refuses")
    <3>1. shares' = shares
      BY ZenonT(60), <2>2 DEF Step, BeginProbe, CreateSource,
           CreateTarget, CreateProbeFile, WriteSource, Clone, ReadTarget, ReadSource,
         ReadAgain, OpenTarget, WriteTarget, RemoveSource, RemoveTarget, RemoveProbeFile, ProbeReturn, SyncFails, CallFails
    <3>2. \/ probeStep'[p] \in {"createSource", "writeSource", "createTarget", "clone", "removeSource", "removeTarget", "sync", "done"}
          \/ probeStep[p] \in {"readTarget", "openTarget", "writeTarget", "readSource"}
      BY ZenonT(60), <1>0, <2>2 DEF Step, ProbeGoto, Errs, BeginProbe,
           CreateSource, CreateTarget, CreateProbeFile, WriteSource, Clone, ReadTarget,
         ReadSource, ReadAgain, OpenTarget, WriteTarget, RemoveSource, RemoveTarget, RemoveProbeFile, ProbeReturn, SyncFails, CallFails
    <3>3. probeStep'[p] \in Comparing => probeStep[p] \in Comparing
      BY <3>2 DEF Comparing
    <3> QED BY Zenon, <3>1, <3>3
  <2> QED BY Zenon, <2>1, <2>2
<1>5. \A s \in shares' : \E q \in Prober : s = Pair(q) BY ZenonT(60), <1>0, <1>4 DEF Aliased
<1>6. ASSUME NEW q \in Prober, probeStep'[q] \in Comparing
      PROVE  domain' # "refuses" /\ (domain' = "aliases" => Pair(q) \in shares')
  <2>1. CASE q = p BY ZenonT(60), <1>0, <1>1, <1>4, <1>6, <2>1 DEF Aliased
  <2>2. CASE q # p BY ZenonT(60), <1>0, <1>1, <1>4, <1>6, <2>2 DEF Aliased
  <2> QED BY Zenon, <2>1, <2>2
<1>7. ASSUME NEW q \in Prober, content[<<q, "cache">>] = "changed", probeStep[q] = "readSource"
      PROVE  content'[<<q, "cache">>] = "changed"
  <2>1. CASE WriteSource(p)
    <3>1. p # q /\ source[p] = <<p, "cache">>
      BY ZenonT(60), <1>0, <1>7, <2>1 DEF WriteSource, Opened, Working
    <3>2. {<<p, "cache">>, <<q, "cache">>} \notin shares
      <4>1. \A r \in Prober : <<r, "staging">> # <<p, "cache">> /\ <<r, "staging">> # <<q, "cache">> OBVIOUS
      <4>2. \A r \in Prober : <<r, "staging">> \in Pair(r) /\ <<r, "staging">> \notin {<<p, "cache">>, <<q, "cache">>}
        BY Zenon, <4>1
      <4> QED BY Zenon, <1>0, <4>2 DEF Aliased
    <3>3. <<q, "cache">> # <<p, "cache">> BY SMTT(60), <3>1
    <3> QED BY Zenon, <1>3, <1>7, <2>1, <3>1, <3>2, <3>3 DEF WriteSource, Written
  <2>2. CASE Clone(p)
    <3>1. target[p] = <<p, "staging">> BY Zenon, <1>0, <2>2 DEF Clone, Opened
    <3>2. <<q, "cache">> # <<p, "staging">> OBVIOUS
    <3> QED BY Zenon, <1>0, <1>3, <1>7, <2>2, <3>1, <3>2 DEF Clone
  <2>3. CASE WriteTarget(p)
    BY ZenonT(60), <1>3, <1>7, <2>3 DEF WriteTarget, Written
  <2> QED
    BY ZenonT(60), <1>7, <2>1, <2>2, <2>3 DEF Step, BeginProbe, CreateSource,
         CreateTarget, CreateProbeFile, ReadTarget, ReadSource,
     ReadAgain, OpenTarget, RemoveSource, RemoveTarget, RemoveProbeFile, ProbeReturn, SyncFails, CallFails
<1>8. ASSUME NEW q \in Prober, Paired(q)', domain' = "aliases", probeStep'[q] = "readSource"
      PROVE  content'[<<q, "cache">>] = "changed"
  <2>1. CASE probeStep[q] = "readSource"
    BY ZenonT(60), <1>0, <1>1, <1>2, <1>7, <1>8, <2>1 DEF Aliased
  <2>2. CASE probeStep[q] # "readSource"
    <3>1. q = p BY ZenonT(60), <1>1, <1>8, <2>2
    <3>2. WriteTarget(p)
      BY ZenonT(60), <1>0, <1>8, <3>1 DEF Step, ProbeGoto, Errs, BeginProbe,
           CreateSource, CreateTarget, CreateProbeFile, WriteSource, Clone, ReadTarget,
         ReadSource, ReadAgain, OpenTarget, WriteTarget, RemoveSource, RemoveTarget, RemoveProbeFile, ProbeReturn, SyncFails, CallFails
    <3>3. target[p] = <<p, "staging">>
      BY Zenon, <1>0, <1>2, <1>8, <3>1, <3>2 DEF WriteTarget, Opened
    <3>4. probeStep[p] \in Comparing BY Zenon, <3>2 DEF WriteTarget, Comparing
    <3>5. {<<p, "staging">>, <<p, "cache">>} \in shares
      <4>1. Pair(p) \in shares BY Zenon, <1>0, <1>1, <1>8, <3>4 DEF Aliased
      <4>2. {<<p, "staging">>, <<p, "cache">>} = Pair(p) BY Zenon
      <4> QED BY Zenon, <4>1, <4>2
    <3> QED BY Zenon, <1>3, <3>1, <3>2, <3>3, <3>5 DEF WriteTarget, Written
  <2> QED BY Zenon, <2>1, <2>2
<1> QED BY Zenon, <1>5, <1>6, <1>8 DEF Aliased

\* The verdict: at its step the source holds what was written to its clone.
LEMMA ProbeVerdictStep ==
  ASSUME ProbeConstants, ProbeIInv, NEW p \in Prober, Step(p)
  PROVE  \A q \in Prober : result'[q] = "isolated" /\ Paired(q)' => domain' = "isolates"
<1>0. /\ result \in [Prober -> {"none", "isolated", "error"}]
      /\ \A q \in Prober : result[q] = "isolated" /\ Paired(q) => domain = "isolates"
  BY Zenon DEF ProbeIInv, ProbeTypeOK
<1>1. domain' = domain /\ \A q \in Prober : (Paired(q)' <=> Paired(q)) /\ (q # p => result'[q] = result[q])
  BY Zenon, ProbeMoves
<1>2. ASSUME result'[p] = "isolated", result[p] # "isolated", Paired(p) PROVE domain = "isolates"
  <2>1. ReadSource(p) /\ ~Errs(p)
    BY ZenonT(60), <1>0, <1>2 DEF Step, Errs, BeginProbe, CreateSource,
         CreateTarget, CreateProbeFile, WriteSource, Clone, ReadTarget,
       ReadSource, ReadAgain, OpenTarget, WriteTarget, RemoveSource, RemoveTarget, RemoveProbeFile, ProbeReturn, SyncFails, CallFails
  <2>2. /\ probeStep[p] = "readSource" /\ name["cache"][nonce[p]] # NoInode
        /\ content[name["cache"][nonce[p]]] = "source"
    BY Zenon, <2>1 DEF ReadSource, ReadAgain
  <2>3. probeStep[p] \in Working("cache") /\ probeStep[p] \in Comparing
    BY Zenon, <2>2 DEF Working, Comparing
  <2>4. name["cache"][nonce[p]] = <<p, "cache">>
    BY Zenon, <1>2, <2>2, <2>3 DEF ProbeIInv, Alone, Dir
  <2>5. domain # "refuses" BY Zenon, <2>3 DEF ProbeIInv, Aliased
  <2>6. domain # "aliases" BY ZenonT(60), <1>2, <2>2, <2>4 DEF ProbeIInv, Aliased
  <2> QED BY ZenonT(60), <2>5, <2>6 DEF ProbeIInv
<1> QED BY Zenon, <1>0, <1>1, <1>2

\* Every step keeps the invariant.
LEMMA ProbeStepHolds ==
  ASSUME ProbeConstants, ProbeIInv, [ProbeNext]_probeVars
  PROVE  ProbeIInv'
<1>1. ASSUME NEW p \in Prober, Step(p) PROVE ProbeIInv'
  BY ZenonT(60), <1>1, ProbeTypeStep, ProbeNamesStep, ProbeOpenedStep, ProbeAliasedStep,
       ProbeVerdictStep DEF ProbeIInv
<1>2. CASE UNCHANGED probeVars
  <2>1. UNCHANGED <<domain, stuck, name, content, shares, probeStep, nonce, source, target, result, probeFaults>>
    BY Zenon, <1>2 DEF probeVars
  <2>2. ProbeTypeOK' BY Zenon, <2>1 DEF ProbeIInv, ProbeTypeOK
  <2>3. \A d \in Dir : Owned(d)' /\ NameTaken(d)' /\ Alone(d)'
    BY ZenonT(60), <2>1 DEF ProbeIInv, Owned, NameTaken, Alone, Paired
  <2>4. Opened' BY Zenon, <2>1 DEF ProbeIInv, Opened, Paired
  <2>5. Aliased' BY Zenon, <2>1 DEF ProbeIInv, Aliased, Paired
  <2>6. \A p \in Prober : result'[p] = "isolated" /\ Paired(p)' => domain' = "isolates"
    BY Zenon, <2>1 DEF ProbeIInv, Paired
  <2> QED BY Zenon, <2>1, <2>2, <2>3, <2>4, <2>5, <2>6 DEF ProbeIInv
<1> QED BY Zenon, <1>1, <1>2 DEF ProbeNext

\* Before the first probe.
LEMMA ProbeInitHolds ==
  ASSUME ProbeConstants, ProbeInit
  PROVE  ProbeIInv
<1>1. ProbeTypeOK
  <2>1. 0 \in 0 .. MaxProbeFaults BY DEF ProbeConstants
  <2> QED BY Zenon, <2>1 DEF ProbeInit, ProbeTypeOK, Bytes, ProbeSteps
<1>2. \A p \in Prober : probeStep[p] = "start" /\ result[p] = "none" BY Zenon DEF ProbeInit
<1>3. \A d \in Dir : "start" \notin Working(d) /\ "start" \notin Comparing
  BY DEF Working, Comparing
<1>4. \A d \in Dir : Owned(d) /\ NameTaken(d) /\ Alone(d)
  BY Zenon, <1>2, <1>3 DEF ProbeInit, Owned, NameTaken, Alone
<1>5. Opened BY Zenon, <1>2, <1>3 DEF Opened, Dir
<1>6. Aliased BY Zenon, <1>2, <1>3 DEF ProbeInit, Aliased, Dir
<1> QED BY Zenon, <1>1, <1>2, <1>4, <1>5, <1>6 DEF ProbeInit, ProbeIInv

\* The invariant holds in every reachable state.
LEMMA ProbeInvariance == ASSUME ProbeConstants PROVE ProbeSpec => []ProbeIInv
BY ProbeInitHolds, ProbeStepHolds, PTL DEF ProbeSpec

\* A probe that one other of the same time disturbs at most reports isolation only on a
\* filesystem that isolates clones (probe_clone_domain).
THEOREM IsolationReported ==
  ASSUME ProbeConstants
  PROVE  ProbeSpec => []ProbeSound
<1>1. ProbeIInv => ProbeSound BY Zenon DEF ProbeIInv, ProbeSound
<1> QED BY <1>1, ProbeInvariance, PTL

\* Probes that have returned leave no file behind but under a name whose last removal
\* failed (probe_clone_domain's cleanup, which drops that error).
THEOREM ProbesLeaveNothing ==
  ASSUME ProbeConstants
  PROVE  ProbeSpec => []ProbesClean
<1>1. ProbeIInv => ProbesClean
  <2>1. \A d \in Dir : "done" \notin Holding(d)
    BY DEF Holding, Working, Comparing
  <2>2. ProbeIInv => \A d \in Dir : Owned(d) BY Zenon DEF ProbeIInv
  <2> SUFFICES ASSUME ProbeIInv, \A p \in Prober : probeStep[p] = "done", NEW d \in Dir, NEW n \in Nonce, name[d][n] # NoInode PROVE <<d, n>> \in stuck
    BY Zenon DEF ProbesClean
  <2>3. Owned(d) BY Zenon, <2>2
  <2> QED BY Zenon, <2>1, <2>3 DEF Owned
<1> QED BY <1>1, ProbeInvariance, PTL

\* What a probe reports is so, and nothing of it stays but what could not be removed, for any number of probers,
\* any nonces and any faults (probe_clone_domain).
THEOREM ProbesAreSound == ProbeSpec => []ProbesSound
<1>1. ProbeIInv => ProbeTypeOK BY Zenon DEF ProbeIInv
<1>2. ProbeSpec => []ProbeIInv BY Zenon, ProbeAssumption, ProbeInvariance
<1>3. ProbeSpec => []ProbeSound BY Zenon, ProbeAssumption, IsolationReported
<1>4. ProbeSpec => []ProbesClean BY Zenon, ProbeAssumption, ProbesLeaveNothing
<1> QED BY <1>1, <1>2, <1>3, <1>4, PTL DEF ProbesSound
=============================================================================
