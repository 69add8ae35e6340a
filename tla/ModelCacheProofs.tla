--------------------------- MODULE ModelCacheProofs ---------------------------
(***************************************************************************)
(* Proofs about ModelCache.  The inductive invariant Inv is proved in three *)
(* layers, each used by the next:                                          *)
(*   - TypeInv: the types, and that a working task knows its model;        *)
(*   - HolderInv: who holds reservations and leases, and that a reserved   *)
(*     model is not in memory before its load inserts it;                  *)
(*   - CapacityInv: the two limits, and what an unnotified count can miss. *)
(* For the third layer every step is quiet (it adds nothing to what is     *)
(* claimed) or one of the three claiming steps: a local reservation, a     *)
(* global reservation, an insertion.                                       *)
(***************************************************************************)
EXTENDS ModelCache, FiniteSetTheorems, TLAPS

\* Types, and the targets of the tasks that are under way.
TypeInv == TypeOK /\ TargetsKnown

\* Retiring a batch keeps the types and moves models from `loaded` to
\* `retiring`, so what is in memory stays the same.
LEMMA RetireEffect ==
    ASSUME TypeOK, NEW S \in SUBSET loaded, RetireAndDestroy(S)
    PROVE  /\ loaded' = loaded \ S
           /\ destroying' \subseteq (SUBSET Models) \ {{}}
           /\ older' \subseteq Models \X Models
           /\ Resident' = Resident
  <1>1. CASE S = {}
    BY <1>1 DEF RetireAndDestroy, TypeOK, Resident, Retiring
  <1>2. CASE S # {}
    BY <1>2 DEF RetireAndDestroy, TypeOK, Resident, Retiring
  <1> QED BY <1>1, <1>2

\* The keys of an unload_many are models.
LEMMA KeysType ==
    ASSUME TypeOK, NEW t \in Tasks
    PROVE  Keys(t) \subseteq Models
  <1>1. <<>> \in Seq(Models)
    OBVIOUS
  <1>2. group[t] \in Groups \cup {<<>>}
    BY DEF TypeOK
  <1>3. group[t] \in Seq(Models)
    BY <1>1, <1>2, ModelsAssumption
  <1> QED BY <1>3 DEF Keys

\* The steps of a load keep the types.
LEMMA TypeLoadStep ==
    ASSUME TypeInv, NEW t \in Requests, LoadStep(t)
    PROVE  TypeInv'
  <1> USE TasksAssumption, ModelsAssumption
      DEF TypeInv, TypeOK, TargetsKnown, Searching, Reserving, Admitted, Tasks,
          Labels, At, Goto, Finish,
          Notify, Subscribe, Unsubscribe, LockModel, UnlockModel, TouchIn,
          Await, ReleaseAndWait, cacheVars, loadVars,
          limiterVars, opVars, scanVars
  <1>1. CASE CleanupIdle(t)
    BY <1>1, RetireEffect DEF CleanupIdle, ExpiredSets, Evictable, OfCache
  <1>2. CASE LockAndSubscribe(t)
    BY <1>2 DEF LockAndSubscribe
  <1>3. CASE GetLoadedHit(t)
    BY <1>3 DEF GetLoadedHit, Hit, Fenced
  <1>4. CASE CheckHit(t)
    BY <1>4 DEF CheckHit, Hit, Fenced
  <1>5. CASE GetLoadedFenced(t)
    BY <1>5 DEF GetLoadedFenced
  <1>6. CASE GetLoadedMiss(t)
    BY <1>6 DEF GetLoadedMiss
  <1>7. CASE BeginColdTask(t)
    BY <1>7 DEF BeginColdTask
  <1>8. CASE CheckBusy(t)
    BY <1>8 DEF CheckBusy
  <1>9. CASE CheckFull(t)
    BY <1>9 DEF CheckFull
  <1>10. CASE CheckEvict(t)
    BY <1>10, RetireEffect DEF CheckEvict, LruVictims, LeastRecent, Evictable,
       OfCache
  <1>11. CASE CheckReserve(t)
    BY <1>11 DEF CheckReserve
  <1>12. CASE ReserveSubscribe(t)
    BY <1>12 DEF ReserveSubscribe
  <1>13. CASE CountCache(t)
    BY <1>13 DEF CountCache, OfCache, Resident, Retiring
  <1>14. CASE Decide(t)
    BY <1>14 DEF Decide
  <1>15. CASE PickLru(t)
    BY <1>15 DEF PickLru, LeastRecent, Evictable, OfCache
  <1>16. CASE EvictTracked(t)
    <2>1. CASE StillEvictable(victim[t])
      <3>1. {victim[t]} \in SUBSET loaded
        BY <2>1 DEF StillEvictable
      <3> QED BY <1>16, <2>1, <3>1, RetireEffect DEF EvictTracked
    <2>2. CASE ~StillEvictable(victim[t])
      BY <1>16, <2>2 DEF EvictTracked
    <2> QED BY <2>1, <2>2
  <1>17. CASE LockForLoad(t)
    BY <1>17 DEF LockForLoad
  <1>18. CASE ProvisionOk(t)
    BY <1>18 DEF ProvisionOk, Provisioned
  <1>19. CASE ProvisionFails(t)
    BY <1>19 DEF ProvisionFails, FailLoad
  <1>20. CASE LoadFails(t)
    BY <1>20 DEF LoadFails, FailLoad
  <1>21. CASE LoadPanics(t)
    BY <1>21 DEF LoadPanics
  <1>22. CASE InsertLoaded(t)
    BY <1>22 DEF InsertLoaded, ClearFailure
  <1>23. CASE Publish(t)
    BY <1>23 DEF Publish
  <1>24. CASE DropReservation(t)
    BY <1>24 DEF DropReservation
  <1>25. CASE DropLocalReservation(t)
    BY <1>25 DEF DropLocalReservation
  <1>26. CASE EndColdTask(t)
    <2>1. CASE lease[t] = NoModel
      BY <1>26, <2>1 DEF EndColdTask
    <2>2. CASE lease[t] # NoModel
      <3>1. lease[t] \in Models
        BY <2>2
      <3> QED BY <1>26, <2>2, <3>1 DEF EndColdTask
    <2> QED BY <2>1, <2>2
  <1>27. CASE ReleaseLease(t)
    BY <1>27 DEF ReleaseLease
  <1>28. CASE EnsureProvisioned(t)
    BY <1>28 DEF EnsureProvisioned, Provisioned
  <1> QED
    BY <1>1, <1>2, <1>3, <1>4, <1>5, <1>6, <1>7, <1>8, <1>9, <1>10, <1>11, <1>12,
       <1>13, <1>14, <1>15, <1>16, <1>17, <1>18, <1>19, <1>20, <1>21, <1>22,
       <1>23, <1>24, <1>25, <1>26, <1>27, <1>28 DEF LoadStep

\* The steps of unload_many keep the types.
LEMMA TypeManyStep ==
    ASSUME TypeInv, NEW t \in Requests, ManyStep(t)
    PROVE  TypeInv'
  <1> USE TasksAssumption, ModelsAssumption
      DEF TypeInv, TypeOK, TargetsKnown, Searching, Reserving, Admitted, Tasks,
          Labels, At, Goto, Finish,
          Notify, Subscribe, Unsubscribe, LockModel, UnlockModel, TouchIn,
          Await, ReleaseAndWait, cacheVars, loadVars,
          limiterVars, opVars, scanVars
  <1>1. CASE ManySubscribe(t)
    BY <1>1 DEF ManySubscribe
  <1>2. CASE ManyLock(t)
    BY <1>2 DEF ManyLock
  <1>3. CASE ManyFence(t)
    BY <1>3, KeysType DEF ManyFence
  <1>4. CASE DrainSubscribe(t)
    BY <1>4 DEF DrainSubscribe
  <1>5. CASE DrainCheck(t)
    BY <1>5, RetireEffect DEF DrainCheck
  <1> QED
    BY <1>1, <1>2, <1>3, <1>4, <1>5 DEF ManyStep

\* The steps of unload keep the types.
LEMMA TypeUnloadStep ==
    ASSUME TypeInv, NEW t \in Tasks, UnloadStep(t)
    PROVE  TypeInv'
  <1> USE TasksAssumption, ModelsAssumption
      DEF TypeInv, TypeOK, TargetsKnown, Searching, Reserving, Admitted, Tasks,
          Labels, At, Goto, Finish,
          Notify, Subscribe, Unsubscribe, LockModel, UnlockModel, TouchIn,
          Await, ReleaseAndWait, cacheVars, loadVars,
          limiterVars, opVars, scanVars
  <1>1. CASE UnloadSubscribe(t)
    BY <1>1 DEF UnloadSubscribe
  <1>2. CASE UnloadWaits(t)
    BY <1>2 DEF UnloadWaits, UnloadTurn
  <1>3. CASE UnloadAbsent(t)
    <2>1. CASE t = Shut
      BY <1>3, <2>1 DEF UnloadAbsent, UnloadTurn, EndUnload
    <2>2. CASE t # Shut
      BY <1>3, <2>2 DEF UnloadAbsent, UnloadTurn, EndUnload
    <2> QED BY <2>1, <2>2
  <1>4. CASE UnloadFences(t)
    BY <1>4 DEF UnloadFences, UnloadTurn
  <1>5. CASE UnloadRetires(t)
    <2>1. {target[t]} \in SUBSET loaded
      BY <1>5 DEF UnloadRetires
    <2> QED BY <1>5, <2>1, RetireEffect DEF UnloadRetires, UnloadTurn, EndUnload
  <1> QED
    BY <1>1, <1>2, <1>3, <1>4, <1>5 DEF UnloadStep

\* Every step keeps the types.
LEMMA TypeStep == TypeInv /\ [Next]_vars => TypeInv'
  <1> SUFFICES ASSUME TypeInv, [Next]_vars PROVE TypeInv'
    OBVIOUS
  <1> USE TasksAssumption, ModelsAssumption
      DEF TypeInv, TypeOK, TargetsKnown, Searching, Reserving, Admitted, Tasks,
          Labels, At, Goto, Finish, Notify, Subscribe, Unsubscribe, LockModel,
          UnlockModel, TouchIn, Await, ReleaseAndWait, cacheVars, loadVars,
          limiterVars, opVars, scanVars
  <1>1. ASSUME NEW t \in Requests, Start(t) PROVE TypeInv'
    <2>1. ASSUME NEW m \in Models, StartLoad(t, m) PROVE TypeInv'
      BY <2>1 DEF StartLoad
    <2>2. ASSUME NEW m \in Models, StartEnsure(t, m) PROVE TypeInv'
      BY <2>2 DEF StartEnsure
    <2>3. ASSUME NEW m \in Models, StartUnload(t, m) PROVE TypeInv'
      BY <2>3 DEF StartUnload
    <2>4. ASSUME NEW g \in Groups, StartUnloadMany(t, g) PROVE TypeInv'
      BY <2>4 DEF StartUnloadMany
    <2> QED BY <1>1, <2>1, <2>2, <2>3, <2>4 DEF Start
  <1>2. ASSUME NEW t \in Requests, Cancel(t) PROVE TypeInv'
    BY <1>2 DEF Cancel
  <1>3. ASSUME NEW t \in Tasks, Changed(t) PROVE TypeInv'
    BY <1>3 DEF Changed, Waits, AfterWait
  <1>4. CASE Close
    BY <1>4 DEF Close
  <1>5. CASE Drained
    BY <1>5 DEF Drained
  <1>6. CASE UnloadNext
    BY <1>6 DEF UnloadNext
  <1>7. ASSUME NEW S \in destroying, NEW panicked \in BOOLEAN, Destroyed(S, panicked)
        PROVE  TypeInv'
    BY <1>7 DEF Destroyed
  <1>8. ASSUME NEW c \in Caches, BackgroundCleanup(c) PROVE TypeInv'
    BY <1>8, RetireEffect DEF BackgroundCleanup, ExpiredSets, Evictable, OfCache
  <1>9. CASE UNCHANGED vars
    BY <1>9 DEF vars
  <1>10. ASSUME NEW t \in Requests, RequestStep(t) PROVE TypeInv'
    BY <1>10, <1>3, TypeLoadStep, TypeManyStep, TypeUnloadStep DEF RequestStep
  <1>11. CASE ShutdownStep
    BY <1>11, <1>3, <1>5, <1>6, TypeUnloadStep DEF ShutdownStep
  <1> QED
    BY <1>1, <1>2, <1>4, <1>7, <1>8, <1>9, <1>10, <1>11 DEF Next, DestructionStep

\* The initial state is well typed.
LEMMA TypeInit == Init => TypeInv
  <1> SUFFICES ASSUME Init PROVE TypeInv
    OBVIOUS
  <1> USE TasksAssumption, ModelsAssumption DEF Init, Tasks
  <1>1. TypeOK
    BY DEF TypeOK, Labels
  <1>2. TargetsKnown
    BY DEF TargetsKnown, Searching, Reserving, Admitted
  <1> QED BY <1>1, <1>2 DEF TypeInv

\* The caches, the limiter and the tasks stay well typed; destroy_retired never
\* starts a destructor task for an empty batch.
THEOREM TypeCorrect == Spec => []TypeOK
  <1>1. TypeInv => TypeOK
    BY DEF TypeInv
  <1> QED
    BY <1>1, TypeInit, TypeStep, PTL DEF Spec

\* Who holds what.
HolderInv == ReservationsHeld /\ TargetsAbsent /\ LeasesHeld

\* The steps of a load keep reservations, targets and leases consistent.
LEMMA HolderLoadStep ==
    ASSUME TypeInv, HolderInv, NEW t \in Requests, LoadStep(t)
    PROVE  HolderInv'
  <1> USE TasksAssumption, ModelsAssumption
      DEF TypeInv, TypeOK, TargetsKnown, HolderInv, ReservationsHeld, TargetsAbsent,
          LeasesHeld, Searching, Reserving, Admitted, Unloaded, Leasing, Tasks,
          Labels,
          At, Goto, Finish, Notify, Subscribe, Unsubscribe, LockModel, UnlockModel,
          TouchIn, Await, ReleaseAndWait, cacheVars, loadVars, limiterVars, opVars,
          scanVars
  <1>1. CASE CleanupIdle(t)
    BY <1>1, RetireEffect DEF CleanupIdle, ExpiredSets, Evictable, OfCache,
       is_active
  <1>2. CASE LockAndSubscribe(t)
    BY <1>2 DEF LockAndSubscribe, Resident, Retiring
  <1>3. CASE GetLoadedHit(t)
    BY <1>3 DEF GetLoadedHit, Resident, Retiring, Hit, Fenced
  <1>4. CASE CheckHit(t)
    BY <1>4 DEF CheckHit, Resident, Retiring, Hit, Fenced
  <1>5. CASE GetLoadedFenced(t)
    BY <1>5 DEF GetLoadedFenced, Resident, Retiring
  <1>6. CASE GetLoadedMiss(t)
    BY <1>6 DEF GetLoadedMiss, Resident, Retiring
  <1>7. CASE BeginColdTask(t)
    BY <1>7 DEF BeginColdTask, Resident, Retiring
  <1>8. CASE CheckBusy(t)
    BY <1>8 DEF CheckBusy, Resident, Retiring
  <1>9. CASE CheckFull(t)
    BY <1>9 DEF CheckFull, Resident, Retiring
  <1>10. CASE CheckEvict(t)
    BY <1>10, RetireEffect DEF CheckEvict, LruVictims, LeastRecent, Evictable,
       OfCache, is_active
  <1>11. CASE CheckReserve(t)
    BY <1>11 DEF CheckReserve, Resident, Retiring, Absent, Fenced
  <1>12. CASE ReserveSubscribe(t)
    BY <1>12 DEF ReserveSubscribe, Resident, Retiring
  <1>13. CASE CountCache(t)
    BY <1>13 DEF CountCache, Resident, Retiring, OfCache
  <1>14. CASE Decide(t)
    BY <1>14 DEF Decide, Resident, Retiring
  <1>15. CASE PickLru(t)
    BY <1>15 DEF PickLru, Resident, Retiring
  <1>16. CASE EvictTracked(t)
    <2>1. CASE StillEvictable(victim[t])
      <3>1. {victim[t]} \in SUBSET loaded
        BY <2>1 DEF StillEvictable
      <3> QED BY <1>16, <2>1, <3>1, RetireEffect DEF EvictTracked,
                 StillEvictable, is_active
    <2>2. CASE ~StillEvictable(victim[t])
      BY <1>16, <2>2 DEF EvictTracked, Resident, Retiring
    <2> QED BY <2>1, <2>2
  <1>17. CASE LockForLoad(t)
    BY <1>17 DEF LockForLoad, Resident, Retiring
  <1>18. CASE ProvisionOk(t)
    BY <1>18 DEF ProvisionOk, Resident, Retiring
  <1>19. CASE ProvisionFails(t)
    BY <1>19 DEF ProvisionFails, Resident, Retiring, FailLoad
  <1>20. CASE LoadFails(t)
    BY <1>20 DEF LoadFails, Resident, Retiring, FailLoad
  <1>21. CASE LoadPanics(t)
    BY <1>21 DEF LoadPanics, Resident, Retiring
  <1>22. CASE InsertLoaded(t)
    BY <1>22 DEF InsertLoaded, Resident, Retiring, ClearFailure
  <1>23. CASE Publish(t)
    BY <1>23 DEF Publish, Resident, Retiring
  <1>24. CASE DropReservation(t)
    BY <1>24 DEF DropReservation, Resident, Retiring
  <1>25. CASE DropLocalReservation(t)
    BY <1>25 DEF DropLocalReservation, Resident, Retiring
  <1>26. CASE EndColdTask(t)
    BY <1>26 DEF EndColdTask, Resident, Retiring
  <1>27. CASE ReleaseLease(t)
    BY <1>27 DEF ReleaseLease, Resident, Retiring
  <1>28. CASE EnsureProvisioned(t)
    BY <1>28 DEF EnsureProvisioned, Resident, Retiring
  <1> QED
    BY <1>1, <1>2, <1>3, <1>4, <1>5, <1>6, <1>7, <1>8, <1>9, <1>10, <1>11, <1>12,
       <1>13, <1>14, <1>15, <1>16, <1>17, <1>18, <1>19, <1>20, <1>21, <1>22,
       <1>23, <1>24, <1>25, <1>26, <1>27, <1>28 DEF LoadStep

\* The steps of unload_many retire no leased model.
LEMMA HolderManyStep ==
    ASSUME TypeInv, HolderInv, NEW t \in Requests, ManyStep(t)
    PROVE  HolderInv'
  <1> USE TasksAssumption, ModelsAssumption
      DEF TypeInv, TypeOK, TargetsKnown, HolderInv, ReservationsHeld, TargetsAbsent,
          LeasesHeld, Searching, Reserving, Admitted, Unloaded, Leasing, Tasks,
          Labels,
          At, Goto, Finish, Notify, Subscribe, Unsubscribe, LockModel, UnlockModel,
          TouchIn, Await, ReleaseAndWait, cacheVars, loadVars, limiterVars, opVars,
          scanVars
  <1>1. CASE ManySubscribe(t)
    BY <1>1 DEF ManySubscribe, Resident, Retiring
  <1>2. CASE ManyLock(t)
    BY <1>2 DEF ManyLock, Resident, Retiring
  <1>3. CASE ManyFence(t)
    BY <1>3 DEF ManyFence, Resident, Retiring
  <1>4. CASE DrainSubscribe(t)
    BY <1>4 DEF DrainSubscribe, Resident, Retiring
  <1>5. CASE DrainCheck(t)
    <2>1. CASE \A m \in Keys(t) \cap loaded : ~is_active(m)
      <3>1. /\ Resident' = Resident
            /\ loaded' = loaded \ (Keys(t) \cap loaded)
        BY <1>5, <2>1, RetireEffect DEF DrainCheck
      <3> QED BY <1>5, <2>1, <3>1 DEF DrainCheck, is_active
    <2>2. CASE ~ \A m \in Keys(t) \cap loaded : ~is_active(m)
      BY <1>5, <2>2 DEF DrainCheck, Resident, Retiring
    <2> QED BY <2>1, <2>2
  <1> QED
    BY <1>1, <1>2, <1>3, <1>4, <1>5 DEF ManyStep

\* The steps of unload retire no leased model.
LEMMA HolderUnloadStep ==
    ASSUME TypeInv, HolderInv, NEW t \in Tasks, UnloadStep(t)
    PROVE  HolderInv'
  <1> USE TasksAssumption, ModelsAssumption
      DEF TypeInv, TypeOK, TargetsKnown, HolderInv, ReservationsHeld, TargetsAbsent,
          LeasesHeld, Searching, Reserving, Admitted, Unloaded, Leasing, Tasks,
          Labels,
          At, Goto, Finish, Notify, Subscribe, Unsubscribe, LockModel, UnlockModel,
          TouchIn, Await, ReleaseAndWait, cacheVars, loadVars, limiterVars, opVars,
          scanVars
  <1>1. CASE UnloadSubscribe(t)
    BY <1>1 DEF UnloadSubscribe, Resident, Retiring
  <1>2. CASE UnloadWaits(t)
    BY <1>2 DEF UnloadWaits, Resident, Retiring, UnloadTurn
  <1>3. CASE UnloadAbsent(t)
    BY <1>3 DEF UnloadAbsent, Resident, Retiring, UnloadTurn, EndUnload
  <1>4. CASE UnloadFences(t)
    BY <1>4 DEF UnloadFences, Resident, Retiring, UnloadTurn
  <1>5. CASE UnloadRetires(t)
    BY <1>5, RetireEffect DEF UnloadRetires, is_active, UnloadTurn, EndUnload
  <1> QED
    BY <1>1, <1>2, <1>3, <1>4, <1>5 DEF UnloadStep

\* Every step keeps reservations, targets and leases consistent.
LEMMA HolderStep == TypeInv /\ HolderInv /\ [Next]_vars => HolderInv'
  <1> SUFFICES ASSUME TypeInv, HolderInv, [Next]_vars PROVE HolderInv'
    OBVIOUS
  <1> USE TasksAssumption, ModelsAssumption
      DEF TypeInv, TypeOK, TargetsKnown, HolderInv, ReservationsHeld, TargetsAbsent,
          LeasesHeld, Searching, Reserving, Admitted, Unloaded, Leasing, Tasks,
          Labels,
          At, Goto, Finish, Notify, Unsubscribe, Await, cacheVars, loadVars,
          limiterVars, opVars, scanVars
  <1>1. ASSUME NEW t \in Requests, Start(t) PROVE HolderInv'
    <2>1. ASSUME NEW m \in Models, StartLoad(t, m) PROVE HolderInv'
      BY <2>1 DEF StartLoad, Resident, Retiring
    <2>2. ASSUME NEW m \in Models, StartEnsure(t, m) PROVE HolderInv'
      BY <2>2 DEF StartEnsure, Resident, Retiring
    <2>3. ASSUME NEW m \in Models, StartUnload(t, m) PROVE HolderInv'
      BY <2>3 DEF StartUnload, Resident, Retiring
    <2>4. ASSUME NEW g \in Groups, StartUnloadMany(t, g) PROVE HolderInv'
      BY <2>4 DEF StartUnloadMany, Resident, Retiring
    <2> QED BY <1>1, <2>1, <2>2, <2>3, <2>4 DEF Start
  <1>2. ASSUME NEW t \in Requests, Cancel(t) PROVE HolderInv'
    BY <1>2 DEF Cancel, Resident, Retiring
  <1>3. ASSUME NEW t \in Tasks, Changed(t) PROVE HolderInv'
    BY <1>3 DEF Changed, Waits, AfterWait, Resident, Retiring
  <1>4. CASE Close
    BY <1>4 DEF Close, Resident, Retiring
  <1>5. CASE Drained
    BY <1>5 DEF Drained, Resident, Retiring
  <1>6. CASE UnloadNext
    BY <1>6 DEF UnloadNext, Resident, Retiring
  <1>7. ASSUME NEW S \in destroying, NEW panicked \in BOOLEAN, Destroyed(S, panicked)
        PROVE  HolderInv'
    BY <1>7 DEF Destroyed, Resident, Retiring
  <1>8. ASSUME NEW c \in Caches, BackgroundCleanup(c) PROVE HolderInv'
    BY <1>8, RetireEffect
       DEF BackgroundCleanup, ExpiredSets, Evictable, OfCache, is_active
  <1>9. CASE UNCHANGED vars
    BY <1>9 DEF vars, Resident, Retiring
  <1>10. ASSUME NEW t \in Requests, RequestStep(t) PROVE HolderInv'
    BY <1>10, <1>3, HolderLoadStep, HolderManyStep, HolderUnloadStep DEF RequestStep
  <1>11. CASE ShutdownStep
    BY <1>11, <1>3, <1>5, <1>6, HolderUnloadStep DEF ShutdownStep
  <1> QED
    BY <1>1, <1>2, <1>4, <1>7, <1>8, <1>9, <1>10, <1>11 DEF Next, DestructionStep

\* A step that adds nothing to what is claimed and keeps the counts valid.
QuietStep ==
    /\ Resident' \subseteq Resident
    /\ pending' \subseteq pending
    /\ reservations' \subseteq reservations
    /\ \A t \in reservations' : target'[t] = target[t]
    /\ CountsValid'

\* A step is quiet in which one task neither counts nor publishes and nobody
\* else moves, while what is in memory and what is counted stay.
LEMMA StandingStep ==
    ASSUME TypeInv, HolderInv, CountsValid, NEW t \in Tasks,
           Resident' = Resident, UNCHANGED <<pending, reservations, todo, seen>>,
           fresh' \subseteq fresh,
           \A u \in Tasks \ {t} : pc'[u] = pc[u] /\ target'[u] = target[u],
           pc[t] \notin Admitted, pc'[t] \notin {"count", "publish"}
    PROVE  QuietStep
  <1>1. \A u \in reservations' : target'[u] = target[u]
    BY DEF HolderInv, ReservationsHeld
  <1>2. CountsValid'
    BY DEF CountsValid, Admitted
  <1> QED BY <1>1, <1>2 DEF QuietStep

\* The steps that claim memory: locally, globally, and the insertion itself.
ClaimingStep(t) == CheckReserve(t) \/ Decide(t) \/ InsertLoaded(t)

\* A step of a load that is not a claiming step is quiet.
LEMMA QuietLoadStep ==
    ASSUME TypeInv, HolderInv, CountsValid, NEW t \in Requests, LoadStep(t), ~ClaimingStep(t)
    PROVE  QuietStep
  <1> USE TasksAssumption, ModelsAssumption
      DEF TypeInv, TypeOK, TargetsKnown, HolderInv, ReservationsHeld, QuietStep,
          CountsValid, Searching, Reserving, Admitted, Tasks, Labels, At, Goto,
          Finish,
          Notify, Subscribe, Unsubscribe, LockModel, UnlockModel, TouchIn, Await,
          ReleaseAndWait, cacheVars, loadVars, limiterVars, opVars, scanVars
  <1>1. CASE CleanupIdle(t)
    BY <1>1, RetireEffect DEF CleanupIdle, ExpiredSets, Evictable, OfCache,
       is_active
  <1>2. CASE LockAndSubscribe(t)
    BY <1>2 DEF LockAndSubscribe, Resident, Retiring
  <1>3. CASE GetLoadedHit(t)
    BY <1>3 DEF GetLoadedHit, Resident, Retiring, Hit, Fenced
  <1>4. CASE CheckHit(t)
    BY <1>4 DEF CheckHit, Resident, Retiring, Hit, Fenced
  <1>5. CASE GetLoadedFenced(t)
    BY <1>5 DEF GetLoadedFenced, Resident, Retiring
  <1>6. CASE GetLoadedMiss(t)
    BY <1>6 DEF GetLoadedMiss, Resident, Retiring
  <1>7. CASE BeginColdTask(t)
    BY <1>7 DEF BeginColdTask, Resident, Retiring
  <1>8. CASE CheckBusy(t)
    BY <1>8 DEF CheckBusy, Resident, Retiring
  <1>9. CASE CheckFull(t)
    BY <1>9 DEF CheckFull, Resident, Retiring
  <1>10. CASE CheckEvict(t)
    BY <1>10, RetireEffect DEF CheckEvict, LruVictims, LeastRecent, Evictable,
       OfCache, is_active
  <1>11. CASE ReserveSubscribe(t)
    BY <1>11 DEF ReserveSubscribe, Resident, Retiring
  <1>12. CASE CountCache(t)
    BY <1>12 DEF CountCache, Resident, Retiring, OfCache
  <1>13. CASE PickLru(t)
    BY <1>13 DEF PickLru, Resident, Retiring
  <1>14. CASE EvictTracked(t)
    <2>1. CASE StillEvictable(victim[t])
      <3>1. {victim[t]} \in SUBSET loaded
        BY <2>1 DEF StillEvictable
      <3> QED BY <1>14, <2>1, <3>1, RetireEffect DEF EvictTracked
    <2>2. CASE ~StillEvictable(victim[t])
      BY <1>14, <2>2 DEF EvictTracked, Resident, Retiring
    <2> QED BY <2>1, <2>2
  <1>15. CASE LockForLoad(t)
    BY <1>15 DEF LockForLoad, Resident, Retiring
  <1>16. CASE ProvisionOk(t)
    BY <1>16 DEF ProvisionOk, Resident, Retiring
  <1>17. CASE ProvisionFails(t)
    BY <1>17 DEF ProvisionFails, Resident, Retiring, FailLoad
  <1>18. CASE LoadFails(t)
    BY <1>18 DEF LoadFails, Resident, Retiring, FailLoad
  <1>19. CASE LoadPanics(t)
    BY <1>19 DEF LoadPanics, Resident, Retiring
  <1>20. CASE Publish(t)
    BY <1>20 DEF Publish, Resident, Retiring
  <1>21. CASE DropReservation(t)
    BY <1>21 DEF DropReservation, Resident, Retiring
  <1>22. CASE DropLocalReservation(t)
    BY <1>22 DEF DropLocalReservation, Resident, Retiring
  <1>23. CASE EndColdTask(t)
    <2>1. Resident' = Resident /\ UNCHANGED <<pending, reservations, fresh, todo, seen>>
      BY <1>23 DEF EndColdTask, Resident, Retiring
    <2>2. \A u \in Tasks \ {t} : pc'[u] = pc[u] /\ target'[u] = target[u]
      BY <1>23 DEF EndColdTask
    <2>3. pc[t] = "endCold" /\ pc'[t] \notin {"count", "publish"}
      BY <1>23 DEF EndColdTask
    <2> QED BY <2>1, <2>2, <2>3, StandingStep
  <1>24. CASE ReleaseLease(t)
    BY <1>24 DEF ReleaseLease, Resident, Retiring
  <1>25. CASE EnsureProvisioned(t)
    BY <1>25 DEF EnsureProvisioned, Resident, Retiring
  <1> QED
    BY <1>1, <1>2, <1>3, <1>4, <1>5, <1>6, <1>7, <1>8, <1>9, <1>10, <1>11, <1>12,
       <1>13, <1>14, <1>15, <1>16, <1>17, <1>18, <1>19, <1>20, <1>21, <1>22,
       <1>23, <1>24, <1>25 DEF LoadStep, ClaimingStep

\* The steps of unload_many are quiet.
LEMMA QuietManyStep ==
    ASSUME TypeInv, HolderInv, CountsValid, NEW t \in Requests, ManyStep(t)
    PROVE  QuietStep
  <1> USE TasksAssumption, ModelsAssumption
      DEF TypeInv, TypeOK, TargetsKnown, HolderInv, ReservationsHeld, QuietStep,
          CountsValid, Searching, Reserving, Admitted, Tasks, Labels, At, Goto,
          Finish,
          Notify, Subscribe, Unsubscribe, LockModel, UnlockModel, TouchIn, Await,
          ReleaseAndWait, cacheVars, loadVars, limiterVars, opVars, scanVars
  <1>1. CASE ManySubscribe(t)
    BY <1>1 DEF ManySubscribe, Resident, Retiring
  <1>2. CASE ManyLock(t)
    BY <1>2 DEF ManyLock, Resident, Retiring
  <1>3. CASE ManyFence(t)
    BY <1>3 DEF ManyFence, Resident, Retiring
  <1>4. CASE DrainSubscribe(t)
    BY <1>4 DEF DrainSubscribe, Resident, Retiring
  <1>5. CASE DrainCheck(t)
    <2>1. CASE \A m \in Keys(t) \cap loaded : ~is_active(m)
      <3>1. Resident' = Resident /\ UNCHANGED <<pending, reservations, todo, seen>>
        BY <1>5, <2>1, RetireEffect DEF DrainCheck
      <3>2. fresh' \subseteq fresh
        BY <1>5, <2>1 DEF DrainCheck
      <3>3. \A u \in Tasks \ {t} : pc'[u] = pc[u] /\ target'[u] = target[u]
        BY <1>5, <2>1 DEF DrainCheck
      <3>4. pc[t] = "drainCheck" /\ pc'[t] \notin {"count", "publish"}
        BY <1>5, <2>1 DEF DrainCheck
      <3> QED BY <3>1, <3>2, <3>3, <3>4, StandingStep
    <2>2. CASE ~ \A m \in Keys(t) \cap loaded : ~is_active(m)
      BY <1>5, <2>2 DEF DrainCheck, Resident, Retiring
    <2> QED BY <2>1, <2>2
  <1> QED
    BY <1>1, <1>2, <1>3, <1>4, <1>5 DEF ManyStep

\* The steps of unload are quiet.
LEMMA QuietUnloadStep ==
    ASSUME TypeInv, HolderInv, CountsValid, NEW t \in Tasks, UnloadStep(t)
    PROVE  QuietStep
  <1> USE TasksAssumption, ModelsAssumption
      DEF TypeInv, TypeOK, TargetsKnown, HolderInv, ReservationsHeld, QuietStep,
          CountsValid, Searching, Reserving, Admitted, Tasks, Labels, At, Goto,
          Finish,
          Notify, Subscribe, Unsubscribe, LockModel, UnlockModel, TouchIn, Await,
          ReleaseAndWait, cacheVars, loadVars, limiterVars, opVars, scanVars
  <1>1. CASE UnloadSubscribe(t)
    BY <1>1 DEF UnloadSubscribe, Resident, Retiring
  <1>2. CASE UnloadWaits(t)
    BY <1>2 DEF UnloadWaits, Resident, Retiring, UnloadTurn
  <1>3. CASE UnloadAbsent(t)
    BY <1>3 DEF UnloadAbsent, Resident, Retiring, UnloadTurn, EndUnload
  <1>4. CASE UnloadFences(t)
    BY <1>4 DEF UnloadFences, Resident, Retiring, UnloadTurn
  <1>5. CASE UnloadRetires(t)
    BY <1>5, RetireEffect DEF UnloadRetires, is_active, UnloadTurn, EndUnload
  <1> QED
    BY <1>1, <1>2, <1>3, <1>4, <1>5 DEF UnloadStep

\* Every step is quiet or claiming.
LEMMA QuietOrClaiming ==
    TypeInv /\ HolderInv /\ CountsValid /\ [Next]_vars =>
        QuietStep \/ \E t \in Requests : ClaimingStep(t)
  <1> SUFFICES ASSUME TypeInv, HolderInv, CountsValid, [Next]_vars,
                      \A t \in Requests : ~ClaimingStep(t)
               PROVE  QuietStep
    OBVIOUS
  <1> USE TasksAssumption, ModelsAssumption
      DEF TypeInv, TypeOK, TargetsKnown, HolderInv, ReservationsHeld, QuietStep,
          CountsValid, Searching, Reserving, Admitted, Tasks, Labels, At, Goto,
          Finish, Notify, Unsubscribe, Await, cacheVars, loadVars,
          limiterVars, opVars, scanVars
  <1>1. ASSUME NEW t \in Requests, Start(t) PROVE QuietStep
    <2>1. ASSUME NEW m \in Models, StartLoad(t, m) PROVE QuietStep
      BY <2>1 DEF StartLoad, Resident, Retiring
    <2>2. ASSUME NEW m \in Models, StartEnsure(t, m) PROVE QuietStep
      BY <2>2 DEF StartEnsure, Resident, Retiring
    <2>3. ASSUME NEW m \in Models, StartUnload(t, m) PROVE QuietStep
      BY <2>3 DEF StartUnload, Resident, Retiring
    <2>4. ASSUME NEW g \in Groups, StartUnloadMany(t, g) PROVE QuietStep
      BY <2>4 DEF StartUnloadMany, Resident, Retiring
    <2> QED BY <1>1, <2>1, <2>2, <2>3, <2>4 DEF Start
  <1>2. ASSUME NEW t \in Requests, Cancel(t) PROVE QuietStep
    BY <1>2 DEF Cancel, Resident, Retiring
  <1>3. ASSUME NEW t \in Tasks, Changed(t) PROVE QuietStep
    BY <1>3 DEF Changed, Waits, AfterWait, Resident, Retiring
  <1>4. CASE Close
    BY <1>4 DEF Close, Resident, Retiring
  <1>5. CASE Drained
    BY <1>5 DEF Drained, Resident, Retiring
  <1>6. CASE UnloadNext
    BY <1>6 DEF UnloadNext, Resident, Retiring
  <1>7. ASSUME NEW S \in destroying, NEW panicked \in BOOLEAN, Destroyed(S, panicked)
        PROVE  QuietStep
    BY <1>7 DEF Destroyed, Resident, Retiring
  <1>8. ASSUME NEW c \in Caches, BackgroundCleanup(c) PROVE QuietStep
    BY <1>8, RetireEffect
       DEF BackgroundCleanup, ExpiredSets, Evictable, OfCache, is_active
  <1>9. CASE UNCHANGED vars
    BY <1>9 DEF vars, Resident, Retiring
  <1>10. ASSUME NEW t \in Requests, RequestStep(t) PROVE QuietStep
    BY <1>10, <1>3, QuietLoadStep, QuietManyStep, QuietUnloadStep DEF RequestStep
  <1>11. CASE ShutdownStep
    BY <1>11, <1>3, <1>5, <1>6, QuietUnloadStep DEF ShutdownStep
  <1> QED
    BY <1>1, <1>2, <1>4, <1>7, <1>8, <1>9, <1>10, <1>11 DEF Next, DestructionStep

\* Everything that is counted is finite.
LEMMA FiniteCounts ==
    ASSUME TypeInv
    PROVE  /\ Resident \subseteq Models /\ IsFiniteSet(Resident)
           /\ IsFiniteSet(Tasks)
           /\ \A S \in SUBSET Models : IsFiniteSet(S) /\ Cardinality(S) \in Nat
           /\ \A S, T \in SUBSET Models : S \subseteq T => Cardinality(S) <= Cardinality(T)
           /\ \A S \in SUBSET Tasks : IsFiniteSet(S) /\ Cardinality(S) \in Nat
  <1>1. Resident \subseteq Models
    BY DEF TypeInv, TypeOK, Resident, Retiring
  <1>2. IsFiniteSet(Tasks)
    BY TasksAssumption, FS_AddElement DEF Tasks
  <1>3. \A S \in SUBSET Models : IsFiniteSet(S) /\ Cardinality(S) \in Nat
    BY ModelsAssumption, FS_Subset, FS_CardinalityType
  <1>4. \A S, T \in SUBSET Models : S \subseteq T => Cardinality(S) <= Cardinality(T)
    BY <1>3, FS_Subset
  <1>5. \A S \in SUBSET Tasks : IsFiniteSet(S) /\ Cardinality(S) \in Nat
    BY <1>2, FS_Subset, FS_CardinalityType
  <1> QED BY <1>1, <1>2, <1>3, <1>4, <1>5

\* The limits.
CapacityInv == LocalCapacity /\ ClaimsFit /\ CountsValid

\* A quiet step keeps both limits.
LEMMA CapacityQuiet ==
    ASSUME TypeInv, TypeInv', HolderInv, CapacityInv, QuietStep
    PROVE  CapacityInv'
  <1>1. LocalCapacity'
    <2> SUFFICES ASSUME NEW c \in Caches
                 PROVE  Cardinality(OfCache(Resident' \cup pending', c)) <= MaxLoaded[c]
      BY DEF LocalCapacity, OfCache
    <2>1. /\ OfCache(Resident' \cup pending', c) \subseteq OfCache(Resident \cup pending, c)
          /\ OfCache(Resident \cup pending, c) \subseteq Models
      BY FiniteCounts DEF QuietStep, OfCache, TypeInv, TypeOK
    <2>2. Cardinality(OfCache(Resident \cup pending, c)) <= MaxLoaded[c]
      BY DEF CapacityInv, LocalCapacity
    <2>3. MaxLoaded[c] \in Nat
      BY LimitsAssumption
    <2>4. Cardinality(OfCache(Resident' \cup pending', c))
             <= Cardinality(OfCache(Resident \cup pending, c))
      BY <2>1, FiniteCounts
    <2>5. /\ Cardinality(OfCache(Resident' \cup pending', c)) \in Nat
          /\ Cardinality(OfCache(Resident \cup pending, c)) \in Nat
      BY <2>1, FiniteCounts
    <2> QED BY <2>2, <2>3, <2>4, <2>5
  <1>2. ClaimsFit'
    <2>1. Claims \subseteq Models
      BY FiniteCounts
         DEF Claims, HolderInv, ReservationsHeld, TypeInv, TypeOK, TargetsKnown,
             Reserving
    <2>2. Claims' \subseteq Claims
      BY DEF QuietStep, Claims
    <2>3. Cardinality(Claims') <= Cardinality(Claims)
      BY <2>1, <2>2, FiniteCounts
    <2>4. Cardinality(Claims') \in Nat /\ Cardinality(Claims) \in Nat
      BY <2>1, <2>2, FiniteCounts
    <2> QED BY <2>3, <2>4, LimitsAssumption DEF CapacityInv, ClaimsFit
  <1> QED BY <1>1, <1>2 DEF CapacityInv, QuietStep

\* The local admission of get_or_load_after keeps both limits.
LEMMA CapacityReserve ==
    ASSUME TypeInv, TypeInv', HolderInv, CapacityInv, NEW t \in Requests, CheckReserve(t)
    PROVE  CapacityInv'
  <1> DEFINE m == target[t]
             d == CacheOf[m]
  <1>1. /\ m \in Models /\ d \in Caches
        /\ pending' = pending \cup {m}
        /\ Resident' = Resident
        /\ resident_len(d) + Cardinality(OfCache(pending, d)) < MaxLoaded[d]
    <2>1. m \in Models
      BY DEF CheckReserve, At, TypeInv, TargetsKnown, Searching, Tasks
    <2>2. pending' = pending \cup {m} /\ Resident' = Resident
      BY DEF CheckReserve, Resident, Retiring, cacheVars
    <2>3. ~at_capacity(d)
      BY DEF CheckReserve
    <2>4. d \in Caches
      BY <2>1, ModelsAssumption
    <2>5. OfCache(Resident, d) \in SUBSET Models /\ OfCache(pending, d) \in SUBSET Models
      BY FiniteCounts DEF OfCache, TypeInv, TypeOK
    <2>6. resident_len(d) \in Nat /\ Cardinality(OfCache(pending, d)) \in Nat
      BY <2>5, FiniteCounts DEF resident_len
    <2>7. MaxLoaded[d] \in Nat
      BY <2>4, LimitsAssumption
    <2> QED BY <2>1, <2>2, <2>3, <2>4, <2>6, <2>7 DEF at_capacity
  <1>2. LocalCapacity'
    <2> SUFFICES ASSUME NEW c \in Caches
                 PROVE  Cardinality(OfCache(Resident' \cup pending', c)) <= MaxLoaded[c]
      BY DEF LocalCapacity, OfCache
    <2>1. CASE c # d
      <3>1. OfCache(Resident' \cup pending', c) = OfCache(Resident \cup pending, c)
        BY <1>1, <2>1 DEF OfCache
      <3> QED BY <3>1 DEF CapacityInv, LocalCapacity
    <2>2. CASE c = d
      <3> DEFINE R == OfCache(Resident, d)
                 P == OfCache(pending, d)
      <3>1. R \subseteq Models /\ P \subseteq Models
        BY FiniteCounts DEF OfCache, TypeInv, TypeOK
      <3>2. OfCache(Resident' \cup pending', c) = (R \cup P) \cup {m}
        BY <1>1, <2>2 DEF OfCache
      <3>3. /\ IsFiniteSet(R) /\ IsFiniteSet(P) /\ IsFiniteSet(R \cup P)
            /\ Cardinality(R) \in Nat /\ Cardinality(P) \in Nat
            /\ Cardinality(R \cup P) \in Nat /\ Cardinality(R \cap P) \in Nat
        BY <3>1, FiniteCounts
      <3>4. Cardinality(R \cup P) = Cardinality(R) + Cardinality(P) - Cardinality(R \cap P)
        BY <3>3, FS_Union
      <3>5. /\ Cardinality((R \cup P) \cup {m}) \in Nat
            /\ Cardinality((R \cup P) \cup {m}) <= Cardinality(R \cup P) + 1
        <4>1. Cardinality((R \cup P) \cup {m}) =
                 IF m \in R \cup P THEN Cardinality(R \cup P) ELSE Cardinality(R \cup P) + 1
          BY <3>3, FS_AddElement
        <4> QED BY <3>3, <4>1
      <3>6. MaxLoaded[d] \in Nat
        BY <1>1, LimitsAssumption
      <3>7. Cardinality(R) + Cardinality(P) < MaxLoaded[d]
        BY <1>1 DEF resident_len
      <3> HIDE DEF R, P
      <3>8. Cardinality((R \cup P) \cup {m}) <= MaxLoaded[d]
        BY <3>3, <3>4, <3>5, <3>6, <3>7
      <3> QED BY <3>2, <3>8, <2>2
    <2> QED BY <2>1, <2>2
  <1>3. ClaimsFit'
    <2>1. reservations' = reservations /\ target' = target
      BY DEF CheckReserve, limiterVars, opVars
    <2>2. Claims' = Claims
      BY <1>1, <2>1 DEF Claims
    <2> QED BY <2>2 DEF CapacityInv, ClaimsFit
  <1>4. CountsValid'
    BY <1>1 DEF CheckReserve, CapacityInv, CountsValid, At, Goto, Unsubscribe,
       opVars,
                scanVars, TypeInv, TypeOK
  <1> QED BY <1>2, <1>3, <1>4 DEF CapacityInv

\* The decision of reserve keeps both limits: a count that was not notified
\* misses only models whose loaders hold reservations, which are counted too.
LEMMA CapacityDecide ==
    ASSUME TypeInv, TypeInv', HolderInv, CapacityInv, NEW t \in Requests, Decide(t)
    PROVE  CapacityInv'
  <1>1. /\ Resident' = Resident /\ pending' = pending /\ target' = target
        /\ todo' = todo
    BY DEF Decide, Resident, Retiring, cacheVars, loadVars, opVars
  <1>2. LocalCapacity'
    BY <1>1 DEF CapacityInv, LocalCapacity, OfCache
  <1>3. CountsValid'
    BY <1>1 DEF Decide, CapacityInv, CountsValid, At, Goto, Unsubscribe, TypeInv,
       TypeOK
  <1>4. ClaimsFit'
    <2>1. CASE reservations' = reservations
      BY <1>1, <2>1 DEF CapacityInv, ClaimsFit, Claims
    <2>2. CASE reservations' # reservations
      <3> DEFINE A == reservations \cup {t}
                 T == {target[u] : u \in A}
      <3>1. /\ reservations' = A
            /\ t \in Tasks /\ t \notin reservations /\ t \in fresh
            /\ pc[t] = "count" /\ todo[t] = {}
            /\ Cardinality(seen[t]) + Cardinality(reservations) < GlobalMax
        BY <2>2 DEF Decide, At, HasChanged, Claimed, HolderInv, ReservationsHeld,
           Admitted,
                    Tasks
      <3>2. Resident \subseteq seen[t] \cup T
        BY <3>1 DEF CapacityInv, CountsValid, HolderInv, ReservationsHeld, Admitted
      <3>3. T \subseteq Models /\ seen[t] \subseteq Models
        BY <3>1 DEF HolderInv, ReservationsHeld, TypeInv, TypeOK, TargetsKnown,
           Reserving,
                    Tasks
      <3>4. Claims' \subseteq seen[t] \cup T
        BY <1>1, <3>1, <3>2 DEF Claims
      <3>5. A \subseteq Tasks /\ reservations \subseteq Tasks
        BY <3>1 DEF TypeInv, TypeOK
      <3>6. /\ IsFiniteSet(A) /\ IsFiniteSet(reservations)
            /\ Cardinality(reservations) \in Nat
        BY <3>5, FiniteCounts
      <3>7. Cardinality(A) = Cardinality(reservations) + 1
        BY <3>1, <3>6, FS_AddElement
      <3>8. Cardinality(T) <= Cardinality(A)
        <4> DEFINE f == [u \in A |-> target[u]]
        <4>1. f \in Surjection(A, T)
          BY DEF Surjection
        <4> QED BY <3>6, <4>1, FS_Surjection
      <3>9. /\ IsFiniteSet(seen[t]) /\ IsFiniteSet(T)
            /\ Cardinality(seen[t]) \in Nat /\ Cardinality(T) \in Nat
            /\ Cardinality(seen[t] \cap T) \in Nat
            /\ Cardinality(seen[t] \cup T) \in Nat
        BY <3>3, FiniteCounts
      <3>10. Cardinality(seen[t] \cup T) =
                Cardinality(seen[t]) + Cardinality(T) - Cardinality(seen[t] \cap T)
        BY <3>9, FS_Union
      <3>11. /\ Cardinality(Claims') <= Cardinality(seen[t] \cup T)
             /\ Cardinality(Claims') \in Nat
        BY <3>3, <3>4, FiniteCounts
      <3> HIDE DEF A, T
      <3> QED
        BY <3>1, <3>6, <3>7, <3>8, <3>9, <3>10, <3>11, LimitsAssumption
           DEF ClaimsFit
    <2> QED BY <2>1, <2>2
  <1> QED BY <1>2, <1>3, <1>4 DEF CapacityInv

\* insert_loaded keeps both limits: the model was reserved before.
LEMMA CapacityInsert ==
    ASSUME TypeInv, TypeInv', HolderInv, CapacityInv, NEW t \in Requests, InsertLoaded(t)
    PROVE  CapacityInv'
  <1>1. /\ t \in Tasks /\ pc[t] = "load" /\ pc' = [pc EXCEPT ![t] = "publish"]
        /\ Resident' = Resident \cup {target[t]}
        /\ pending' = pending /\ target' = target /\ reservations' = reservations
        /\ todo' = todo /\ seen' = seen /\ fresh' = fresh
    BY DEF InsertLoaded, At, Goto, Resident, Retiring, Tasks, opVars,
       limiterVars, scanVars
  <1>2. target[t] \in pending /\ t \in reservations
    BY <1>1 DEF HolderInv, ReservationsHeld, Reserving, Admitted
  <1>3. LocalCapacity'
    <2>1. Resident' \cup pending' = Resident \cup pending
      BY <1>1, <1>2
    <2> QED BY <2>1 DEF CapacityInv, LocalCapacity, OfCache
  <1>4. ClaimsFit'
    <2>1. Claims' = Claims
      BY <1>1, <1>2 DEF Claims
    <2> QED BY <2>1 DEF CapacityInv, ClaimsFit
  <1>5. CountsValid'
    BY <1>1 DEF CapacityInv, CountsValid, TypeInv, TypeOK
  <1> QED BY <1>3, <1>4, <1>5 DEF CapacityInv

\* The initial state satisfies the inductive invariant.
LEMMA InvInit == Init => TypeInv /\ HolderInv /\ CapacityInv
  <1> SUFFICES ASSUME Init PROVE HolderInv /\ CapacityInv
    BY TypeInit
  <1>1. Resident = {} /\ pending = {} /\ reservations = {} /\ pc = [t \in Tasks |-> "idle"]
    BY DEF Init, Resident, Retiring
  <1>2. HolderInv
    BY <1>1 DEF Init, HolderInv, ReservationsHeld, TargetsAbsent, LeasesHeld,
       Reserving,
                Admitted, Unloaded, Leasing
  <1>3. CapacityInv
    <2>1. CountsValid
      BY <1>1 DEF CountsValid
    <2>2. \A c \in Caches : OfCache(Resident \cup pending, c) = {}
      BY <1>1 DEF OfCache
    <2>3. Claims = {}
      BY <1>1 DEF Claims
    <2>4. LocalCapacity
      BY <2>2, LimitsAssumption, FS_EmptySet DEF LocalCapacity
    <2>5. ClaimsFit
      BY <2>3, LimitsAssumption, FS_EmptySet DEF ClaimsFit
    <2> QED BY <2>1, <2>4, <2>5 DEF CapacityInv
  <1> QED BY <1>2, <1>3

\* Every step preserves the inductive invariant.
LEMMA InvStep ==
    TypeInv /\ HolderInv /\ CapacityInv /\ [Next]_vars =>
        (TypeInv /\ HolderInv /\ CapacityInv)'
  <1> SUFFICES ASSUME TypeInv, HolderInv, CapacityInv, [Next]_vars
               PROVE  (TypeInv /\ HolderInv /\ CapacityInv)'
    OBVIOUS
  <1>1. TypeInv' /\ HolderInv'
    BY TypeStep, HolderStep
  <1>2. QuietStep \/ \E t \in Requests : ClaimingStep(t)
    BY QuietOrClaiming DEF CapacityInv
  <1>3. CapacityInv'
    BY <1>1, <1>2, CapacityQuiet, CapacityReserve, CapacityDecide, CapacityInsert
       DEF ClaimingStep
  <1> QED BY <1>1, <1>3

\* Neither a cache nor the process ever holds more engines than its max_loaded,
\* for any number of services, models and concurrent tasks: the unlocked count
\* of reserve is safe, and the debug_assert of insert_loaded holds.
THEOREM CapacityCorrect == Spec => [](LocalCapacity /\ GlobalCapacity)
  <1>1. TypeInv /\ HolderInv /\ CapacityInv => LocalCapacity /\ GlobalCapacity
    <2> SUFFICES ASSUME TypeInv, HolderInv, CapacityInv PROVE GlobalCapacity
      BY DEF CapacityInv
    <2>1. Resident \subseteq Claims
      BY DEF Claims
    <2>2. Claims \subseteq Models
      BY FiniteCounts
         DEF Claims, HolderInv, ReservationsHeld, TypeInv, TypeOK, TargetsKnown,
             Reserving
    <2>3. /\ Cardinality(Resident) <= Cardinality(Claims)
          /\ Cardinality(Resident) \in Nat /\ Cardinality(Claims) \in Nat
      BY <2>1, <2>2, FiniteCounts
    <2> QED BY <2>3, LimitsAssumption DEF CapacityInv, ClaimsFit, GlobalCapacity
  <1> QED
    BY <1>1, InvInit, InvStep, PTL DEF Spec

\* No eviction, clean-up or unload retires a leased model, and the unreachable!
\* of insert_loaded is unreachable.
THEOREM LeaseCorrect == Spec => [](LeasedResident /\ VacantEntry)
  <1>1. TypeInv /\ HolderInv => LeasedResident /\ VacantEntry
    BY DEF HolderInv, LeasesHeld, TargetsAbsent, ReservationsHeld, LeasedResident,
           VacantEntry, Reserving, Admitted, Unloaded
  <1> QED
    BY <1>1, InvInit, InvStep, PTL DEF Spec

\* The inductive invariant of the model cache holds in every reachable state.
THEOREM InvCorrect == Spec => []Inv
  <1>1. TypeInv /\ HolderInv /\ CapacityInv => Inv
    BY DEF TypeInv, HolderInv, CapacityInv, Inv
  <1> QED
    BY <1>1, InvInit, InvStep, PTL DEF Spec

=============================================================================
