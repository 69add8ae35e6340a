--------------------------- MODULE ModelUnloadProofs --------------------------
(***************************************************************************)
(* The fences of unload and unload_many.  DrainOwned is not inductive: an  *)
(* unload whose fenced model vanished would give up its ownership and      *)
(* leave the fence, so the invariant also says that a fenced model stays   *)
(* loaded (eviction and clean-up skip it, other unloads wait) and that no  *)
(* load of a fenced model is under way.  For the proof a step is quiet     *)
(* when it keeps all fences, or one of the three steps that set or lift    *)
(* them.                                                                   *)
(***************************************************************************)
EXTENDS ModelResidencyProofs

\* Labels of an unload, and those at which unload_many has set its fences.
Unloading == {"unload", "unloadCheck", "unloadWait"}
Fencing == {"drain", "drainCheck", "drainWait"}

\* A task that owns a fence is in unload, and its model is still loaded.
OwnersUnload == \A t \in Tasks \cap owns : pc[t] \in Unloading /\ target[t] \in loaded

\* A model that is being loaded is not fenced.
PendingUnfenced == draining \cap pending = {}

FenceInv == DrainOwned /\ OwnersUnload /\ PendingUnfenced

\* A step that keeps every fence, and the model behind it.
FencesKept ==
    /\ draining' = draining
    /\ owns' = owns
    /\ draining \cap pending' = {}
    /\ draining \cap loaded \subseteq loaded'
    /\ \A u \in Tasks :
          /\ u \in owns => pc'[u] \in Unloading /\ target'[u] = target[u]
          /\ pc[u] \in Fencing => pc'[u] \in Fencing /\ group'[u] = group[u]
          /\ pc'[u] \in Fencing => pc[u] \in Fencing

\* Such a step keeps the invariant.
LEMMA FencesKeptInv ==
    ASSUME TypeInv, FenceInv, FencesKept
    PROVE  FenceInv'
  <1>1. \A u \in Tasks : Fences(u)' = Fences(u)
    <2> SUFFICES ASSUME NEW u \in Tasks PROVE Fences(u)' = Fences(u)
      OBVIOUS
    <2>1. u \in owns' <=> u \in owns
      BY DEF FencesKept
    <2>2. u \in owns => target'[u] = target[u]
      BY DEF FencesKept
    <2>3. pc'[u] \in Fencing <=> pc[u] \in Fencing
      BY DEF FencesKept
    <2>4. pc[u] \in Fencing => Keys(u)' = Keys(u)
      BY DEF FencesKept, Keys
    <2> QED BY <2>1, <2>2, <2>3, <2>4 DEF Fences, Fencing
  <1>2. DrainOwned'
    BY <1>1 DEF FenceInv, DrainOwned, FencesKept
  <1>3. \A u \in Tasks \cap owns : target[u] \in draining
    BY DEF FenceInv, DrainOwned, Fences, OwnersUnload, TypeInv, TargetsKnown,
       Unloading, Searching
  <1>4. OwnersUnload'
    BY <1>3 DEF FenceInv, OwnersUnload, FencesKept
  <1> QED BY <1>2, <1>4 DEF FenceInv, PendingUnfenced, FencesKept

\* The steps of a load.
LEMMA FenceLoadStep ==
    ASSUME TypeInv, FenceInv, NEW t \in Requests, LoadStep(t)
    PROVE  FencesKept
  <1> USE DEF TypeInv, TypeOK, TargetsKnown, Searching, Reserving, Admitted, FenceInv,
          OwnersUnload, PendingUnfenced, FencesKept, Unloading, Fencing, Tasks, Labels,
          At, Goto, Finish, cacheVars, loadVars, opVars
  <1>1. CASE CleanupIdle(t)
    BY <1>1 DEF CleanupIdle, RetireAndDestroy, ExpiredSets, Evictable, OfCache
  <1>2. CASE CheckEvict(t)
    BY <1>2 DEF CheckEvict, RetireAndDestroy, LruVictims, LeastRecent, Evictable,
       OfCache
  <1>3. CASE EvictTracked(t)
    BY <1>3 DEF EvictTracked, RetireAndDestroy, StillEvictable
  <1>4. CASE LockAndSubscribe(t) \/ GetLoadedMiss(t) \/ ReserveSubscribe(t)
             \/ CountCache(t) \/ Decide(t)
    BY <1>4 DEF LockAndSubscribe, GetLoadedMiss, ReserveSubscribe, CountCache, Decide
  <1>5. CASE BeginColdTask(t)
    BY <1>5, TasksAssumption DEF BeginColdTask
  <1>6. CASE CheckReserve(t)
    BY <1>6 DEF CheckReserve, Absent, Fenced
  <1>7. CASE PickLru(t) \/ LockForLoad(t) \/ ProvisionOk(t) \/ LoadPanics(t)
             \/ Publish(t) \/ DropReservation(t) \/ DropLocalReservation(t)
    BY <1>7 DEF PickLru, LockForLoad, ProvisionOk, LoadPanics, Publish,
       DropReservation, DropLocalReservation
  <1>8. CASE EndColdTask(t) \/ EnsureProvisioned(t) \/ ReleaseLease(t)
    BY <1>8, TasksAssumption DEF EndColdTask, EnsureProvisioned, ReleaseLease
  <1>9. CASE GetLoadedFenced(t) \/ CheckBusy(t) \/ CheckFull(t)
    BY <1>9 DEF GetLoadedFenced, CheckBusy, CheckFull, ReleaseAndWait
  <1>10. CASE ProvisionFails(t) \/ LoadFails(t)
    BY <1>10 DEF ProvisionFails, LoadFails, FailLoad
  <1>11. CASE GetLoadedHit(t) \/ CheckHit(t)
    BY <1>11 DEF GetLoadedHit, CheckHit, Hit
  <1>12. CASE InsertLoaded(t)
    BY <1>12 DEF InsertLoaded
  <1> QED
    BY <1>1, <1>2, <1>3, <1>4, <1>5, <1>6, <1>7, <1>8, <1>9, <1>10, <1>11, <1>12
       DEF LoadStep

\* The steps of unload: setting a fence is refused while another unload or a
\* load of the model is under way, and only the owner lifts it.
LEMMA FenceUnloadStep ==
    ASSUME TypeInv, FenceInv, NEW t \in Tasks, UnloadStep(t)
    PROVE  FenceInv'
  <1> DEFINE m == target[t]
  <1>1. CASE UnloadSubscribe(t) \/ UnloadWaits(t)
    <2>1. FencesKept
      BY <1>1 DEF UnloadSubscribe, UnloadWaits, UnloadTurn, TypeInv, TypeOK, FenceInv,
         OwnersUnload, PendingUnfenced, FencesKept, Unloading, Fencing, Labels, At,
         Goto, cacheVars, loadVars, opVars
    <2> QED BY <2>1, FencesKeptInv
  <1>2. CASE UnloadAbsent(t)
    <2>1. t \notin owns
      BY <1>2 DEF UnloadAbsent, FenceInv, OwnersUnload
    <2>2. FencesKept
      BY <1>2, <2>1, TasksAssumption
         DEF UnloadAbsent, UnloadTurn, EndUnload, Finish, TypeInv, TypeOK, FenceInv,
             OwnersUnload, PendingUnfenced, FencesKept, Unloading, Fencing, Labels,
             At, Goto, cacheVars, loadVars, opVars
    <2> QED BY <2>2, FencesKeptInv
  <1>3. CASE UnloadFences(t)
    <2>1. /\ pc[t] = "unloadCheck" /\ pc' = [pc EXCEPT ![t] = "unloadWait"]
          /\ m \in Models /\ m \in loaded /\ m \notin pending
          /\ m \in draining => t \in owns
          /\ draining' = draining \cup {m} /\ owns' = owns \cup {t}
          /\ target' = target /\ group' = group /\ loaded' = loaded /\ pending' = pending
      BY <1>3 DEF UnloadFences, UnloadTurn, UnloadBlocked, At, Goto, loadVars, opVars,
         TypeInv, TypeOK
    <2>2. Fences(t)' = {m}
      BY <2>1 DEF Fences, TypeInv, TypeOK
    <2>3. Fences(t) \subseteq {m}
      BY <2>1 DEF Fences
    <2>4. \A u \in Tasks \ {t} : Fences(u)' = Fences(u)
      BY <2>1 DEF Fences, Keys, TypeInv, TypeOK
    <2>5. \A u \in Tasks \ {t} : m \notin Fences(u)
      <3>1. CASE t \in owns
        BY <2>1, <3>1 DEF FenceInv, DrainOwned, Fences
      <3>2. CASE t \notin owns
        BY <2>1, <3>2 DEF FenceInv, DrainOwned
      <3> QED BY <3>1, <3>2
    <2>6. draining' = UNION {Fences(u)' : u \in Tasks}
      <3>1. draining = UNION {Fences(u) : u \in Tasks}
        BY DEF FenceInv, DrainOwned
      <3> QED BY <2>1, <2>2, <2>3, <2>4, <3>1
    <2>7. \A u, w \in Tasks : u # w => Fences(u)' \cap Fences(w)' = {}
      BY <2>2, <2>4, <2>5 DEF FenceInv, DrainOwned
    <2>8. OwnersUnload' /\ PendingUnfenced'
      BY <2>1 DEF FenceInv, OwnersUnload, PendingUnfenced, Unloading, TypeInv, TypeOK
    <2> QED BY <2>6, <2>7, <2>8 DEF FenceInv, DrainOwned
  <1>4. CASE UnloadRetires(t)
    <2>1. /\ pc[t] = "unloadCheck" /\ pc'[t] \notin Fencing
          /\ \A u \in Tasks \ {t} : pc'[u] = pc[u] /\ target'[u] = target[u]
                                    /\ group'[u] = group[u]
          /\ m \in draining => t \in owns
          /\ draining' = draining \ {m} /\ owns' = owns \ {t}
          /\ loaded' = loaded \ {m} /\ pending' = pending
      BY <1>4, TasksAssumption
         DEF UnloadRetires, UnloadTurn, UnloadBlocked, EndUnload, Finish, Fencing,
             RetireAndDestroy, At, Goto, loadVars, opVars, TypeInv, TypeOK
    <2>2. Fences(t)' = {}
      BY <2>1 DEF Fences, Fencing
    <2>3. Fences(t) \subseteq {m}
      BY <2>1 DEF Fences
    <2>4. \A u \in Tasks \ {t} : Fences(u)' = Fences(u)
      BY <2>1 DEF Fences, Keys
    <2>5. \A u \in Tasks \ {t} : m \notin Fences(u)
      <3>1. CASE t \in owns
        BY <2>1, <3>1 DEF FenceInv, DrainOwned, Fences
      <3>2. CASE t \notin owns
        BY <2>1, <3>2 DEF FenceInv, DrainOwned
      <3> QED BY <3>1, <3>2
    <2>6. draining' = UNION {Fences(u)' : u \in Tasks}
      <3>1. draining = UNION {Fences(u) : u \in Tasks}
        BY DEF FenceInv, DrainOwned
      <3> QED BY <2>1, <2>2, <2>3, <2>4, <2>5, <3>1
    <2>7. \A u, w \in Tasks : u # w => Fences(u)' \cap Fences(w)' = {}
      BY <2>2, <2>4 DEF FenceInv, DrainOwned
    <2>8. \A u \in Tasks \cap owns' : target[u] # m
      <3>1. \A u \in Tasks \cap owns : target[u] \in Fences(u)
        BY DEF Fences, FenceInv, OwnersUnload, TypeInv, TargetsKnown, Unloading,
           Searching
      <3> QED BY <2>1, <2>5, <3>1
    <2>9. OwnersUnload' /\ PendingUnfenced'
      BY <2>1, <2>8 DEF FenceInv, OwnersUnload, PendingUnfenced
    <2> QED BY <2>6, <2>7, <2>9 DEF FenceInv, DrainOwned
  <1> QED BY <1>1, <1>2, <1>3, <1>4 DEF UnloadStep

\* The steps of unload_many: it fences all its models at once, when no other
\* unload and no load of any of them is under way.
LEMMA FenceManyStep ==
    ASSUME TypeInv, FenceInv, NEW t \in Requests, ManyStep(t)
    PROVE  FenceInv'
  <1>1. t \in Tasks
    BY DEF Tasks
  <1>2. CASE ManySubscribe(t) \/ ManyLock(t) \/ DrainSubscribe(t)
    <2>1. FencesKept
      BY <1>1, <1>2 DEF ManySubscribe, ManyLock, DrainSubscribe, TypeInv, TypeOK,
         FenceInv, OwnersUnload, PendingUnfenced, FencesKept, Unloading, Fencing,
         Labels, At, Goto, cacheVars, loadVars, opVars
    <2> QED BY <2>1, FencesKeptInv
  <1>3. CASE ManyFence(t) /\ \E m \in Keys(t) : Fenced(m) \/ m \in pending
    <2>1. FencesKept
      BY <1>1, <1>3 DEF ManyFence, TypeInv, TypeOK,
         FenceInv, OwnersUnload, PendingUnfenced, FencesKept, Unloading, Fencing,
         Labels, At, Goto, cacheVars, loadVars, opVars
    <2> QED BY <2>1, FencesKeptInv
  <1>4. CASE ManyFence(t) /\ ~ \E m \in Keys(t) : Fenced(m) \/ m \in pending
    <2>1. /\ pc[t] = "manyLock" /\ pc' = [pc EXCEPT ![t] = "drain"]
          /\ \A m \in Keys(t) : m \notin draining /\ m \notin pending
          /\ draining' = draining \cup Keys(t) /\ owns' = owns
          /\ target' = target /\ group' = group /\ loaded' = loaded /\ pending' = pending
      BY <1>4 DEF ManyFence, Fenced, At, Goto, loadVars, opVars
    <2>2. t \notin owns
      BY <1>1, <2>1 DEF FenceInv, OwnersUnload, Unloading
    <2>3. Fences(t)' = Keys(t) /\ Fences(t) = {}
      <3>1. Keys(t) \subseteq Models /\ Keys(t)' = Keys(t)
        BY <1>1, <2>1, KeysType DEF TypeInv, Keys
      <3> QED BY <1>1, <2>1, <2>2, <3>1 DEF Fences, TypeInv, TypeOK
    <2>4. \A u \in Tasks \ {t} : Fences(u)' = Fences(u)
      BY <2>1 DEF Fences, Keys, TypeInv, TypeOK
    <2>5. draining = UNION {Fences(u) : u \in Tasks}
      BY DEF FenceInv, DrainOwned
    <2>6. draining' = UNION {Fences(u)' : u \in Tasks}
      BY <1>1, <2>1, <2>3, <2>4, <2>5
    <2>7. \A u, w \in Tasks : u # w => Fences(u)' \cap Fences(w)' = {}
      BY <2>1, <2>3, <2>4, <2>5 DEF FenceInv, DrainOwned
    <2>8. OwnersUnload' /\ PendingUnfenced'
      BY <2>1, <2>2 DEF FenceInv, OwnersUnload, PendingUnfenced, TypeInv, TypeOK
    <2> QED BY <2>6, <2>7, <2>8 DEF FenceInv, DrainOwned
  <1>5. CASE DrainCheck(t) /\ ~ \A m \in Keys(t) \cap loaded : ~is_active(m)
    <2>1. FencesKept
      BY <1>1, <1>5 DEF DrainCheck, TypeInv, TypeOK,
         FenceInv, OwnersUnload, PendingUnfenced, FencesKept, Unloading, Fencing,
         Labels, At, Goto, cacheVars, loadVars, opVars
    <2> QED BY <2>1, FencesKeptInv
  <1>6. CASE DrainCheck(t) /\ \A m \in Keys(t) \cap loaded : ~is_active(m)
    <2>1. /\ pc[t] = "drainCheck" /\ pc'[t] \notin Fencing
          /\ \A u \in Tasks \ {t} : pc'[u] = pc[u] /\ target'[u] = target[u]
                                    /\ group'[u] = group[u]
          /\ draining' = draining \ Keys(t) /\ owns' = owns
          /\ loaded' = loaded \ Keys(t) /\ pending' = pending
      BY <1>1, <1>6, TasksAssumption
         DEF DrainCheck, Finish, Fencing, RetireAndDestroy, At, Goto, loadVars, TypeInv,
             TypeOK
    <2>2. t \notin owns
      BY <1>1, <2>1 DEF FenceInv, OwnersUnload, Unloading
    <2>3. Fences(t)' = {} /\ Fences(t) = Keys(t)
      BY <1>1, <2>1, <2>2, KeysType DEF Fences, Fencing, TypeInv
    <2>4. \A u \in Tasks \ {t} : Fences(u)' = Fences(u)
      BY <2>1 DEF Fences, Keys
    <2>5. draining = UNION {Fences(u) : u \in Tasks}
      BY DEF FenceInv, DrainOwned
    <2>6. \A u \in Tasks \ {t} : Fences(u) \cap Keys(t) = {}
      BY <1>1, <2>3 DEF FenceInv, DrainOwned
    <2>7. draining' = UNION {Fences(u)' : u \in Tasks}
      BY <1>1, <2>1, <2>3, <2>4, <2>5, <2>6
    <2>8. \A u, w \in Tasks : u # w => Fences(u)' \cap Fences(w)' = {}
      BY <2>3, <2>4 DEF FenceInv, DrainOwned
    <2>9. \A u \in Tasks \cap owns : target[u] \notin Keys(t)
      <3>1. \A u \in Tasks \cap owns : target[u] \in Fences(u)
        BY DEF Fences, FenceInv, OwnersUnload, TypeInv, TargetsKnown, Unloading,
           Searching
      <3> QED BY <2>2, <2>6, <3>1
    <2>10. OwnersUnload' /\ PendingUnfenced'
      BY <2>1, <2>2, <2>9 DEF FenceInv, OwnersUnload, PendingUnfenced
    <2> QED BY <2>7, <2>8, <2>10 DEF FenceInv, DrainOwned
  <1> QED BY <1>2, <1>3, <1>4, <1>5, <1>6 DEF ManyStep

\* Every step keeps the fences consistent.
LEMMA FenceStep == TypeInv /\ FenceInv /\ [Next]_vars => FenceInv'
  <1> SUFFICES ASSUME TypeInv, FenceInv, [Next]_vars PROVE FenceInv'
    OBVIOUS
  <1>1. ASSUME NEW t \in Requests, Start(t) \/ Cancel(t) PROVE FencesKept
    BY <1>1, TasksAssumption
       DEF Start, StartLoad, StartEnsure, StartUnload, StartUnloadMany, Cancel, TypeInv,
           TypeOK, FenceInv, OwnersUnload, PendingUnfenced, FencesKept, Unloading,
           Fencing, Labels, Tasks, At, Goto, Finish, cacheVars, loadVars, opVars
  <1>2. ASSUME NEW t \in Tasks, Changed(t) PROVE FencesKept
    BY <1>2 DEF Changed, Waits, AfterWait, TypeInv, TypeOK, FenceInv, OwnersUnload,
       PendingUnfenced, FencesKept, Unloading, Fencing, Labels, Goto, cacheVars,
       loadVars, opVars
  <1>3. CASE Close \/ Drained \/ UnloadNext
    BY <1>3, FencesKeptInv
       DEF Close, Drained, UnloadNext, TypeInv, TypeOK, FenceInv, OwnersUnload,
           PendingUnfenced, FencesKept, Unloading, Fencing, Labels, Tasks, At, Goto,
           cacheVars, loadVars, opVars
  <1>4. ASSUME NEW S \in destroying, NEW panicked \in BOOLEAN, Destroyed(S, panicked)
        PROVE  FencesKept
    BY <1>4 DEF Destroyed, TypeInv, TypeOK, FenceInv, OwnersUnload, PendingUnfenced,
       FencesKept, Unloading, Fencing, loadVars, opVars
  <1>5. ASSUME NEW c \in Caches, BackgroundCleanup(c) PROVE FencesKept
    BY <1>5 DEF BackgroundCleanup, RetireAndDestroy, ExpiredSets, Evictable, OfCache,
       FenceInv, OwnersUnload, PendingUnfenced, FencesKept, loadVars, opVars
  <1>6. CASE UNCHANGED vars
    BY <1>6 DEF vars, FenceInv, OwnersUnload, PendingUnfenced, DrainOwned, Fences, Keys
  <1>7. ASSUME NEW t \in Requests, RequestStep(t) PROVE FenceInv'
    BY <1>7, <1>2, FencesKeptInv, FenceLoadStep, FenceManyStep, FenceUnloadStep
       DEF RequestStep, Tasks
  <1>8. CASE ShutdownStep
    BY <1>8, <1>2, <1>3, FencesKeptInv, FenceUnloadStep DEF ShutdownStep, Tasks
  <1> QED
    BY <1>1, <1>3, <1>4, <1>5, <1>6, <1>7, <1>8, FencesKeptInv DEF Next, DestructionStep

\* No fence is up before any task starts.
LEMMA FenceInit == Init => FenceInv
  BY DEF Init, FenceInv, DrainOwned, OwnersUnload, PendingUnfenced, Fences

\* A fence is held by exactly one unload task and ends with it, for any number
\* of concurrent unloads, deployments, loads and a shutdown: no model becomes
\* unusable because its fence leaked, and no unload loses its fence to another.
THEOREM FencesOwned == Spec => []DrainOwned
  <1>1. FenceInv => DrainOwned
    BY DEF FenceInv
  <1> QED
    BY <1>1, FenceInit, FenceStep, TypeInit, TypeStep, PTL DEF Spec

\* No lease of a fenced model begins: get_loaded refuses it, and a load that
\* inserts it cannot be under way, since the fence was refused while the model
\* was in pending_loads and the reservation while it was fenced.
THEOREM FenceHolds == Spec => DrainFence
  <1> DEFINE A == \A m \in draining : \A t \in Tasks : lease'[t] = m => lease[t] = m
  <1>1. TypeInv /\ HolderInv /\ FenceInv /\ [Next]_vars => A
    <2> SUFFICES ASSUME TypeInv, HolderInv, FenceInv, [Next]_vars,
                        NEW m \in draining, NEW t \in Tasks, lease'[t] = m
                 PROVE  lease[t] = m
      OBVIOUS
    <2>1. m \in Models /\ m # NoModel
      BY ModelsAssumption DEF TypeInv, TypeOK
    <2>2. MemoryStep
      BY MemorySteps
    <2>3. CASE lease' = lease
      BY <2>3
    <2>4. ASSUME NEW u \in Requests, GetLoadedHit(u) \/ CheckHit(u) PROVE lease[t] = m
      BY <2>4 DEF GetLoadedHit, CheckHit, Hit, Fenced, TypeInv, TypeOK
    <2>5. ASSUME NEW u \in Requests, ReleaseLease(u) PROVE lease[t] = m
      BY <2>1, <2>5 DEF ReleaseLease, TypeInv, TypeOK
    <2>6. ASSUME NEW u \in Requests, InsertLoaded(u) PROVE lease[t] = m
      <3>1. target[u] \in pending
        BY <2>6 DEF InsertLoaded, At, HolderInv, ReservationsHeld, Reserving, Admitted,
           Tasks
      <3> QED BY <2>6, <3>1 DEF InsertLoaded, FenceInv, PendingUnfenced, TypeInv, TypeOK
    <2> QED
      BY <2>2, <2>3, <2>4, <2>5, <2>6
         DEF MemoryStep, RetiringStep, DestructionStep, Destroyed
  <1>2. TypeInv /\ HolderInv /\ FenceInv /\ [Next]_vars => [A]_vars
    BY <1>1
  <1>3. Init => HolderInv
    BY InvInit
  <1> HIDE DEF A
  <1>4. Spec => [][A]_vars
    BY <1>2, <1>3, FenceInit, FenceStep, TypeInit, TypeStep, HolderStep, PTL DEF Spec
  <1> QED BY <1>4 DEF DrainFence, A

-----------------------------------------------------------------------------
(***************************************************************************)
(* Shutdown.  The sweep of unload_all_models visits every model once, so   *)
(* what it has passed must not come back: no cold task is left, none can   *)
(* begin, and an engine somebody else is dropping is waited for.           *)
(***************************************************************************)

\* Labels of get_or_load_after and of the drops at its end.
ColdLabels == {"clean", "lock", "check", "wait", "endCold"} \cup Reserving

\* A task there holds a ColdTaskGuard.
ColdHeld == \A t \in Tasks : pc[t] \in ColdLabels => t \in cold

\* Every local reservation belongs to such a task.
PendingHeld == \A m \in pending : \E t \in Tasks : pc[t] \in Reserving /\ target[t] = m

\* An engine is loaded or in one batch that is being destroyed.
BatchesDisjoint ==
    /\ loaded \cap Retiring = {}
    /\ \A S, T \in destroying : S # T => S \cap T = {}

\* The model the sweep is at.
Swept == IF pc[Shut] \in Unloading THEN {target[Shut]} ELSE {}

Sweeping == Unloading \cup {"sweep", "done"}

\* What the sweep has passed is gone, but for the batch it waits for.
SweepInv ==
    /\ pc[Shut] \in {"idle", "closing"} \cup Sweeping
    /\ pc[Shut] # "idle" => closed
    /\ pc[Shut] \in Sweeping =>
          /\ cold = {}
          /\ Resident \subseteq left \cup Swept \cup reap[Shut]
    /\ pc[Shut] = "done" => left = {}

ShutInv == ColdHeld /\ PendingHeld /\ BatchesDisjoint /\ SweepInv

\* The batches stay disjoint.
LEMMA BatchesStep ==
    ASSUME TypeInv, HolderInv, BatchesDisjoint, MemoryStep
    PROVE  BatchesDisjoint'
  <1>1. CASE loaded' = loaded /\ destroying' = destroying
    BY <1>1 DEF BatchesDisjoint, Retiring
  <1>2. CASE RetiringStep
    BY <1>2 DEF RetiringStep, RetireAndDestroy, BatchesDisjoint, Retiring
  <1>3. ASSUME NEW t \in Requests, InsertLoaded(t) PROVE BatchesDisjoint'
    <2>1. target[t] \notin Resident
      BY <1>3 DEF InsertLoaded, At, HolderInv, TargetsAbsent, Unloaded, Reserving,
         Admitted, Tasks
    <2> QED BY <1>3, <2>1 DEF InsertLoaded, BatchesDisjoint, Retiring, Resident
  <1>4. CASE DestructionStep
    BY <1>4 DEF DestructionStep, Destroyed, BatchesDisjoint, Retiring
  <1>5. ASSUME NEW t \in Requests, GetLoadedHit(t) \/ CheckHit(t) \/ ReleaseLease(t)
        PROVE  BatchesDisjoint'
    BY <1>5 DEF GetLoadedHit, CheckHit, Hit, ReleaseLease, BatchesDisjoint, Retiring
  <1> QED BY <1>1, <1>2, <1>3, <1>4, <1>5 DEF MemoryStep

\* Only the end of a load brings an engine into memory.
LEMMA ResidentShrinks ==
    ASSUME TypeInv, MemoryStep, \A t \in Requests : ~InsertLoaded(t)
    PROVE  Resident' \subseteq Resident
  <1>1. CASE RetiringStep
    BY <1>1, RetireEffect DEF RetiringStep, TypeInv
  <1>2. CASE ~RetiringStep
    BY <1>2 DEF MemoryStep, Resident, Retiring, DestructionStep, Destroyed,
       GetLoadedHit, CheckHit, Hit, ReleaseLease
  <1> QED BY <1>1, <1>2

\* Cold tasks and local reservations in the steps of a load.
LEMMA ColdLoadStep ==
    ASSUME TypeInv, ColdHeld, PendingHeld, NEW t \in Requests, LoadStep(t)
    PROVE  ColdHeld' /\ PendingHeld'
  <1> USE TasksAssumption
      DEF TypeInv, TypeOK, TargetsKnown, Searching, Reserving, Admitted, ColdLabels,
          ColdHeld, PendingHeld, Tasks, Labels, At, Goto, Finish, loadVars, limiterVars,
          opVars
  <1>1. CASE CleanupIdle(t)
    BY <1>1 DEF CleanupIdle
  <1>2. CASE CheckEvict(t)
    BY <1>2 DEF CheckEvict
  <1>3. CASE EvictTracked(t)
    BY <1>3 DEF EvictTracked
  <1>4. CASE LockAndSubscribe(t)
    BY <1>4 DEF LockAndSubscribe
  <1>5. CASE GetLoadedMiss(t)
    BY <1>5 DEF GetLoadedMiss
  <1>6. CASE BeginColdTask(t)
    BY <1>6 DEF BeginColdTask
  <1>7. CASE CheckReserve(t)
    BY <1>7 DEF CheckReserve
  <1>8. CASE ReserveSubscribe(t)
    BY <1>8 DEF ReserveSubscribe
  <1>9. CASE CountCache(t)
    BY <1>9 DEF CountCache
  <1>10. CASE Decide(t)
    BY <1>10 DEF Decide
  <1>11. CASE PickLru(t)
    BY <1>11 DEF PickLru
  <1>12. CASE LockForLoad(t)
    BY <1>12 DEF LockForLoad
  <1>13. CASE ProvisionOk(t) \/ LoadPanics(t) \/ Publish(t) \/ DropReservation(t)
    BY <1>13 DEF ProvisionOk, LoadPanics, Publish, DropReservation
  <1>14. CASE DropLocalReservation(t)
    BY <1>14 DEF DropLocalReservation
  <1>15. CASE EndColdTask(t)
    BY <1>15 DEF EndColdTask
  <1>16. CASE EnsureProvisioned(t) \/ ReleaseLease(t)
    BY <1>16 DEF EnsureProvisioned, ReleaseLease
  <1>17. CASE GetLoadedFenced(t) \/ CheckBusy(t) \/ CheckFull(t)
    BY <1>17 DEF GetLoadedFenced, CheckBusy, CheckFull, ReleaseAndWait
  <1>18. CASE ProvisionFails(t) \/ LoadFails(t)
    BY <1>18 DEF ProvisionFails, LoadFails, FailLoad
  <1>19. CASE GetLoadedHit(t) \/ CheckHit(t)
    BY <1>19 DEF GetLoadedHit, CheckHit, Hit
  <1>20. CASE InsertLoaded(t)
    BY <1>20 DEF InsertLoaded
  <1> QED
    BY <1>1, <1>2, <1>3, <1>4, <1>5, <1>6, <1>7, <1>8, <1>9, <1>10, <1>11, <1>12,
       <1>13, <1>14, <1>15, <1>16, <1>17, <1>18, <1>19, <1>20 DEF LoadStep

\* Cold tasks and local reservations in every step.
LEMMA ColdStep ==
    ASSUME TypeInv, ColdHeld, PendingHeld, [Next]_vars
    PROVE  ColdHeld' /\ PendingHeld'
  <1> USE TasksAssumption
      DEF TypeInv, TypeOK, Reserving, Admitted, ColdLabels, ColdHeld, PendingHeld, Tasks,
          Labels, At, Goto, Finish, loadVars, limiterVars, opVars
  <1>1. ASSUME NEW t \in Requests, Start(t) \/ Cancel(t) PROVE ColdHeld' /\ PendingHeld'
    BY <1>1 DEF Start, StartLoad, StartEnsure, StartUnload, StartUnloadMany, Cancel
  <1>2. ASSUME NEW t \in Tasks, Changed(t) PROVE ColdHeld' /\ PendingHeld'
    BY <1>2 DEF Changed, Waits, AfterWait
  <1>3. CASE Close \/ Drained \/ UnloadNext
    BY <1>3 DEF Close, Drained, UnloadNext
  <1>4. CASE DestructionStep
    BY <1>4 DEF DestructionStep, Destroyed
  <1>5. ASSUME NEW c \in Caches, BackgroundCleanup(c) PROVE ColdHeld' /\ PendingHeld'
    BY <1>5 DEF BackgroundCleanup
  <1>6. CASE UNCHANGED vars
    BY <1>6 DEF vars
  <1>7. ASSUME NEW t \in Tasks, UnloadStep(t) PROVE ColdHeld' /\ PendingHeld'
    BY <1>7 DEF UnloadStep, UnloadSubscribe, UnloadWaits, UnloadAbsent, UnloadFences,
       UnloadRetires, UnloadTurn, EndUnload
  <1>8. ASSUME NEW t \in Requests, ManyStep(t) PROVE ColdHeld' /\ PendingHeld'
    BY <1>8 DEF ManyStep, ManySubscribe, ManyLock, ManyFence, DrainSubscribe, DrainCheck
  <1>9. ASSUME NEW t \in Requests, RequestStep(t) PROVE ColdHeld' /\ PendingHeld'
    BY <1>9, <1>2, <1>7, <1>8, ColdLoadStep DEF RequestStep
  <1>10. CASE ShutdownStep
    BY <1>10, <1>2, <1>3, <1>7 DEF ShutdownStep
  <1> QED
    BY <1>1, <1>3, <1>4, <1>5, <1>6, <1>9, <1>10 DEF Next

\* What the steps of a request leave alone.
ShutKept ==
    /\ pc'[Shut] = pc[Shut] /\ target'[Shut] = target[Shut] /\ reap'[Shut] = reap[Shut]
    /\ left' = left
    /\ closed' = closed
    /\ closed => cold' \subseteq cold

\* A request does not disturb shutdown, and begins no cold task after Close.
LEMMA RequestKeepsShut ==
    ASSUME TypeInv, NEW t \in Requests, Start(t) \/ Cancel(t) \/ RequestStep(t)
    PROVE  ShutKept
  <1> USE TasksAssumption
      DEF TypeInv, TypeOK, ShutKept, Tasks, At, Goto, Finish, Await, limiterVars, opVars
  <1>1. CASE Start(t) \/ Cancel(t) \/ Changed(t)
    BY <1>1 DEF Start, StartLoad, StartEnsure, StartUnload, StartUnloadMany, Cancel,
       Changed
  <1>2. CASE UnloadStep(t)
    BY <1>2 DEF UnloadStep, UnloadSubscribe, UnloadWaits, UnloadAbsent, UnloadFences,
       UnloadRetires, UnloadTurn, EndUnload
  <1>3. CASE ManyStep(t)
    BY <1>3 DEF ManyStep, ManySubscribe, ManyLock, ManyFence, DrainSubscribe, DrainCheck
  <1>4. CASE CleanupIdle(t) \/ CheckEvict(t) \/ EvictTracked(t)
    <2>1. CASE CleanupIdle(t)
      BY <2>1 DEF CleanupIdle
    <2>2. CASE CheckEvict(t)
      BY <2>2 DEF CheckEvict
    <2>3. CASE EvictTracked(t)
      BY <2>3 DEF EvictTracked
    <2> QED BY <1>4, <2>1, <2>2, <2>3
  <1>5. CASE LockAndSubscribe(t) \/ GetLoadedMiss(t) \/ BeginColdTask(t)
             \/ CheckReserve(t) \/ ReserveSubscribe(t) \/ CountCache(t) \/ Decide(t)
             \/ PickLru(t) \/ LockForLoad(t)
    BY <1>5 DEF LockAndSubscribe, GetLoadedMiss, BeginColdTask, CheckReserve,
       ReserveSubscribe, CountCache, Decide, PickLru, LockForLoad
  <1>6. CASE ProvisionOk(t) \/ LoadPanics(t) \/ Publish(t) \/ DropReservation(t)
             \/ DropLocalReservation(t) \/ EndColdTask(t) \/ EnsureProvisioned(t)
             \/ ReleaseLease(t) \/ InsertLoaded(t)
    BY <1>6 DEF ProvisionOk, LoadPanics, Publish, DropReservation, DropLocalReservation,
       EndColdTask, EnsureProvisioned, ReleaseLease, InsertLoaded
  <1>7. CASE GetLoadedFenced(t) \/ CheckBusy(t) \/ CheckFull(t)
    BY <1>7 DEF GetLoadedFenced, CheckBusy, CheckFull, ReleaseAndWait
  <1>8. CASE ProvisionFails(t) \/ LoadFails(t)
    BY <1>8 DEF ProvisionFails, LoadFails, FailLoad
  <1>9. CASE GetLoadedHit(t) \/ CheckHit(t)
    BY <1>9 DEF GetLoadedHit, CheckHit, Hit
  <1> QED
    BY <1>1, <1>2, <1>3, <1>4, <1>5, <1>6, <1>7, <1>8, <1>9 DEF RequestStep, LoadStep

\* The sweep.
LEMMA SweepStep ==
    ASSUME TypeInv, TypeInv', ShutInv, [Next]_vars
    PROVE  SweepInv'
  <1>1. Shut \in Tasks /\ MemoryStep
    BY MemorySteps DEF Tasks
  <1>2. ASSUME pc[Shut] \in Sweeping PROVE Resident' \subseteq Resident
    <2>1. cold = {}
      BY <1>2 DEF ShutInv, SweepInv
    <2>2. \A t \in Requests : ~InsertLoaded(t)
      BY <2>1 DEF ShutInv, ColdHeld, ColdLabels, Reserving, Admitted, InsertLoaded, At,
         Tasks
    <2> QED BY <1>1, <2>2, ResidentShrinks
  <1>3. ASSUME ShutKept PROVE SweepInv'
    <2>1. /\ pc'[Shut] = pc[Shut] /\ left' = left /\ closed' = closed
          /\ reap'[Shut] = reap[Shut] /\ Swept' = Swept
      BY <1>3 DEF ShutKept, Swept
    <2>2. ASSUME pc[Shut] \in Sweeping
          PROVE  cold' = {} /\ Resident' \subseteq left \cup Swept \cup reap[Shut]
      <3>1. closed /\ cold = {} /\ Resident \subseteq left \cup Swept \cup reap[Shut]
        BY <2>2 DEF ShutInv, SweepInv, Sweeping, Unloading
      <3>2. Resident' \subseteq Resident
        BY <1>2, <2>2
      <3> QED BY <1>3, <3>1, <3>2 DEF ShutKept
    <2>3. /\ pc[Shut] \in {"idle", "closing"} \cup Sweeping
          /\ pc[Shut] # "idle" => closed
          /\ pc[Shut] = "done" => left = {}
      BY DEF ShutInv, SweepInv
    <2> QED BY <2>1, <2>2, <2>3 DEF SweepInv, Sweeping
  <1>4. CASE Close
    BY <1>1, <1>4 DEF Close, At, Goto, ShutInv, SweepInv, Sweeping, Unloading, TypeInv,
       TypeOK
  <1>5. CASE Drained
    <2>1. Resident' \subseteq Models
      BY FiniteCounts DEF TypeInv, TypeOK, Resident, Retiring
    <2> QED
      BY <1>1, <1>5, <2>1 DEF Drained, At, Goto, ShutInv, SweepInv, Sweeping, Unloading,
         TypeInv, TypeOK, limiterVars
  <1>6. CASE UnloadNext
    BY <1>1, <1>2, <1>6 DEF UnloadNext, At, Goto, ShutInv, SweepInv, Swept, Sweeping,
       Unloading, TypeInv, TypeOK, limiterVars
  <1>7. CASE Changed(Shut)
    BY <1>1, <1>2, <1>7 DEF Changed, Waits, AfterWait, Goto, ShutInv, SweepInv, Swept,
       Sweeping, Unloading, TypeInv, TypeOK, limiterVars, opVars
  <1>8. CASE UnloadSubscribe(Shut) \/ UnloadWaits(Shut) \/ UnloadFences(Shut)
    BY <1>1, <1>2, <1>8 DEF UnloadSubscribe, UnloadWaits, UnloadFences, UnloadTurn, At,
       Goto, ShutInv, SweepInv, Swept, Sweeping, Unloading, TypeInv, TypeOK,
       limiterVars, opVars
  <1>9. CASE UnloadAbsent(Shut)
    <2>1. target[Shut] \notin Resident
      BY <1>9 DEF UnloadAbsent, UnloadBlocked, Resident
    <2> QED
      BY <1>1, <1>2, <1>9, <2>1 DEF UnloadAbsent, UnloadTurn, EndUnload, At, Goto, ShutInv,
         SweepInv, Swept, Sweeping, Unloading, TypeInv, TypeOK, limiterVars, opVars
  <1>10. CASE UnloadRetires(Shut)
    BY <1>1, <1>2, <1>10 DEF UnloadRetires, UnloadTurn, EndUnload, Await, At, Goto,
       ShutInv, SweepInv, Swept, Sweeping, Unloading, TypeInv, TypeOK, limiterVars,
       opVars
  <1>11. ASSUME NEW S \in destroying, NEW panicked \in BOOLEAN, Destroyed(S, panicked)
         PROVE  SweepInv'
    <2>1. /\ pc[Shut] # "clean"
      BY DEF ShutInv, SweepInv, Sweeping, Unloading
    <2>2. /\ pc'[Shut] = pc[Shut] /\ target'[Shut] = target[Shut] /\ left' = left
          /\ closed' = closed /\ cold' = cold
          /\ reap'[Shut] = IF reap[Shut] = S THEN {} ELSE reap[Shut]
      BY <1>1, <1>11, <2>1 DEF Destroyed, limiterVars, opVars
    <2>3. Resident' \cap S = {}
      BY <1>11 DEF Destroyed, ShutInv, BatchesDisjoint, Resident, Retiring
    <2> QED
      BY <1>2, <2>2, <2>3 DEF ShutInv, SweepInv, Swept, Sweeping
  <1>12. CASE ShutdownStep
    BY <1>12, <1>5, <1>6, <1>7, <1>8, <1>9, <1>10 DEF ShutdownStep, UnloadStep
  <1>13. ASSUME NEW c \in Caches, BackgroundCleanup(c) PROVE SweepInv'
    BY <1>3, <1>13 DEF BackgroundCleanup, ShutKept, limiterVars, opVars
  <1>14. CASE UNCHANGED vars
    BY <1>3, <1>14 DEF vars, ShutKept
  <1> QED
    BY <1>3, <1>4, <1>11, <1>12, <1>13, <1>14, RequestKeepsShut DEF Next, DestructionStep

\* The invariant of shutdown is inductive, given those of the loads.
LEMMA ShutStep == TypeInv /\ HolderInv /\ ShutInv /\ [Next]_vars => ShutInv'
  <1> SUFFICES ASSUME TypeInv, HolderInv, ShutInv, [Next]_vars PROVE ShutInv'
    OBVIOUS
  <1>1. TypeInv' /\ MemoryStep
    BY TypeStep, MemorySteps
  <1> QED BY <1>1, ColdStep, BatchesStep, SweepStep DEF ShutInv

\* It holds before any task starts.
LEMMA ShutInit == Init => ShutInv
  BY DEF Init, ShutInv, ColdHeld, PendingHeld, BatchesDisjoint, SweepInv, ColdLabels,
     Reserving, Admitted, Sweeping, Unloading, Retiring, Tasks

\* When shutdown has returned, no engine is in memory, none is being loaded and
\* none can be, whatever requests, unloads and clean-ups were under way when it
\* began: the LLM backend can be dropped.
THEOREM ShutdownCorrect == Spec => []ShutdownQuiescent
  <1>1. TypeInv /\ ShutInv => ShutdownQuiescent
    <2> SUFFICES ASSUME TypeInv, ShutInv, pc[Shut] = "done", reap[Shut] = {}
                 PROVE  Resident = {} /\ cold = {} /\ pending = {}
      BY DEF ShutdownQuiescent
    <2>1. Resident = {} /\ cold = {}
      BY DEF ShutInv, SweepInv, Swept, Sweeping, Unloading
    <2>2. pending = {}
      BY <2>1 DEF ShutInv, ColdHeld, PendingHeld, ColdLabels
    <2> QED BY <2>1, <2>2
  <1>2. Init => HolderInv
    BY InvInit
  <1> QED
    BY <1>1, <1>2, ShutInit, ShutStep, TypeInit, TypeStep, HolderStep, PTL DEF Spec

=============================================================================
