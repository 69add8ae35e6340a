------------------------- MODULE ModelResidencyProofs -------------------------
(***************************************************************************)
(* ModelCache implements ModelResidency.  A step of the caches leaves      *)
(* engines and leases alone, or is one of five kinds (MemoryStep), each of *)
(* which is a step of the abstract specification because of the inductive  *)
(* invariant of ModelCacheProofs.                                          *)
(***************************************************************************)
EXTENDS ModelCacheProofs

\* The inductive invariant as its layers are proved.
LayeredInv == TypeInv /\ HolderInv /\ CapacityInv

\* A batch of idle engines is retired.
RetiringStep ==
    \E S \in SUBSET loaded :
        /\ \A m \in S : ~is_active(m)
        /\ RetireAndDestroy(S)
        /\ lease' = lease

\* What a step does to the engines in memory and to the leases.
MemoryStep ==
    \/ UNCHANGED <<loaded, destroying, lease>>
    \/ RetiringStep
    \/ \E t \in Requests : GetLoadedHit(t) \/ CheckHit(t)
    \/ \E t \in Requests : ReleaseLease(t)
    \/ \E t \in Requests : InsertLoaded(t)
    \/ DestructionStep

\* What the abstract specification may do in a step.
ResidencyStep == [Residency!ResNext]_(Residency!resVars)

\* The steps of a load.
LEMMA MemoryLoadStep ==
    ASSUME TypeInv, NEW t \in Requests, LoadStep(t)
    PROVE  MemoryStep
  <1> USE DEF MemoryStep, cacheVars
  <1>1. CASE CleanupIdle(t)
    BY <1>1 DEF CleanupIdle, ExpiredSets, Evictable, OfCache, RetiringStep
  <1>2. CASE CheckEvict(t)
    BY <1>2 DEF CheckEvict, LruVictims, LeastRecent, Evictable, OfCache, RetiringStep
  <1>3. CASE EvictTracked(t)
    <2>1. CASE StillEvictable(victim[t])
      <3>1. {victim[t]} \in SUBSET loaded /\ \A m \in {victim[t]} : ~is_active(m)
        BY <2>1 DEF StillEvictable
      <3> QED BY <1>3, <2>1, <3>1 DEF EvictTracked, RetiringStep
    <2>2. CASE ~StillEvictable(victim[t])
      BY <1>3, <2>2 DEF EvictTracked
    <2> QED BY <2>1, <2>2
  <1>4. CASE LockAndSubscribe(t) \/ GetLoadedMiss(t) \/ BeginColdTask(t)
             \/ CheckReserve(t) \/ ReserveSubscribe(t) \/ CountCache(t) \/ Decide(t)
             \/ PickLru(t) \/ LockForLoad(t) \/ ProvisionOk(t) \/ LoadPanics(t)
             \/ Publish(t) \/ DropReservation(t) \/ DropLocalReservation(t)
             \/ EndColdTask(t) \/ EnsureProvisioned(t)
    BY <1>4 DEF LockAndSubscribe, GetLoadedMiss, BeginColdTask, CheckReserve,
       ReserveSubscribe, CountCache, Decide, PickLru, LockForLoad, ProvisionOk,
       LoadPanics, Publish, DropReservation, DropLocalReservation, EndColdTask,
       EnsureProvisioned
  <1>5. CASE GetLoadedFenced(t) \/ CheckBusy(t) \/ CheckFull(t)
    BY <1>5 DEF GetLoadedFenced, CheckBusy, CheckFull, ReleaseAndWait
  <1>6. CASE ProvisionFails(t) \/ LoadFails(t)
    BY <1>6 DEF ProvisionFails, LoadFails, FailLoad
  <1> QED
    BY <1>1, <1>2, <1>3, <1>4, <1>5, <1>6 DEF LoadStep

\* The steps of unload and unload_many.
LEMMA MemoryUnloadStep ==
    ASSUME TypeInv, NEW t \in Tasks, UnloadStep(t) \/ ManyStep(t)
    PROVE  MemoryStep
  <1> USE DEF MemoryStep, cacheVars
  <1>1. CASE UnloadRetires(t)
    BY <1>1 DEF UnloadRetires, RetiringStep
  <1>2. CASE DrainCheck(t)
    <2>1. CASE \A m \in Keys(t) \cap loaded : ~is_active(m)
      <3>1. Keys(t) \cap loaded \in SUBSET loaded
        OBVIOUS
      <3>2. RetireAndDestroy(Keys(t) \cap loaded) /\ lease' = lease
        BY <1>2, <2>1 DEF DrainCheck
      <3> QED BY <2>1, <3>1, <3>2 DEF RetiringStep
    <2>2. CASE ~ \A m \in Keys(t) \cap loaded : ~is_active(m)
      BY <1>2, <2>2 DEF DrainCheck
    <2> QED BY <2>1, <2>2
  <1>3. CASE UnloadSubscribe(t) \/ UnloadWaits(t) \/ UnloadAbsent(t) \/ UnloadFences(t)
    BY <1>3 DEF UnloadSubscribe, UnloadWaits, UnloadAbsent, UnloadFences
  <1>4. CASE ManySubscribe(t) \/ ManyLock(t) \/ ManyFence(t) \/ DrainSubscribe(t)
    BY <1>4 DEF ManySubscribe, ManyLock, ManyFence, DrainSubscribe
  <1> QED BY <1>1, <1>2, <1>3, <1>4 DEF UnloadStep, ManyStep

\* Every step is a memory step.
LEMMA MemorySteps == TypeInv /\ [Next]_vars => MemoryStep
  <1> SUFFICES ASSUME TypeInv, [Next]_vars PROVE MemoryStep
    OBVIOUS
  <1>1. ASSUME NEW t \in Requests, Start(t) PROVE MemoryStep
    BY <1>1 DEF Start, StartLoad, StartEnsure, StartUnload, StartUnloadMany,
       MemoryStep, cacheVars
  <1>2. ASSUME NEW t \in Requests, Cancel(t) PROVE MemoryStep
    BY <1>2 DEF Cancel, MemoryStep, cacheVars
  <1>3. ASSUME NEW t \in Tasks, Changed(t) PROVE MemoryStep
    BY <1>3 DEF Changed, MemoryStep, cacheVars
  <1>4. CASE Close \/ Drained \/ UnloadNext
    BY <1>4 DEF Close, Drained, UnloadNext, MemoryStep, cacheVars
  <1>5. CASE DestructionStep
    BY <1>5 DEF MemoryStep
  <1>6. ASSUME NEW c \in Caches, BackgroundCleanup(c) PROVE MemoryStep
    BY <1>6 DEF BackgroundCleanup, ExpiredSets, Evictable, OfCache, RetiringStep,
       MemoryStep
  <1>7. CASE UNCHANGED vars
    BY <1>7 DEF vars, MemoryStep
  <1>8. ASSUME NEW t \in Requests, RequestStep(t) PROVE MemoryStep
    BY <1>8, <1>3, MemoryLoadStep, MemoryUnloadStep DEF RequestStep, Tasks
  <1>9. CASE ShutdownStep
    BY <1>9, <1>3, <1>4, MemoryUnloadStep DEF ShutdownStep, Tasks
  <1> QED
    BY <1>1, <1>2, <1>4, <1>5, <1>6, <1>7, <1>8, <1>9 DEF Next

\* An engine is inserted into free memory: the reservation of its loader is
\* counted in both limits, and the model was not in memory.
LEMMA InsertAdmits ==
    ASSUME LayeredInv, NEW t \in Requests, InsertLoaded(t)
    PROVE  Residency!Admit(t, target[t])
  <1> DEFINE m == target[t]
             c == CacheOf[m]
  <1>1. /\ t \in Tasks /\ pc[t] = "load" /\ t \in reservations
        /\ m \in Models /\ m \in pending /\ m \notin Resident /\ lease[t] = NoModel
    BY DEF LayeredInv, TypeInv, HolderInv, TargetsKnown, ReservationsHeld,
       TargetsAbsent, LeasesHeld, Reserving, Admitted, Unloaded, Leasing,
       InsertLoaded, At, Tasks
  <1>2. /\ Resident \subseteq Models /\ IsFiniteSet(Resident)
        /\ \A S \in SUBSET Models : IsFiniteSet(S) /\ Cardinality(S) \in Nat
        /\ \A S, T \in SUBSET Models : S \subseteq T => Cardinality(S) <= Cardinality(T)
    BY FiniteCounts DEF LayeredInv
  <1>3. \A S \in SUBSET Models : m \notin S => Cardinality(S \cup {m}) = Cardinality(S) + 1
    BY <1>1, <1>2, FS_AddElement
  <1>4. Cardinality(Resident) < GlobalMax
    <2>1. Claims \subseteq Models
      BY <1>2 DEF Claims, LayeredInv, HolderInv, ReservationsHeld, TypeInv, TypeOK,
         TargetsKnown, Reserving
    <2>2. Resident \cup {m} \subseteq Claims
      BY <1>1 DEF Claims
    <2>3. /\ Cardinality(Resident) + 1 <= Cardinality(Claims)
          /\ Cardinality(Resident) \in Nat /\ Cardinality(Claims) \in Nat
      <3>1. Cardinality(Resident \cup {m}) = Cardinality(Resident) + 1
        BY <1>1, <1>2, <1>3
      <3>2. Cardinality(Resident \cup {m}) <= Cardinality(Claims)
        BY <1>2, <2>1, <2>2
      <3> QED BY <3>1, <3>2, <2>1, <1>2
    <2> QED BY <2>3, LimitsAssumption DEF LayeredInv, CapacityInv, ClaimsFit
  <1>5. Cardinality({x \in Resident : CacheOf[x] = c}) < MaxLoaded[c]
    <2> DEFINE R == {x \in Resident : CacheOf[x] = c}
               P == OfCache(Resident \cup pending, c)
    <2>1. c \in Caches /\ MaxLoaded[c] \in Nat
      BY <1>1, ModelsAssumption, LimitsAssumption
    <2>2. /\ R \subseteq Models /\ P \subseteq Models /\ m \notin R
          /\ R \cup {m} \subseteq P
      BY <1>1, <1>2 DEF OfCache, LayeredInv, TypeInv, TypeOK
    <2>3. Cardinality(P) <= MaxLoaded[c]
      BY <2>1 DEF LayeredInv, CapacityInv, LocalCapacity
    <2>4. Cardinality(R \cup {m}) = Cardinality(R) + 1
      BY <2>2, <1>3
    <2>5. Cardinality(R \cup {m}) <= Cardinality(P)
      BY <2>2, <1>2
    <2>6. Cardinality(R) \in Nat /\ Cardinality(P) \in Nat
      BY <2>2, <1>2
    <2> HIDE DEF R, P
    <2>7. Cardinality(R) < MaxLoaded[c]
      BY <2>1, <2>3, <2>4, <2>5, <2>6
    <2> QED BY <2>7 DEF R
  <1>6. /\ loaded' = loaded \cup {m} /\ lease' = [lease EXCEPT ![t] = m]
        /\ Retiring' = Retiring
    BY DEF InsertLoaded, Retiring
  <1>7. Residency!InMemory = Resident
    BY DEF Residency!InMemory, Resident
  <1>8. \A S : Residency!Cardinality(S) = Cardinality(S)
    BY DEF Residency!Cardinality, Cardinality
  <1> QED BY <1>1, <1>4, <1>5, <1>6, <1>7, <1>8 DEF Residency!Admit

\* Under the invariant, a memory step is a step of the abstract specification.
LEMMA MemoryRefines == LayeredInv /\ MemoryStep => ResidencyStep
  <1> SUFFICES ASSUME LayeredInv, MemoryStep PROVE ResidencyStep
    OBVIOUS
  <1> USE DEF ResidencyStep
  <1>1. CASE UNCHANGED <<loaded, destroying, lease>>
    BY <1>1 DEF Residency!resVars, Retiring
  <1>2. CASE RetiringStep
    <2>1. PICK S \in SUBSET loaded :
              /\ \A m \in S : ~is_active(m)
              /\ RetireAndDestroy(S)
              /\ lease' = lease
      BY <1>2 DEF RetiringStep
    <2>2. Retiring' = Retiring \cup S /\ loaded' = loaded \ S
      BY <2>1 DEF RetireAndDestroy, Retiring
    <2>3. Residency!Retire(S)
      BY <2>1, <2>2 DEF Residency!Retire, Residency!InUse, is_active
    <2> QED BY <2>3 DEF Residency!ResNext
  <1>3. ASSUME NEW t \in Requests, GetLoadedHit(t) \/ CheckHit(t) PROVE ResidencyStep
    <2>1. /\ t \in Tasks /\ pc[t] \in {"hotCheck", "check"}
          /\ target[t] \in loaded /\ lease' = [lease EXCEPT ![t] = target[t]]
          /\ loaded' = loaded /\ Retiring' = Retiring
      BY <1>3 DEF GetLoadedHit, CheckHit, Hit, At, Tasks, Retiring
    <2>2. target[t] \in Models /\ lease[t] = NoModel
      BY <2>1 DEF LayeredInv, TypeInv, TypeOK, HolderInv, LeasesHeld, Leasing
    <2>3. Residency!Lease(t, target[t])
      BY <2>1, <2>2 DEF Residency!Lease
    <2> QED BY <2>1, <2>2, <2>3 DEF Residency!ResNext
  <1>4. ASSUME NEW t \in Requests, ReleaseLease(t) PROVE ResidencyStep
    <2>1. /\ t \in Tasks /\ lease[t] # NoModel
          /\ lease' = [lease EXCEPT ![t] = NoModel]
          /\ loaded' = loaded /\ Retiring' = Retiring
      BY <1>4, ModelsAssumption
         DEF ReleaseLease, At, Tasks, Retiring, LayeredInv, TypeInv, TargetsKnown
    <2>2. Residency!Release(t)
      BY <2>1 DEF Residency!Release
    <2> QED BY <2>1, <2>2 DEF Residency!ResNext
  <1>5. ASSUME NEW t \in Requests, InsertLoaded(t) PROVE ResidencyStep
    <2>1. t \in Tasks /\ target[t] \in Models
      BY <1>5 DEF InsertLoaded, At, Tasks, LayeredInv, TypeInv, TargetsKnown, Reserving,
         Admitted
    <2> QED BY <1>5, <2>1, InsertAdmits DEF Residency!ResNext
  <1>6. CASE DestructionStep
    <2>1. PICK S \in destroying, panicked \in BOOLEAN : Destroyed(S, panicked)
      BY <1>6 DEF DestructionStep
    <2>2. /\ destroying' = destroying \ {S} /\ loaded' = loaded /\ lease' = lease
      BY <2>1 DEF Destroyed
    <2>3. Retiring' \subseteq Retiring
      BY <2>2 DEF Retiring
    <2>4. Residency!Discard(Retiring \ Retiring')
      BY <2>2, <2>3 DEF Residency!Discard
    <2> QED BY <2>4 DEF Residency!ResNext
  <1> QED BY <1>1, <1>2, <1>3, <1>4, <1>5, <1>6 DEF MemoryStep

\* The caches keep the promises of ModelResidency for every number of services,
\* models, tasks and limits: an engine is inserted by insert_loaded only into
\* free memory, lent out only while it is there, and retired only when nobody
\* uses it, although every one of these decisions rests on what an earlier
\* section of the code has read.
THEOREM RefinesResidency == Spec => ResidencySpec
  <1>1. Init => Residency!ResInit
    BY DEF Init, Residency!ResInit, Retiring
  <1>2. LayeredInv /\ [Next]_vars => ResidencyStep
    BY MemorySteps, MemoryRefines DEF LayeredInv
  <1>3. Init => LayeredInv
    BY InvInit DEF LayeredInv
  <1>4. LayeredInv /\ [Next]_vars => LayeredInv'
    BY InvStep DEF LayeredInv
  <1> QED
    BY <1>1, <1>2, <1>3, <1>4, PTL DEF Spec, ResidencySpec, Residency!ResSpec,
       ResidencyStep

=============================================================================
