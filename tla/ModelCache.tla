------------------------------ MODULE ModelCache ------------------------------
(***************************************************************************)
(* Model residency in orchion-server: the per-service model caches         *)
(* (ModelCache), the process-wide GlobalModelCacheLimiter and the          *)
(* ResidencyDomain they share, as the tasks of the server drive them:      *)
(* requests that lease a model (loading it when it is cold), explicit      *)
(* unloads of one model or of all runtimes of an OCR deployment, lazy      *)
(* provisioning, idle clean-up and the shutdown sequence.                  *)
(*                                                                         *)
(* Every .await of the code at which another task can change what the task *)
(* has read is a step boundary here.  A section under the `inner` mutex    *)
(* (and under capacity_lock, whose holders only ever wait for `inner`) is  *)
(* one step.  The per-model `loading` mutex is held across awaits and is   *)
(* the variable `lock`.                                                    *)
(*                                                                         *)
(* A request performs one operation after the other (Rest = "idle") or, for *)
(* the questions about what must eventually happen, one only.              *)
(***************************************************************************)
EXTENDS Integers, FiniteSets, Sequences

CONSTANTS
    Requests,      \* tasks that perform one operation each
    Shut,          \* the task that runs AppState::shutdown
    Models,        \* the configured models of all services
    Caches,        \* one ModelCache per service
    CacheOf,       \* the cache that serves a model
    MaxLoaded,     \* ModelCache::max_loaded, per cache
    GlobalMax,     \* GlobalModelCacheLimiter::max_loaded
    Provisioners,  \* the caches built with a provisioner
    Groups,        \* runtime keys of an OCR deployment, in key order
    Ops,           \* the operations the requests of an instance perform
    Rest,          \* "idle" when a task performs any number of operations,
                   \* "done" when it performs one
    NoModel,
    NoTask

Tasks == Requests \cup {Shut}

ASSUME TasksAssumption ==
    /\ IsFiniteSet(Requests)
    /\ Shut \notin Requests
    /\ NoTask \notin Tasks
    /\ Rest \in {"idle", "done"}

ASSUME ModelsAssumption ==
    /\ IsFiniteSet(Models)
    /\ NoModel \notin Models
    /\ CacheOf \in [Models -> Caches]
    /\ Provisioners \subseteq Caches
    /\ Groups \subseteq Seq(Models)

\* The settings reject a max_loaded of zero.
ASSUME LimitsAssumption ==
    /\ MaxLoaded \in [Caches -> Nat \ {0}]
    /\ GlobalMax \in Nat \ {0}

VARIABLES
    loaded,        \* keys of ModelCacheState::loaded
    destroying,    \* the batches destroy_retired is dropping
    draining,      \* ModelCacheState::draining
    pending,       \* ModelCache::pending_loads
    provisioned,   \* keys of ModelCacheState::provisioned
    failure,       \* ModelCacheState::load_failures
    older,         \* <<a, b>>: loaded model a was last used before b
    lock,          \* holder of the model's `loading` mutex
    reservations,  \* tasks that hold a GlobalReservation
    cold,          \* tasks that hold a ColdTaskGuard
    closed,        \* GlobalLimiterState::closed
    fresh,         \* tasks not notified since their residency.subscribe()
    pc,            \* where each task is
    target,        \* the model the task's operation is about
    group,         \* the keys of its unload_many
    lease,         \* the model whose lease it holds
    owns,          \* tasks whose owns_drain is set
    reap,          \* the batch whose destruction it awaits
    seen,          \* residents counted so far by loaded_len
    todo,          \* caches loaded_len has not read yet
    victim,        \* the lru_entry about to be evicted
    left           \* models unload_all_models has not unloaded yet

cacheVars == <<loaded, destroying, draining, older>>
loadVars == <<pending, provisioned, failure>>
limiterVars == <<reservations, cold, closed>>
opVars == <<target, group>>
scanVars == <<seen, todo, victim>>
vars == <<loaded, destroying, draining, pending, provisioned, failure, older,
          lock, reservations, cold, closed, fresh, pc, target, group, lease,
          owns, reap, seen, todo, victim, left>>

-----------------------------------------------------------------------------
(***************************************************************************)
(* What a ModelCacheState answers.                                         *)
(***************************************************************************)

OfCache(S, c) == {m \in S : CacheOf[m] = c}

\* A model stays in `retiring` until its batch is destroyed.
Retiring == UNION destroying

Resident == loaded \cup Retiring

\* resident_len of one cache.
resident_len(c) == Cardinality(OfCache(Resident, c))

is_active(m) == \E t \in Tasks : lease[t] = m

\* Faulty variant of Evictable: models in use are candidates too.
EvictableInUse(c) == OfCache(loaded, c) \ draining

\* Neither lent out nor fenced by an unload.
Evictable(c) == {m \in OfCache(loaded, c) : m \notin draining /\ ~is_active(m)}

LeastRecent(S) == {m \in S : \A x \in S : <<x, m>> \notin older}

\* The idle models of a cache that have been unused for idle_timeout: when a
\* model has expired, so has every idle model used before it.
ExpiredSets(c) ==
    {S \in SUBSET Evictable(c) :
        \A m \in S : \A x \in Evictable(c) : <<x, m>> \in older => x \in S}

-----------------------------------------------------------------------------
(***************************************************************************)
(* State changes shared by the operations.                                 *)
(***************************************************************************)

Goto(t, label) == pc' = [pc EXCEPT ![t] = label]

\* The operation of t has returned.
Finish(t) ==
    /\ Goto(t, Rest)
    /\ target' = [target EXCEPT ![t] = NoModel]
    /\ group' = [group EXCEPT ![t] = <<>>]

\* ResidencyDomain::notify: every receiver now has an unseen version.
Notify == fresh' = {}

Subscribe(t) == fresh' = fresh \cup {t}

\* The receiver of t is not consulted any more.
Unsubscribe(t) == fresh' = fresh \ {t}

LockModel(t, m) ==
    /\ lock[m] = NoTask
    /\ lock' = [lock EXCEPT ![m] = t]

UnlockModel(m) == lock' = [lock EXCEPT ![m] = NoTask]

\* m becomes the most recently used of the models in S.
TouchIn(S, m) ==
    older' = {p \in older : p[1] # m /\ p[2] # m}
                 \cup {<<x, m>> : x \in S \ {m}}

\* ModelCacheState::retire of a batch and the start of destroy_retired, which
\* returns at once when there is nothing to destroy.  The engines are dropped
\* by a task of their own; t waits for it.
RetireAndDestroy(S) ==
    /\ loaded' = loaded \ S
    /\ older' = {p \in older : p[1] \notin S /\ p[2] \notin S}
    /\ destroying' = IF S = {} THEN destroying ELSE destroying \cup {S}

Await(t, S) == reap' = [reap EXCEPT ![t] = S]

\* t can run: it is not waiting for a destructor.
At(t, label) == pc[t] = label /\ reap[t] = {}

-----------------------------------------------------------------------------
(***************************************************************************)
(* Taking a lease: GlobalModelCacheLimiter::get_or_load.                   *)
(***************************************************************************)

StartLoad(t, m) ==
    /\ "load" \in Ops
    /\ At(t, "idle")
    /\ Goto(t, "hotClean")
    /\ target' = [target EXCEPT ![t] = m]
    /\ UNCHANGED <<cacheVars, loadVars, lock, limiterVars, fresh, group, lease,
                   owns, reap, scanVars, left>>

\* cleanup_idle, which get_loaded runs once and get_or_load_after on every
\* turn of its loop.
CleanupIdle(t) ==
    /\ At(t, "hotClean") \/ At(t, "clean")
    /\ \E S \in ExpiredSets(CacheOf[target[t]]) :
          /\ RetireAndDestroy(S)
          /\ Await(t, S)
    /\ Goto(t, IF pc[t] = "hotClean" THEN "hotLock" ELSE "lock")
    /\ UNCHANGED <<draining, loadVars, lock, limiterVars, fresh, opVars, lease,
                   owns, scanVars, left>>

\* loading.lock_owned().await and then residency.subscribe().
LockAndSubscribe(t) ==
    /\ At(t, "hotLock") \/ At(t, "lock")
    /\ LockModel(t, target[t])
    /\ Subscribe(t)
    /\ Goto(t, IF pc[t] = "hotLock" THEN "hotCheck" ELSE "check")
    /\ UNCHANGED <<cacheVars, loadVars, limiterVars, opVars, lease, owns, reap,
                   scanVars, left>>

\* A model that is being unloaded cannot be leased or loaded.
Fenced(m) == m \in draining \/ m \in Retiring

\* Faulty variant of Hit: a model whose unload waits for its leases is lent out.
HitDespiteDrain(t) ==
    LET m == target[t] IN
    /\ m \in loaded
    /\ lease' = [lease EXCEPT ![t] = m]
    /\ TouchIn(loaded, m)
    /\ UnlockModel(m)
    /\ Unsubscribe(t)
    /\ Goto(t, IF t \in cold THEN "endCold" ELSE "using")
    /\ UNCHANGED <<loaded, destroying, draining, loadVars, limiterVars, opVars,
                   owns, reap, scanVars, left>>

\* A resident model is touched and lent out.  A task that is already a cold
\* task drops its ColdTaskGuard next.
Hit(t) ==
    LET m == target[t] IN
    /\ ~Fenced(m)
    /\ m \in loaded
    /\ lease' = [lease EXCEPT ![t] = m]
    /\ TouchIn(loaded, m)
    /\ UnlockModel(m)
    /\ Unsubscribe(t)
    /\ Goto(t, IF t \in cold THEN "endCold" ELSE "using")
    /\ UNCHANGED <<loaded, destroying, draining, loadVars, limiterVars, opVars,
                   owns, reap, scanVars, left>>

GetLoadedHit(t) == At(t, "hotCheck") /\ Hit(t)

\* changes.changed().await: the lock is released first.
ReleaseAndWait(t, label) ==
    /\ UnlockModel(target[t])
    /\ Goto(t, label)
    /\ UNCHANGED <<cacheVars, loadVars, limiterVars, fresh, opVars, lease, owns,
                   reap, scanVars, left>>

GetLoadedFenced(t) ==
    /\ At(t, "hotCheck")
    /\ Fenced(target[t])
    /\ ReleaseAndWait(t, "hotWait")

GetLoadedMiss(t) ==
    /\ At(t, "hotCheck")
    /\ ~Fenced(target[t])
    /\ target[t] \notin loaded
    /\ UnlockModel(target[t])
    /\ Unsubscribe(t)
    /\ Goto(t, IF t \in cold THEN "clean" ELSE "spawn")
    /\ UNCHANGED <<cacheVars, loadVars, limiterVars, opVars, lease, owns, reap,
                   scanVars, left>>

\* begin_cold_task: refused once the limiter is closed.
BeginColdTask(t) ==
    /\ At(t, "spawn")
    /\ IF closed
       THEN Finish(t) /\ UNCHANGED cold
       ELSE Goto(t, "hotClean") /\ cold' = cold \cup {t} /\ UNCHANGED opVars
    /\ UNCHANGED <<cacheVars, loadVars, lock, reservations, closed, fresh, lease,
                   owns, reap, scanVars, left>>

\* The request's future is dropped before the load was spawned; what its
\* clean-up retired is still destroyed.
Cancel(t) ==
    /\ t \notin cold
    /\ pc[t] \in {"hotClean", "hotLock", "hotCheck", "hotWait", "spawn"}
    /\ lock' = [m \in Models |-> IF lock[m] = t THEN NoTask ELSE lock[m]]
    /\ Await(t, {})
    /\ Unsubscribe(t)
    /\ Finish(t)
    /\ UNCHANGED <<cacheVars, loadVars, limiterVars, lease, owns, scanVars, left>>

\* The label a task continues at once its residency receiver has changed.
Waits == {"hotWait", "wait", "evictWait", "unloadWait", "manyWait", "drainWait"}

AfterWait(label) ==
    CASE label = "hotWait" -> "hotLock"
      [] label = "wait" -> "clean"
      [] label = "evictWait" -> "reserve"
      [] label = "unloadWait" -> "unload"
      [] label = "manyWait" -> "many"
      [] label = "drainWait" -> "drain"

HasChanged(t) == t \notin fresh

Changed(t) ==
    /\ pc[t] \in Waits
    /\ HasChanged(t)
    /\ Goto(t, AfterWait(pc[t]))
    /\ UNCHANGED <<cacheVars, loadVars, lock, limiterVars, fresh, opVars, lease,
                   owns, reap, scanVars, left>>

-----------------------------------------------------------------------------
(***************************************************************************)
(* get_or_load_after: local admission.                                     *)
(***************************************************************************)

CheckHit(t) == At(t, "check") /\ Hit(t)

\* The model is being unloaded, or another task is loading it.
CheckBusy(t) ==
    /\ At(t, "check")
    /\ \/ Fenced(target[t])
       \/ target[t] \notin loaded /\ target[t] \in pending
    /\ ReleaseAndWait(t, "wait")

\* The model is absent and nobody loads or unloads it.
Absent(m) == ~Fenced(m) /\ m \notin loaded /\ m \notin pending

at_capacity(c) ==
    resident_len(c) + Cardinality(OfCache(pending, c)) >= MaxLoaded[c]

\* retire_lru: nothing when the cache is below its limit without the loads in
\* flight, else a least recently used idle model.
LruVictims(c) ==
    IF resident_len(c) < MaxLoaded[c] THEN {} ELSE LeastRecent(Evictable(c))

CheckFull(t) ==
    LET c == CacheOf[target[t]] IN
    /\ At(t, "check")
    /\ Absent(target[t])
    /\ at_capacity(c)
    /\ LruVictims(c) = {}
    /\ ReleaseAndWait(t, "wait")

CheckEvict(t) ==
    LET c == CacheOf[target[t]] IN
    /\ At(t, "check")
    /\ Absent(target[t])
    /\ at_capacity(c)
    /\ \E v \in LruVictims(c) : RetireAndDestroy({v}) /\ Await(t, {v})
    /\ UnlockModel(target[t])
    /\ Unsubscribe(t)
    /\ Goto(t, "clean")
    /\ UNCHANGED <<draining, loadVars, limiterVars, opVars, lease, owns, scanVars,
                   left>>

\* The local reservation: pending_loads gains the model.
CheckReserve(t) ==
    /\ At(t, "check")
    /\ Absent(target[t])
    /\ ~at_capacity(CacheOf[target[t]])
    /\ pending' = pending \cup {target[t]}
    /\ UnlockModel(target[t])
    /\ Unsubscribe(t)
    /\ Goto(t, "reserve")
    /\ UNCHANGED <<cacheVars, provisioned, failure, limiterVars, opVars, lease,
                   owns, reap, scanVars, left>>

-----------------------------------------------------------------------------
(***************************************************************************)
(* GlobalModelCacheLimiter::reserve: global admission.  The residents are  *)
(* counted cache by cache, without a lock over all of them; the residency  *)
(* version tells whether the count may be stale.                           *)
(***************************************************************************)

ReserveSubscribe(t) ==
    /\ At(t, "reserve")
    /\ Subscribe(t)
    /\ seen' = [seen EXCEPT ![t] = {}]
    /\ todo' = [todo EXCEPT ![t] = Caches]
    /\ Goto(t, "count")
    /\ UNCHANGED <<cacheVars, loadVars, lock, limiterVars, opVars, lease, owns,
                   reap, victim, left>>

\* One iteration of loaded_len.
CountCache(t) ==
    /\ At(t, "count")
    /\ \E c \in todo[t] :
          /\ seen' = [seen EXCEPT ![t] = @ \cup OfCache(Resident, c)]
          /\ todo' = [todo EXCEPT ![t] = @ \ {c}]
    /\ UNCHANGED <<cacheVars, loadVars, lock, limiterVars, fresh, pc, opVars, lease,
                   owns, reap, victim, left>>

\* Faulty variant of Claimed: loads admitted earlier are not counted.
Counted(t) == Cardinality(seen[t])

\* What the limiter compares with its max_loaded.
Claimed(t) == Cardinality(seen[t]) + Cardinality(reservations)

\* The decision under the limiter's state lock.
Decide(t) ==
    /\ At(t, "count")
    /\ todo[t] = {}
    /\ \/ /\ HasChanged(t)
          /\ Goto(t, "reserve")
          /\ UNCHANGED <<reservations, fresh>>
       \/ /\ ~HasChanged(t)
          /\ Claimed(t) < GlobalMax
          /\ reservations' = reservations \cup {t}
          /\ Unsubscribe(t)
          /\ Goto(t, "loadLock")
       \/ /\ ~HasChanged(t)
          /\ Claimed(t) >= GlobalMax
          /\ Goto(t, "pick")
          /\ UNCHANGED <<reservations, fresh>>
    /\ seen' = [seen EXCEPT ![t] = {}]
    /\ UNCHANGED <<cacheVars, loadVars, lock, cold, closed, opVars, lease, owns,
                   reap, todo, victim, left>>

\* lru_entry: the caches are read one after the other, so their candidates may
\* be compared by instants that are stale by then; any of them may win.
PickLru(t) ==
    LET candidates == UNION {LeastRecent(Evictable(c)) : c \in Caches} IN
    /\ At(t, "pick")
    /\ IF candidates = {}
       THEN Goto(t, "evictWait") /\ UNCHANGED victim
       ELSE /\ \E v \in candidates : victim' = [victim EXCEPT ![t] = v]
            /\ Goto(t, "evict")
    /\ UNCHANGED <<cacheVars, loadVars, lock, limiterVars, fresh, opVars, lease,
                   owns, reap, seen, todo, left>>

\* evict_tracked looks at the entry again before it retires it.
StillEvictable(m) == m \in loaded /\ m \notin draining /\ ~is_active(m)

EvictTracked(t) ==
    LET v == victim[t] IN
    /\ At(t, "evict")
    /\ IF StillEvictable(v)
       THEN /\ RetireAndDestroy({v})
            /\ Await(t, {v})
            /\ Unsubscribe(t)
            /\ Goto(t, "reserve")
       ELSE /\ Goto(t, "evictWait")
            /\ UNCHANGED <<loaded, destroying, older, reap, fresh>>
    /\ victim' = [victim EXCEPT ![t] = NoModel]
    /\ UNCHANGED <<draining, loadVars, lock, limiterVars, opVars, lease, owns, seen,
                   todo, left>>

-----------------------------------------------------------------------------
(***************************************************************************)
(* get_or_load_after: provisioning, loading and publication.               *)
(***************************************************************************)

LockForLoad(t) ==
    /\ At(t, "loadLock") \/ At(t, "ensureLock")
    /\ LockModel(t, target[t])
    /\ Goto(t, IF pc[t] = "loadLock" THEN "provision" ELSE "ensure")
    /\ UNCHANGED <<cacheVars, loadVars, limiterVars, fresh, opVars, lease, owns,
                   reap, scanVars, left>>

\* What provision_locked records on success.
Provisioned(m) ==
    IF CacheOf[m] \in Provisioners THEN provisioned \cup {m} ELSE provisioned

ProvisionOk(t) ==
    /\ At(t, "provision")
    /\ provisioned' = Provisioned(target[t])
    /\ Goto(t, "load")
    /\ UNCHANGED <<cacheVars, pending, failure, lock, limiterVars, fresh, opVars,
                   lease, owns, reap, scanVars, left>>

\* latch_load_failure, and the load guard is dropped before the reservations.
FailLoad(t, phase) ==
    /\ failure' = [failure EXCEPT ![target[t]] = phase]
    /\ Notify
    /\ UnlockModel(target[t])
    /\ Goto(t, "unwind")
    /\ UNCHANGED <<cacheVars, pending, provisioned, limiterVars, opVars, lease,
                   owns, reap, scanVars, left>>

\* A model that was provisioned before is not provisioned again.
ProvisionFails(t) ==
    /\ At(t, "provision")
    /\ target[t] \notin provisioned
    /\ FailLoad(t, "provision")

LoadFails(t) ==
    /\ At(t, "load")
    /\ FailLoad(t, "load")

\* The loader panics: the guards are dropped and nothing is latched.
LoadPanics(t) ==
    /\ At(t, "load")
    /\ UnlockModel(target[t])
    /\ Goto(t, "unwind")
    /\ UNCHANGED <<cacheVars, loadVars, limiterVars, fresh, opVars, lease, owns,
                   reap, scanVars, left>>

\* insert_loaded up to the release of `inner`: the model is resident and lent
\* to the loader, and nobody has been notified yet.
ClearFailure(m) == failure' = [failure EXCEPT ![m] = "none"]

InsertLoaded(t) ==
    LET m == target[t] IN
    /\ At(t, "load")
    /\ loaded' = loaded \cup {m}
    /\ lease' = [lease EXCEPT ![t] = m]
    /\ TouchIn(loaded, m)
    /\ ClearFailure(m)
    /\ Goto(t, "publish")
    /\ UNCHANGED <<destroying, draining, pending, provisioned, lock, limiterVars,
                   fresh, opVars, owns, reap, scanVars, left>>

\* Faulty variant of Publish: the insertion is not announced.
PublishSilently(t) ==
    /\ At(t, "publish")
    /\ UnlockModel(target[t])
    /\ Goto(t, "unwind")
    /\ UNCHANGED <<cacheVars, loadVars, limiterVars, fresh, opVars, lease, owns,
                   reap, scanVars, left>>

Publish(t) ==
    /\ At(t, "publish")
    /\ Notify
    /\ UnlockModel(target[t])
    /\ Goto(t, "unwind")
    /\ UNCHANGED <<cacheVars, loadVars, limiterVars, opVars, lease, owns, reap,
                   scanVars, left>>

\* Drop of the GlobalReservation, then of the LocalLoadReservation, then of
\* the ColdTaskGuard.
DropReservation(t) ==
    /\ At(t, "unwind")
    /\ reservations' = reservations \ {t}
    /\ Notify
    /\ Goto(t, "unpend")
    /\ UNCHANGED <<cacheVars, loadVars, lock, cold, closed, opVars, lease, owns,
                   reap, scanVars, left>>

DropLocalReservation(t) ==
    /\ At(t, "unpend")
    /\ pending' = pending \ {target[t]}
    /\ Notify
    /\ Goto(t, "endCold")
    /\ UNCHANGED <<cacheVars, provisioned, failure, lock, limiterVars, opVars,
                   lease, owns, reap, scanVars, left>>

\* Faulty variant of EndColdTask: a failed load keeps its ColdTaskGuard.
LeakColdTask(t) ==
    /\ At(t, "endCold")
    /\ IF lease[t] = NoModel
       THEN Finish(t) /\ UNCHANGED cold
       ELSE Goto(t, "using") /\ cold' = cold \ {t} /\ UNCHANGED opVars
    /\ UNCHANGED <<cacheVars, loadVars, lock, reservations, closed, fresh, lease,
                   owns, reap, scanVars, left>>

EndColdTask(t) ==
    /\ At(t, "endCold")
    /\ cold' = cold \ {t}
    /\ IF lease[t] = NoModel
       THEN Finish(t)
       ELSE Goto(t, "using") /\ UNCHANGED opVars
    /\ UNCHANGED <<cacheVars, loadVars, lock, reservations, closed, fresh, lease,
                   owns, reap, scanVars, left>>

\* Faulty variant of LastHolder: the end of the last lease is not announced.
NeverLastHolder(t) == FALSE

\* Drop of the ModelLease: last_used is renewed, and the last holder notifies.
LastHolder(t) == \A u \in Tasks \ {t} : lease[u] # lease[t]

ReleaseLease(t) ==
    /\ At(t, "using")
    /\ lease' = [lease EXCEPT ![t] = NoModel]
    /\ TouchIn(loaded, lease[t])
    /\ IF LastHolder(t) THEN Notify ELSE UNCHANGED fresh
    /\ Finish(t)
    /\ UNCHANGED <<loaded, destroying, draining, loadVars, lock, limiterVars, owns,
                   reap, scanVars, left>>

\* ensure_provisioned.
StartEnsure(t, m) ==
    /\ "ensure" \in Ops
    /\ At(t, "idle")
    /\ Goto(t, "ensureLock")
    /\ target' = [target EXCEPT ![t] = m]
    /\ UNCHANGED <<cacheVars, loadVars, lock, limiterVars, fresh, group, lease,
                   owns, reap, scanVars, left>>

EnsureProvisioned(t) ==
    /\ At(t, "ensure")
    /\ \/ provisioned' = Provisioned(target[t])
       \/ target[t] \notin provisioned /\ UNCHANGED provisioned
    /\ UnlockModel(target[t])
    /\ Finish(t)
    /\ UNCHANGED <<cacheVars, pending, failure, limiterVars, fresh, lease, owns,
                   reap, scanVars, left>>

-----------------------------------------------------------------------------
(***************************************************************************)
(* destroy_retired and the idle clean-up task.                             *)
(***************************************************************************)

\* The engines of a batch have been dropped.  A destructor that panicked
\* fails the load that evicted the batch for local capacity; every other
\* caller only logs it or has nothing left to do.
Destroyed(S, panicked) ==
    /\ destroying' = destroying \ {S}
    /\ Notify
    /\ reap' = [t \in Tasks |-> IF reap[t] = S THEN {} ELSE reap[t]]
    /\ pc' = [t \in Tasks |->
                 IF panicked /\ reap[t] = S /\ pc[t] = "clean"
                 THEN "endCold" ELSE pc[t]]
    /\ UNCHANGED <<loaded, draining, older, loadVars, lock, limiterVars, opVars,
                   lease, owns, scanVars, left>>

\* cleanup_idle_models of the background task, which stops with the server.
BackgroundCleanup(c) ==
    /\ pc[Shut] \in {"idle", "closing"}
    /\ \E S \in ExpiredSets(c) \ {{}} : RetireAndDestroy(S)
    /\ UNCHANGED <<draining, loadVars, lock, limiterVars, fresh, pc, opVars, lease,
                   owns, reap, scanVars, left>>

-----------------------------------------------------------------------------
(***************************************************************************)
(* unload of one model.                                                    *)
(***************************************************************************)

StartUnload(t, m) ==
    /\ "unload" \in Ops
    /\ At(t, "idle")
    /\ Goto(t, "unload")
    /\ target' = [target EXCEPT ![t] = m]
    /\ UNCHANGED <<cacheVars, loadVars, lock, limiterVars, fresh, group, lease,
                   owns, reap, scanVars, left>>

UnloadSubscribe(t) ==
    /\ At(t, "unload")
    /\ Subscribe(t)
    /\ Goto(t, "unloadCheck")
    /\ UNCHANGED <<cacheVars, loadVars, lock, limiterVars, opVars, lease, owns, reap,
                   scanVars, left>>

\* Faulty variant of UnloadBlocked: a second unload joins the first one.
UnloadJoins(t) == target[t] \in Retiring \/ target[t] \in pending

\* Another unload or a load of the model is under way.
UnloadBlocked(t) ==
    LET m == target[t] IN
    \/ m \in Retiring
    \/ m \in draining /\ t \notin owns
    \/ m \in pending

\* An unload of shutdown is followed by the next one.
EndUnload(t) ==
    IF t = Shut THEN Goto(t, "sweep") /\ UNCHANGED opVars ELSE Finish(t)

\* One turn of unload_owned, with the model's `loading` mutex taken and released
\* in the step.
UnloadTurn(t) == At(t, "unloadCheck") /\ lock[target[t]] = NoTask

UnloadWaits(t) ==
    /\ UnloadTurn(t)
    /\ UnloadBlocked(t)
    /\ Goto(t, "unloadWait")
    /\ UNCHANGED <<cacheVars, loadVars, lock, limiterVars, fresh, opVars, lease,
                   owns, reap, scanVars, left>>

UnloadAbsent(t) ==
    /\ UnloadTurn(t)
    /\ ~UnloadBlocked(t)
    /\ target[t] \notin loaded
    /\ EndUnload(t)
    /\ Unsubscribe(t)
    /\ owns' = owns \ {t}
    /\ UNCHANGED <<cacheVars, loadVars, lock, limiterVars, lease, reap, scanVars,
                   left>>

\* The model is in use: fence it and wait for its leases to end.
UnloadFences(t) ==
    /\ UnloadTurn(t)
    /\ ~UnloadBlocked(t)
    /\ target[t] \in loaded
    /\ is_active(target[t])
    /\ draining' = draining \cup {target[t]}
    /\ owns' = owns \cup {t}
    /\ Goto(t, "unloadWait")
    /\ UNCHANGED <<loaded, destroying, older, loadVars, lock, limiterVars, fresh,
                   opVars, lease, reap, scanVars, left>>

UnloadRetires(t) ==
    LET m == target[t] IN
    /\ UnloadTurn(t)
    /\ ~UnloadBlocked(t)
    /\ m \in loaded
    /\ ~is_active(m)
    /\ RetireAndDestroy({m})
    /\ Await(t, {m})
    /\ draining' = draining \ {m}
    /\ owns' = owns \ {t}
    /\ Unsubscribe(t)
    /\ EndUnload(t)
    /\ UNCHANGED <<loadVars, lock, limiterVars, lease, scanVars, left>>

-----------------------------------------------------------------------------
(***************************************************************************)
(* unload_many: all runtimes of a deployment.                              *)
(***************************************************************************)

Keys(t) == {group[t][i] : i \in 1..Len(group[t])}

StartUnloadMany(t, g) ==
    /\ "unload_many" \in Ops
    /\ At(t, "idle")
    /\ Goto(t, "many")
    /\ group' = [group EXCEPT ![t] = g]
    /\ UNCHANGED <<cacheVars, loadVars, lock, limiterVars, fresh, target, lease,
                   owns, reap, scanVars, left>>

ManySubscribe(t) ==
    /\ At(t, "many")
    /\ Subscribe(t)
    /\ Goto(t, "manyLock")
    /\ UNCHANGED <<cacheVars, loadVars, lock, limiterVars, opVars, lease, owns, reap,
                   scanVars, left>>

\* The `loading` mutexes are taken in the order of the keys and kept.
ManyLock(t) ==
    /\ At(t, "manyLock")
    /\ \E i \in 1..Len(group[t]) :
          /\ \A j \in 1..(i - 1) : lock[group[t][j]] = t
          /\ LockModel(t, group[t][i])
    /\ UNCHANGED <<cacheVars, loadVars, limiterVars, fresh, pc, opVars, lease, owns,
                   reap, scanVars, left>>

ManyFence(t) ==
    /\ At(t, "manyLock")
    /\ \A m \in Keys(t) : lock[m] = t
    /\ lock' = [m \in Models |-> IF lock[m] = t THEN NoTask ELSE lock[m]]
    /\ IF \E m \in Keys(t) : Fenced(m) \/ m \in pending
       THEN Goto(t, "manyWait") /\ UNCHANGED <<draining, fresh>>
       ELSE /\ draining' = draining \cup Keys(t)
            /\ Unsubscribe(t)
            /\ Goto(t, "drain")
    /\ UNCHANGED <<loaded, destroying, older, loadVars, limiterVars, opVars, lease,
                   owns, reap, scanVars, left>>

DrainSubscribe(t) ==
    /\ At(t, "drain")
    /\ Subscribe(t)
    /\ Goto(t, "drainCheck")
    /\ UNCHANGED <<cacheVars, loadVars, lock, limiterVars, opVars, lease, owns, reap,
                   scanVars, left>>

DrainCheck(t) ==
    LET resident == Keys(t) \cap loaded IN
    /\ At(t, "drainCheck")
    /\ IF \A m \in resident : ~is_active(m)
       THEN /\ RetireAndDestroy(resident)
            /\ Await(t, resident)
            /\ draining' = draining \ Keys(t)
            /\ Unsubscribe(t)
            /\ Finish(t)
       ELSE /\ Goto(t, "drainWait")
            /\ UNCHANGED <<cacheVars, opVars, reap, fresh>>
    /\ UNCHANGED <<loadVars, lock, limiterVars, lease, owns, scanVars, left>>

-----------------------------------------------------------------------------
(***************************************************************************)
(* AppState::shutdown: close_and_drain and unload_all_models.              *)
(***************************************************************************)

Close ==
    /\ At(Shut, "idle")
    /\ closed' = TRUE
    /\ Goto(Shut, "closing")
    /\ UNCHANGED <<cacheVars, loadVars, lock, reservations, cold, fresh, opVars,
                   lease, owns, reap, scanVars, left>>

\* Faulty variant of Drained: shutdown does not wait for the cold tasks.
DrainedAtOnce ==
    /\ At(Shut, "closing")
    /\ left' = Models
    /\ Goto(Shut, "sweep")
    /\ UNCHANGED <<cacheVars, loadVars, lock, limiterVars, fresh, opVars, lease,
                   owns, reap, scanVars>>

Drained ==
    /\ At(Shut, "closing")
    /\ cold = {}
    /\ left' = Models
    /\ Goto(Shut, "sweep")
    /\ UNCHANGED <<cacheVars, loadVars, lock, limiterVars, fresh, opVars, lease,
                   owns, reap, scanVars>>

UnloadNext ==
    /\ At(Shut, "sweep")
    /\ IF left = {}
       THEN Goto(Shut, "done") /\ UNCHANGED <<left, target>>
       ELSE \E m \in left :
               /\ left' = left \ {m}
               /\ target' = [target EXCEPT ![Shut] = m]
               /\ Goto(Shut, "unload")
    /\ UNCHANGED <<cacheVars, loadVars, lock, limiterVars, fresh, group, lease, owns,
                   reap, scanVars>>

-----------------------------------------------------------------------------
(***************************************************************************)
(* The specification.                                                      *)
(***************************************************************************)

Init ==
    /\ loaded = {}
    /\ destroying = {}
    /\ draining = {}
    /\ pending = {}
    /\ provisioned = {}
    /\ failure = [m \in Models |-> "none"]
    /\ older = {}
    /\ lock = [m \in Models |-> NoTask]
    /\ reservations = {}
    /\ cold = {}
    /\ closed = FALSE
    /\ fresh = {}
    /\ pc = [t \in Tasks |-> "idle"]
    /\ target = [t \in Tasks |-> NoModel]
    /\ group = [t \in Tasks |-> <<>>]
    /\ lease = [t \in Tasks |-> NoModel]
    /\ owns = {}
    /\ reap = [t \in Tasks |-> {}]
    /\ seen = [t \in Tasks |-> {}]
    /\ todo = [t \in Tasks |-> {}]
    /\ victim = [t \in Tasks |-> NoModel]
    /\ left = {}

Start(t) ==
    \/ \E m \in Models : StartLoad(t, m) \/ StartEnsure(t, m) \/ StartUnload(t, m)
    \/ \E g \in Groups : StartUnloadMany(t, g)

\* The steps of get_or_load, get_or_load_after and reserve.
LoadStep(t) ==
    \/ CleanupIdle(t) \/ LockAndSubscribe(t)
    \/ GetLoadedHit(t) \/ GetLoadedFenced(t) \/ GetLoadedMiss(t)
    \/ BeginColdTask(t)
    \/ CheckHit(t) \/ CheckBusy(t) \/ CheckFull(t) \/ CheckEvict(t)
    \/ CheckReserve(t)
    \/ ReserveSubscribe(t) \/ CountCache(t) \/ Decide(t)
    \/ PickLru(t) \/ EvictTracked(t)
    \/ LockForLoad(t) \/ ProvisionOk(t) \/ ProvisionFails(t)
    \/ LoadFails(t) \/ LoadPanics(t) \/ InsertLoaded(t) \/ Publish(t)
    \/ DropReservation(t) \/ DropLocalReservation(t) \/ EndColdTask(t)
    \/ ReleaseLease(t) \/ EnsureProvisioned(t)

ManyStep(t) ==
    \/ ManySubscribe(t) \/ ManyLock(t) \/ ManyFence(t)
    \/ DrainSubscribe(t) \/ DrainCheck(t)

UnloadStep(t) ==
    \/ UnloadSubscribe(t) \/ UnloadWaits(t) \/ UnloadAbsent(t) \/ UnloadFences(t)
    \/ UnloadRetires(t)

RequestStep(t) == LoadStep(t) \/ ManyStep(t) \/ UnloadStep(t) \/ Changed(t)

\* What shutdown does once it has begun.
ShutdownStep == Drained \/ UnloadNext \/ UnloadStep(Shut) \/ Changed(Shut)

DestructionStep == \E S \in destroying, panicked \in BOOLEAN : Destroyed(S, panicked)

Terminated == \A t \in Tasks : pc[t] = "done" /\ reap[t] = {}

Next ==
    \/ \E t \in Requests : Start(t) \/ Cancel(t) \/ RequestStep(t)
    \/ Close
    \/ ShutdownStep
    \/ DestructionStep
    \/ \E c \in Caches : BackgroundCleanup(c)
    \/ Terminated /\ UNCHANGED vars

Spec == Init /\ [][Next]_vars

\* A runnable task runs, its destructors and loaders return, and a request
\* gives its lease back.  Nothing makes a request start, a client disconnect
\* or the server shut down.
Fairness ==
    /\ \A t \in Requests : WF_vars(RequestStep(t))
    /\ WF_vars(ShutdownStep)
    /\ WF_vars(DestructionStep)

FairSpec == Spec /\ Fairness

-----------------------------------------------------------------------------
(***************************************************************************)
(* Properties.                                                             *)
(***************************************************************************)

Labels ==
    {"idle", "hotClean", "hotLock", "hotCheck", "hotWait", "spawn", "clean",
     "lock", "check", "wait", "reserve", "count", "pick", "evict", "evictWait",
     "loadLock", "provision", "load", "publish", "unwind", "unpend", "endCold",
     "using", "ensureLock", "ensure", "unload", "unloadCheck", "unloadWait",
     "many", "manyLock", "manyWait", "drain", "drainCheck", "drainWait",
     "closing", "sweep", "done"}

\* Every variable has its type; in particular a batch handed to the
\* destructor task is never empty (destroy_retired's early return).
TypeOK ==
    /\ loaded \subseteq Models
    /\ destroying \subseteq (SUBSET Models) \ {{}}
    /\ draining \subseteq Models
    /\ pending \subseteq Models
    /\ provisioned \subseteq Models
    /\ failure \in [Models -> {"none", "provision", "load"}]
    /\ older \subseteq Models \X Models
    /\ lock \in [Models -> Tasks \cup {NoTask}]
    /\ reservations \subseteq Tasks
    /\ cold \subseteq Tasks
    /\ closed \in BOOLEAN
    /\ fresh \subseteq Tasks
    /\ pc \in [Tasks -> Labels]
    /\ target \in [Tasks -> Models \cup {NoModel}]
    /\ group \in [Tasks -> Groups \cup {<<>>}]
    /\ lease \in [Tasks -> Models \cup {NoModel}]
    /\ owns \subseteq Tasks
    /\ reap \in [Tasks -> SUBSET Models]
    /\ seen \in [Tasks -> SUBSET Models]
    /\ todo \in [Tasks -> SUBSET Caches]
    /\ victim \in [Tasks -> Models \cup {NoModel}]
    /\ left \subseteq Models

\* A cache never holds, or promises to load, more engines than max_loaded,
\* the ones still being destroyed included: the debug_assert of insert_loaded
\* cannot fail.
LocalCapacity ==
    \A c \in Caches : Cardinality(OfCache(Resident \cup pending, c)) <= MaxLoaded[c]

\* The process never holds more engines than the global limit, although the
\* residents are counted cache by cache while other tasks load and evict.
GlobalCapacity == Cardinality(Resident) <= GlobalMax

\* A leased engine is never retired: eviction, idle clean-up and unload all
\* look at active_leases in the section that retires.
LeasedResident == \A t \in Tasks : lease[t] # NoModel => lease[t] \in loaded

\* Two loads of a model never overlap and no load overlaps the destruction of
\* the model's previous engine: the unreachable! of insert_loaded is
\* unreachable.
VacantEntry ==
    \A t \in Tasks : pc[t] = "load" =>
        /\ target[t] \notin Resident
        /\ \A u \in Tasks \ {t} : pc[u] = "load" => target[u] # target[t]

\* The models the unload of t has fenced.
Fences(t) ==
    {m \in Models : \/ t \in owns /\ m = target[t]
                    \/ /\ pc[t] \in {"drain", "drainCheck", "drainWait"}
                       /\ m \in Keys(t)}

\* A model is fenced exactly while one unload task works on it, so a fence is
\* neither leaked, which would make the model unusable for good, nor lifted by
\* a task that did not set it.
DrainOwned ==
    /\ draining = UNION {Fences(t) : t \in Tasks}
    /\ \A t, u \in Tasks : t # u => Fences(t) \cap Fences(u) = {}

\* A model that is in memory has no latched load failure, so the readiness
\* probe does not report a healthy model as failed.
FailureLatch == \A m \in loaded : failure[m] = "none"

\* When shutdown has returned no engine is left in memory and nothing can load
\* one any more; the LLM backend is dropped after that.
ShutdownQuiescent ==
    pc[Shut] = "done" /\ reap[Shut] = {} =>
        /\ Resident = {}
        /\ cold = {}
        /\ pending = {}

\* No lease of a model starts while an unload waits for the model's leases to
\* end, so the unload cannot be starved by new requests.
DrainFence ==
    [][\A m \in draining : \A t \in Tasks : lease'[t] = m => lease[t] = m]_vars

\* Every request that begins is finished: no wake-up is lost and no set of
\* loads, evictions and unloads waits for each other.
RequestsFinish ==
    \A t \in Requests : pc[t] # "idle" ~> pc[t] = Rest /\ reap[t] = {}

\* A request that waits because of an unload's fence goes on when the models
\* have been retired and the fence is gone.  unload_many_owned does not ensure
\* it: when none of its models is resident nobody is notified.
FenceLifted ==
    \A t \in Requests :
        pc[t] \in {"hotWait", "manyWait"} ~> pc[t] \notin {"hotWait", "manyWait"}

\* A shutdown that begins comes to an end.
ShutdownFinishes == pc[Shut] = "closing" ~> pc[Shut] = "done" /\ reap[Shut] = {}

-----------------------------------------------------------------------------
(***************************************************************************)
(* The inductive invariant behind the capacity properties.                 *)
(***************************************************************************)

\* Labels at which a task holds a GlobalReservation, and those at which it
\* holds the LocalLoadReservation of its target.
Admitted == {"loadLock", "provision", "load", "publish", "unwind"}
Reserving == {"reserve", "count", "pick", "evict", "evictWait", "unpend"} \cup Admitted

\* Labels at which the target of a local reservation is not in memory yet.
Unloaded == Reserving \ {"publish", "unwind", "unpend"}

\* Labels at which a task may hold a lease.
Leasing == {"publish", "unwind", "unpend", "endCold", "using"}

\* Reservations are held by the tasks between CheckReserve and their drop, one
\* task per model.
ReservationsHeld ==
    /\ reservations = {t \in Tasks : pc[t] \in Admitted}
    /\ \A t \in Tasks : pc[t] \in Reserving => target[t] \in pending
    /\ \A t, u \in Tasks :
          pc[t] \in Reserving /\ pc[u] \in Reserving /\ target[t] = target[u] => t = u

\* Labels at which a task looks for its target in the cache.
Searching == {"hotClean", "hotLock", "hotCheck", "hotWait", "spawn", "clean", "lock",
              "check", "wait", "unload", "unloadCheck", "unloadWait", "ensureLock",
              "ensure"}

\* A task that works on a model, or uses one, knows which one.
TargetsKnown ==
    \A t \in Tasks :
        /\ pc[t] \in Searching \cup Reserving => target[t] \in Models
        /\ pc[t] = "using" => lease[t] \in Models

\* What is about to be loaded is not in memory.
TargetsAbsent == \A t \in Tasks : pc[t] \in Unloaded => target[t] \notin Resident

\* A leased model is loaded; a load that has just inserted its model leases it.
LeasesHeld ==
    \A t \in Tasks :
        /\ pc[t] \notin Leasing => lease[t] = NoModel
        /\ pc[t] = "publish" => lease[t] = target[t]
        /\ lease[t] # NoModel => lease[t] \in loaded

\* The models in memory and those admitted to it fit into the global limit.
Claims == Resident \cup {target[t] : t \in reservations}

ClaimsFit == Cardinality(Claims) <= GlobalMax

\* A count that no notification has invalidated misses, in the caches it has
\* read, only models whose loader holds a reservation and has not notified yet.
CountsValid ==
    \A t \in Tasks : pc[t] = "count" /\ t \in fresh =>
        \A m \in Resident :
            \/ CacheOf[m] \in todo[t]
            \/ m \in seen[t]
            \/ \E u \in Tasks : pc[u] = "publish" /\ target[u] = m

\* Preserved by every step, and implies the capacity properties, LeasedResident
\* and VacantEntry: reserve may count without a lock over all caches because
\* insert_loaded notifies before its loader drops its reservation.
Inv ==
    /\ TypeOK
    /\ ReservationsHeld
    /\ TargetsKnown
    /\ TargetsAbsent
    /\ LeasesHeld
    /\ LocalCapacity
    /\ ClaimsFit
    /\ CountsValid

Residency ==
    INSTANCE ModelResidency WITH
        serving <- loaded, leaving <- Retiring, user <- lease

\* The caches keep the promises of ModelResidency.
ResidencySpec == Residency!ResSpec

=============================================================================
