---------------------------- MODULE ModelResidency ----------------------------
(***************************************************************************)
(* What the model caches promise to the rest of the server: a leased model *)
(* stays in memory, and neither a cache nor the process ever holds more    *)
(* engines than its limit, the ones still being destroyed included.        *)
(***************************************************************************)
EXTENDS Integers, FiniteSets

CONSTANTS Tasks, Models, Caches, CacheOf, MaxLoaded, GlobalMax, NoModel

VARIABLES
    serving,   \* models in memory that can be leased
    leaving,   \* models in memory whose engines are being destroyed
    user       \* the model each task leases

resVars == <<serving, leaving, user>>

InMemory == serving \cup leaving

InUse(m) == \E t \in Tasks : user[t] = m

ResInit ==
    /\ serving = {}
    /\ leaving = {}
    /\ user = [t \in Tasks |-> NoModel]

\* A model is loaded into free memory, on behalf of the task that leases it.
Admit(t, m) ==
    /\ m \notin InMemory
    /\ Cardinality(InMemory) < GlobalMax
    /\ Cardinality({x \in InMemory : CacheOf[x] = CacheOf[m]}) < MaxLoaded[CacheOf[m]]
    /\ user[t] = NoModel
    /\ serving' = serving \cup {m}
    /\ user' = [user EXCEPT ![t] = m]
    /\ UNCHANGED leaving

Lease(t, m) ==
    /\ m \in serving
    /\ user[t] = NoModel
    /\ user' = [user EXCEPT ![t] = m]
    /\ UNCHANGED <<serving, leaving>>

Release(t) ==
    /\ user[t] # NoModel
    /\ user' = [user EXCEPT ![t] = NoModel]
    /\ UNCHANGED <<serving, leaving>>

\* Only models nobody uses leave.
Retire(S) ==
    /\ \A m \in S : ~InUse(m)
    /\ serving' = serving \ S
    /\ leaving' = leaving \cup S
    /\ UNCHANGED user

Discard(S) ==
    /\ leaving' = leaving \ S
    /\ UNCHANGED <<serving, user>>

ResNext ==
    \/ \E t \in Tasks, m \in Models : Admit(t, m) \/ Lease(t, m)
    \/ \E t \in Tasks : Release(t)
    \/ \E S \in SUBSET serving : Retire(S)
    \/ \E S \in SUBSET leaving : Discard(S)

ResSpec == ResInit /\ [][ResNext]_resVars

=============================================================================
