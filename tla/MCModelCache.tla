----------------------------- MODULE MCModelCache -----------------------------
(***************************************************************************)
(* Instances of ModelCache for TLC.                                        *)
(***************************************************************************)
EXTENDS ModelCache, TLC

CONSTANTS t1, t2, m1, m2, m3, c1, c2

\* Two services: the first has two models.
TwoServices == m1 :> c1 @@ m2 :> c1 @@ m3 :> c2

\* One service with all models.
OneService == [m \in Models |-> c1]

RoomForOne == [c \in Caches |-> 1]

NoGroups == {}

\* An OCR deployment of two runtimes.
OneDeployment == {<<m1, m2>>}

(* Without an OCR deployment nobody takes a step of unload_many.           *)
LoadingNext ==
    \/ \E t \in Requests : Start(t) \/ Cancel(t) \/ LoadStep(t) \/ UnloadStep(t) \/ Changed(t)
    \/ Close
    \/ ShutdownStep
    \/ DestructionStep
    \/ \E c \in Caches : BackgroundCleanup(c)
    \/ Terminated /\ UNCHANGED vars
LoadingSpec == Init /\ [][LoadingNext]_vars /\ Fairness
=============================================================================
