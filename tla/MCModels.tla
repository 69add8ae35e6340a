------------------------------- MODULE MCModels -------------------------------
(***************************************************************************)
(* The models in memory (ModelCache) and the models on disk                *)
(* (CachePublication).  They share no variable: a behaviour runs one of    *)
(* the two machines, and the other one stays where it began.               *)
(***************************************************************************)
EXTENDS ModelCache, CachePublication, TLC

CONSTANTS m1, m2, c1

VARIABLE machine

\* One service with an OCR deployment of two runtimes and room for one engine.
OneService == [m \in Models |-> c1]
RoomForOne == [c \in Caches |-> 1]
OneDeployment == {<<m1, m2>>}

Symmetric == Permutations(Publishers) \cup Permutations(Deployments)
             \cup Permutations(Requests)

\* Artifacts whose manifest is lost are downloaded again like artifacts that
\* are lost: an instance that begins with the latter says enough.
ManifestsComplete == \A d \in Deployments : files[d] # NoFile => files[Manifest(d)] # NoFile

MCInit ==
    /\ Init
    /\ \/ machine = "disk" /\ PublicationInit /\ ManifestsComplete
       \/ machine = "memory" /\ PublicationInit /\ files = Cache({}, {})

\* Nobody waits for ever on disk: a state without a next step has all
\* operations over.  The requests in memory always have one.
MCNext ==
    \/ machine = "disk" /\ PublicationNext /\ UNCHANGED <<machine, vars>>
    \/ /\ machine = "disk" /\ \A t \in Publishers : TaskAt(t, "done")
       /\ UNCHANGED <<machine, vars, publicationVars>>
    \/ machine = "memory" /\ Next /\ UNCHANGED <<machine, publicationVars>>

\* What is recorded of a model is so: on disk the files are those of the
\* committed publications once no transaction is left (CachePublication,
\* publish_staged_relative_paths), and in memory a model that is loaded is not
\* reported as failed (ModelCache, latch_load_failure).
ModelsTruthful ==
    /\ machine = "disk" => FilesTyped /\ CacheAtomic
    /\ machine = "memory" => FailureLatch
=============================================================================
