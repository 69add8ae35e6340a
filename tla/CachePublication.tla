-------------------------- MODULE CachePublication --------------------------
(***************************************************************************)
(* The model cache on disk (orchion-download, lib.rs and transaction.rs):  *)
(* LLM deployments are provisioned, resolved and recovered by tasks of any *)
(* number of processes, and every change of the published files is a       *)
(* transaction kept in the directory publish-transaction, so that a        *)
(* publication that was interrupted can be rolled back by whoever comes    *)
(* next.                                                                   *)
(*                                                                         *)
(* A deployment has two paths: its artifacts, whose content is the version *)
(* that was downloaded, and its manifest, which says of which version the  *)
(* digests are.  LockFile (orchion-models.lock) is shared by all           *)
(* deployments and records the version of each.  Names, digests and the    *)
(* validation of directories are left out; integrity is always verified.   *)
(* One step is one file-system operation that others can see or one lock   *)
(* acquired; a crash ends one task, releases its locks and leaves the disk *)
(* as it is.  The paths of a transaction are handled in any order.         *)
(***************************************************************************)
EXTENDS Integers, FiniteSets

CONSTANTS
    Publishers,       \* callers, each in a process of its own or not
    Deployments,
    LockFile,    \* MODELS_LOCK_FILE
    NoFile,
    NoOne,       \* nobody holds a lock
    MaxVersion,  \* bound: downloads
    MaxCrashes,  \* bound: crashes
    Events       \* what may go wrong, of AllEvents

AllEvents == {"download error", "io error", "crash", "put off", "cut"}

ASSUME PublicationAssumption ==
    /\ IsFiniteSet(Publishers) /\ IsFiniteSet(Deployments)
    /\ LockFile \notin Deployments /\ NoOne \notin Publishers
    /\ MaxVersion \in Nat \ {0} /\ MaxCrashes \in Nat
    /\ NoFile \notin 0..MaxVersion /\ NoFile \notin [Deployments -> 0..MaxVersion]
    /\ Events \subseteq AllEvents

Manifest(d) == <<d>>
Own(d) == {d, Manifest(d)}
Paths == UNION {Own(d) : d \in Deployments} \cup {LockFile}
Version == 0..MaxVersion
Entries == [Deployments -> Version]

\* The contents files may have: a version, or the entries of all deployments.
Files(f) ==
    /\ DOMAIN f = Paths /\ f[LockFile] \in Entries \cup {NoFile}
    /\ \A p \in Paths \ {LockFile} : f[p] \in (Version \ {0}) \cup {NoFile}

VARIABLES
    files,    \* the published files
    tx,        \* the directory publish-transaction
    mlock,     \* the lock file of each deployment
    plock,     \* publish.lock
    task,      \* where each task is
    newest,     \* the last version downloaded
    expected,  \* history: the files as of the last committed publication
    crashes

publicationVars == <<files, tx, mlock, plock, task, newest, expected, crashes>>

NoManifest == [p \in {} |-> TRUE]
NoTx == [exists |-> FALSE, manifest |-> NoManifest, listed |-> FALSE,
         committed |-> FALSE, backup |-> [p \in Paths |-> NoFile]]
IdleTask == [pc |-> "idle", op |-> "none", d |-> LockFile, ret |-> "none",
           phase |-> "first", todo |-> {}, paths |-> {},
           staged |-> [p \in Paths |-> NoFile], own |-> NoFile,
           published |-> FALSE, result |-> "none"]

\* A cache in which the deployments of S are recorded and the files of H are
\* still there.
Cache(S, H) ==
    [p \in Paths |->
       IF p # LockFile THEN IF p \in H THEN 1 ELSE NoFile
       ELSE IF S = {} THEN NoFile ELSE [d \in Deployments |-> IF d \in S THEN 1 ELSE 0]]

PublicationInit ==
    /\ \E S \in SUBSET Deployments : \E H \in SUBSET UNION {Own(d) : d \in S} :
          files = Cache(S, H)
    /\ expected = files
    /\ tx = NoTx
    /\ mlock = [d \in Deployments |-> NoOne] /\ plock = NoOne
    /\ task = [t \in Publishers |-> IdleTask]
    /\ newest = 1 /\ crashes = 0

-----------------------------------------------------------------------------
(* Tasks and locks                                                         *)

TaskAt(t, pc) == task[t].pc = pc
Step(t, r) == task' = [task EXCEPT ![t] = r]
Move(t, pc) == Step(t, [task[t] EXCEPT !.pc = pc])
AwaitLock(t, ret) == Step(t, [task[t] EXCEPT !.pc = "await", !.ret = ret])
Disk == UNCHANGED <<files, tx, expected>>
Locks == UNCHANGED <<mlock, plock>>
CountersKept == UNCHANGED <<newest, crashes>>

FreeModel(t) == mlock' = [d \in Deployments |-> IF mlock[d] = t THEN NoOne ELSE mlock[d]]
FreePublication(t) == plock' = IF plock = t THEN NoOne ELSE plock

\* The operation returns, and its guards are dropped.
EndTask(t, result) ==
    /\ Step(t, [task[t] EXCEPT !.pc = "done", !.result = result])
    /\ FreeModel(t) /\ FreePublication(t)

\* What the lock file l says of deployment d, 0 for nothing.
Entry(l, d) == IF l = NoFile THEN 0 ELSE l[d]

Begin(t, op, d) ==
    /\ TaskAt(t, "idle")
    /\ Step(t, [IdleTask EXCEPT !.pc = "lock", !.op = op, !.d = d])
    /\ Disk /\ Locks /\ CountersKept

\* provision recovers before it looks, resolve looks first.
LockDeployment(t) ==
    /\ TaskAt(t, "lock") /\ mlock[task[t].d] = NoOne
    /\ mlock' = [mlock EXCEPT ![task[t].d] = t]
    /\ IF task[t].op = "provision" THEN AwaitLock(t, "prepare") ELSE Move(t, "read")
    /\ Disk /\ CountersKept /\ UNCHANGED plock

LockPublication(t) ==
    /\ TaskAt(t, "await") /\ plock = NoOne
    /\ plock' = t
    /\ Move(t, IF task[t].ret = "stage" THEN "stage" ELSE "recover")
    /\ Disk /\ CountersKept /\ UNCHANGED mlock

-----------------------------------------------------------------------------
(* recover_interrupted_publication                                         *)

\* It returns whether the transaction directory is gone; the callers refuse
\* to go on while it is not, recover_llm_from_lock does not ask.
Recovered(t, clean) ==
    LET ret == task[t].ret
    IN \/ ret = "prepare" /\ clean /\ Move(t, "read") /\ FreePublication(t) /\ UNCHANGED mlock
       \/ ret = "resolve" /\ clean
          /\ Step(t, [task[t] EXCEPT !.pc = "lock", !.phase = "second"])
          /\ FreePublication(t) /\ UNCHANGED mlock
       \/ ret = "relock" /\ Move(t, "restage") /\ Locks
       \/ ret = "begin" /\ clean /\ Move(t, "begin") /\ Locks
       \/ ret \in {"prepare", "resolve", "begin"} /\ ~clean /\ EndTask(t, "err")
       \/ ret = "undo" /\ EndTask(t, "err")

RecoverNothing(t) ==
    /\ TaskAt(t, "recover") /\ ~tx.exists
    /\ Recovered(t, TRUE)
    /\ Disk /\ CountersKept

\* A committed transaction is only removed, and so is one without manifest.
Recover(t) ==
    /\ TaskAt(t, "recover") /\ tx.exists
    /\ Step(t, [task[t] EXCEPT
                  !.pc = IF tx.committed THEN "clean"
                         ELSE IF tx.listed THEN "rollback" ELSE "discard",
                  !.todo = DOMAIN tx.manifest])
    /\ Disk /\ Locks /\ CountersKept

Restorable(p) == tx.manifest[p] /\ tx.backup[p] # NoFile
Removable(p) == files[p] # NoFile /\ (tx.manifest[p] => tx.backup[p] # NoFile)

RollbackRemove(t, p) ==
    /\ TaskAt(t, "rollback") /\ p \in task[t].todo /\ Removable(p)
    /\ files' = [files EXCEPT ![p] = NoFile]
    /\ UNCHANGED <<tx, expected, task>> /\ Locks /\ CountersKept

RollbackRestore(t, p) ==
    /\ TaskAt(t, "rollback") /\ p \in task[t].todo /\ ~Removable(p)
    /\ IF Restorable(p)
       THEN /\ files' = [files EXCEPT ![p] = tx.backup[p]]
            /\ tx' = [tx EXCEPT !.backup[p] = NoFile]
       ELSE UNCHANGED <<files, tx>>
    /\ Step(t, [task[t] EXCEPT !.todo = @ \ {p}])
    /\ UNCHANGED expected /\ Locks /\ CountersKept

RolledBack(t) ==
    /\ TaskAt(t, "rollback") /\ task[t].todo = {}
    /\ Move(t, "discard")
    /\ Disk /\ Locks /\ CountersKept

Cleaning == {"clean", "discard"}

Present == {p \in Paths : tx.backup[p] # NoFile}

\* remove_dir_all unlinks the files of the directory in some order and was
\* interrupted: at once, or with "cut" anywhere.  Only the holder of the
\* publication lock looks at them.
CutShort ==
    \E listed \in {tx.listed, FALSE}, committed \in {tx.committed, FALSE},
       kept \in SUBSET Present :
       /\ "cut" \in Events \/ (listed = tx.listed /\ committed = tx.committed /\ kept = Present)
       /\ tx' = [exists |-> TRUE, listed |-> listed, committed |-> committed,
                 manifest |-> IF listed THEN tx.manifest ELSE NoManifest,
                 backup |-> [p \in Paths |-> IF p \in kept THEN tx.backup[p] ELSE NoFile]]

-----------------------------------------------------------------------------
(* publish_staged_relative_paths                                           *)

\* The publication has succeeded: the supply-chain path drops its locks
\* before it verifies, recover_llm_from_lock verifies under them.
Published(t) ==
    IF task[t].phase = "relock"
    THEN Move(t, "read") /\ Locks
    ELSE /\ Step(t, [task[t] EXCEPT !.pc = "read", !.phase = "verify"])
         /\ FreeModel(t) /\ FreePublication(t)

\* If the removal cannot be synced, the caller is told of a failure.
RemoveDir(t) ==
    /\ task[t].pc \in Cleaning
    /\ tx' = NoTx
    /\ \/ IF task[t].ret = "committed" THEN Published(t) ELSE Recovered(t, TRUE)
       \/ "io error" \in Events /\ EndTask(t, "err")
    /\ UNCHANGED <<files, expected>> /\ CountersKept

\* remove_dir_all fails on the way: put off for a committed transaction, an
\* error otherwise.
CleanFails(t) ==
    /\ "put off" \in Events /\ task[t].pc \in Cleaning
    /\ CutShort
    /\ IF TaskAt(t, "discard") THEN EndTask(t, "err")
       ELSE IF task[t].ret = "committed" THEN Published(t) ELSE Recovered(t, FALSE)
    /\ UNCHANGED <<files, expected>> /\ CountersKept

MakeTx(t) ==
    /\ TaskAt(t, "begin")
    /\ tx' = [tx EXCEPT !.exists = TRUE]
    /\ Move(t, "manifest")
    /\ UNCHANGED <<files, expected>> /\ Locks /\ CountersKept

\* Faulty variant of WriteManifest: every path is taken for a new one.
WriteManifestBlind(t) ==
    /\ TaskAt(t, "manifest")
    /\ tx' = [tx EXCEPT !.listed = TRUE, !.manifest = [p \in task[t].paths |-> FALSE]]
    /\ Step(t, [task[t] EXCEPT !.pc = "backup", !.todo = task[t].paths])
    /\ UNCHANGED <<files, expected>> /\ Locks /\ CountersKept

\* If the directory cannot be synced after the rename, the error is returned
\* and the transaction is left to the next one.
WriteManifest(t) ==
    /\ TaskAt(t, "manifest")
    /\ tx' = [tx EXCEPT !.listed = TRUE,
                        !.manifest = [p \in task[t].paths |-> files[p] # NoFile]]
    /\ \/ Step(t, [task[t] EXCEPT !.pc = "backup", !.todo = task[t].paths]) /\ Locks
       \/ "io error" \in Events /\ EndTask(t, "err")
    /\ UNCHANGED <<files, expected>> /\ CountersKept

Backup(t, p) ==
    /\ TaskAt(t, "backup") /\ p \in task[t].todo
    /\ IF files[p] # NoFile
       THEN /\ tx' = [tx EXCEPT !.backup[p] = files[p]]
            /\ files' = [files EXCEPT ![p] = NoFile]
       ELSE UNCHANGED <<tx, files>>
    /\ LET left == task[t].todo \ {p}
       IN Step(t, IF left = {}
                  THEN [task[t] EXCEPT !.pc = "move", !.todo = task[t].paths]
                  ELSE [task[t] EXCEPT !.todo = left])
    /\ UNCHANGED expected /\ Locks /\ CountersKept

MoveIn(t, p) ==
    /\ TaskAt(t, "move") /\ p \in task[t].todo
    /\ files' = [files EXCEPT ![p] = task[t].staged[p]]
    /\ LET left == task[t].todo \ {p}
       IN Step(t, [task[t] EXCEPT !.todo = left, !.staged[p] = NoFile,
                                  !.pc = IF left = {} THEN "commit" ELSE @])
    /\ UNCHANGED <<tx, expected>> /\ Locks /\ CountersKept

\* The marker is renamed into place; if the directory cannot be synced then,
\* the caller is told of a failure although the publication stands.
CommitTx(t) ==
    /\ TaskAt(t, "commit")
    /\ tx' = [tx EXCEPT !.committed = TRUE]
    /\ expected' = files
    /\ \/ Step(t, [task[t] EXCEPT !.pc = "clean", !.ret = "committed", !.published = TRUE])
       \/ "io error" \in Events
          /\ Step(t, [task[t] EXCEPT !.pc = "recover", !.ret = "undo"])
    /\ UNCHANGED files /\ Locks /\ CountersKept

\* An operation fails: before the manifest the error is returned, later the
\* transaction is recovered first.
PublishFails(t) ==
    /\ "io error" \in Events
    /\ \/ task[t].pc \in {"begin", "manifest"} /\ EndTask(t, "err")
       \/ /\ task[t].pc \in {"backup", "move", "commit"}
          /\ Step(t, [task[t] EXCEPT !.pc = "recover", !.ret = "undo"]) /\ Locks
    /\ Disk /\ CountersKept

RecoverFails(t) ==
    /\ "io error" \in Events /\ task[t].pc \in {"recover", "rollback"} /\ tx.exists
    /\ EndTask(t, "err")
    /\ Disk /\ CountersKept

-----------------------------------------------------------------------------
(* provision_deployment_core, resolve_or_recover_prepared_deployment_core  *)
(* and recover_llm_from_lock                                               *)

\* read_deployment_publication, then validate_llm_lock_sync.
ReadOwn(t) ==
    /\ TaskAt(t, "read")
    /\ LET d == task[t].d
       IN Step(t, [task[t] EXCEPT
                     !.pc = "check",
                     !.own = IF files[Manifest(d)] = files[d] THEN files[d] ELSE NoFile])
    /\ Disk /\ Locks /\ CountersKept

Ready(t) == task[t].own # NoFile /\ Entry(files[LockFile], task[t].d) = task[t].own

CheckReady(t) ==
    /\ TaskAt(t, "check") /\ Ready(t)
    /\ EndTask(t, "ok")
    /\ Disk /\ CountersKept

\* After a publication a mismatch is final; before it, provision consults
\* the lock file and resolve tries to recover, twice in different ways.
CheckUnready(t) ==
    /\ TaskAt(t, "check") /\ ~Ready(t)
    /\ \/ task[t].phase \in {"verify", "relock"} /\ EndTask(t, "err")
       \/ /\ task[t].op = "provision" /\ task[t].phase = "first"
          /\ Move(t, "consult") /\ Locks
       \/ /\ task[t].op = "resolve" /\ task[t].phase \in {"first", "second"}
          /\ AwaitLock(t, IF task[t].phase = "first" THEN "resolve" ELSE "relock")
          /\ FreeModel(t) /\ UNCHANGED plock
    /\ Disk /\ CountersKept

Consult(t) ==
    /\ TaskAt(t, "consult")
    /\ IF Entry(files[LockFile], task[t].d) # 0 THEN AwaitLock(t, "relock") ELSE Move(t, "download")
    /\ Disk /\ Locks /\ CountersKept

Download(t) ==
    /\ TaskAt(t, "download") /\ newest < MaxVersion
    /\ newest' = newest + 1
    /\ Step(t, [task[t] EXCEPT !.pc = "await", !.ret = "stage",
                               !.staged[task[t].d] = newest + 1,
                               !.staged[Manifest(task[t].d)] = newest + 1])
    /\ Disk /\ Locks /\ UNCHANGED crashes

\* No provider has the files, or none is asked any more.
DownloadFails(t) ==
    /\ TaskAt(t, "download") /\ ("download error" \in Events \/ newest = MaxVersion)
    /\ EndTask(t, "err")
    /\ Disk /\ CountersKept

\* Faulty variant of StageSupplyChain: the other entries are not merged.
StageAlone(t) ==
    /\ TaskAt(t, "stage")
    /\ LET d == task[t].d
       IN Step(t, [task[t] EXCEPT
                     !.staged[LockFile] =
                        [e \in Deployments |-> IF e = d THEN task[t].staged[d] ELSE 0],
                     !.paths = Own(d) \cup {LockFile}, !.pc = "recover", !.ret = "begin"])
    /\ Disk /\ Locks /\ CountersKept

\* stage_llm_supply_chain: the lock file as it is on disk, with this entry.
StageSupplyChain(t) ==
    /\ TaskAt(t, "stage")
    /\ LET d == task[t].d
       IN Step(t, [task[t] EXCEPT
                     !.staged[LockFile] =
                        [e \in Deployments |-> IF e = d THEN task[t].staged[d]
                                               ELSE Entry(files[LockFile], e)],
                     !.paths = Own(d) \cup {LockFile}, !.pc = "recover", !.ret = "begin"])
    /\ Disk /\ Locks /\ CountersKept

\* recover_llm_from_lock: the recorded version, from the cached artifacts if
\* they are intact and else, for provision only, downloaded again.
Restage(t) ==
    /\ TaskAt(t, "restage")
    /\ LET d == task[t].d
           v == Entry(files[LockFile], d)
       IN \/ /\ v # 0 /\ (files[d] = v \/ task[t].op = "provision")
             /\ Step(t, [task[t] EXCEPT !.staged[d] = v, !.staged[Manifest(d)] = v,
                                        !.paths = Own(d), !.phase = "relock",
                                        !.pc = "recover", !.ret = "begin"])
             /\ Locks
          \/ /\ \/ v = 0
                \/ files[d] # v /\ (task[t].op = "resolve" \/ "download error" \in Events)
             /\ EndTask(t, "err")
    /\ Disk /\ CountersKept

\* The process of t ends, or its future is dropped.
Crash(t) ==
    /\ "crash" \in Events /\ crashes < MaxCrashes
    /\ task[t].pc \notin {"idle", "done"}
    /\ IF task[t].pc \in Cleaning THEN CutShort ELSE UNCHANGED tx
    /\ Step(t, IdleTask) /\ FreeModel(t) /\ FreePublication(t)
    /\ crashes' = crashes + 1
    /\ UNCHANGED <<files, expected, newest>>

Operation(t) ==
    \/ LockDeployment(t) \/ LockPublication(t)
    \/ RecoverNothing(t) \/ Recover(t) \/ RolledBack(t) \/ RecoverFails(t)
    \/ \E p \in Paths : RollbackRemove(t, p) \/ RollbackRestore(t, p)
    \/ RemoveDir(t) \/ CleanFails(t)
    \/ MakeTx(t) \/ WriteManifest(t) \/ CommitTx(t) \/ PublishFails(t)
    \/ \E p \in Paths : Backup(t, p) \/ MoveIn(t, p)
    \/ ReadOwn(t) \/ CheckReady(t) \/ CheckUnready(t) \/ Consult(t)
    \/ Download(t) \/ DownloadFails(t) \/ StageSupplyChain(t) \/ Restage(t)

PublicationNext ==
    \E t \in Publishers :
        \/ \E op \in {"provision", "resolve"}, d \in Deployments : Begin(t, op, d)
        \/ Operation(t) \/ Crash(t)

PublicationSpec == PublicationInit /\ [][PublicationNext]_publicationVars

-----------------------------------------------------------------------------
(* Properties                                                              *)

\* Types of the disk, the locks and the tasks.
FilesTyped ==
    /\ Files(files) /\ Files(expected) /\ Files(tx.backup)
    /\ \A t \in Publishers : Files(task[t].staged)
    /\ tx.exists \in BOOLEAN /\ tx.listed \in BOOLEAN /\ tx.committed \in BOOLEAN
    /\ DOMAIN tx.manifest \subseteq Paths
    /\ mlock \in [Deployments -> Publishers \cup {NoOne}] /\ plock \in Publishers \cup {NoOne}
    /\ \A t \in Publishers : task[t].d \in Paths /\ task[t].todo \subseteq Paths
    /\ newest \in Version /\ crashes \in 0..MaxCrashes

\* publish_staged_relative_paths, recover_interrupted_publication: whoever
\* was interrupted where, and whoever recovered from it, once no transaction
\* is left the cache has all files of the committed publications and none of
\* another, the shared lock file among them.
CacheAtomic == plock = NoOne /\ ~tx.exists => files = expected

\* stage_llm_supply_chain: a publication keeps what the lock file says of the
\* other deployments.
NoLostEntry ==
    [][\A d \in Deployments :
         Entry(expected[LockFile], d) # 0 => Entry(expected'[LockFile], d) # 0]_publicationVars

=============================================================================
