---------------------------- MODULE Provisioning ----------------------------
(* How orchion-download chooses a provider for the artifacts of a deployment *)
(* and what it leaves in the model cache. Two paths write there: the models  *)
(* whose artifacts are fetched one by one under a shared choice of provider  *)
(* (download_model_url_with_plan: ASR, TTS and OCR), and the LLM             *)
(* deployments whose roles are resolved, fetched and published together and  *)
(* pinned in orchion-models.lock (provision_deployment). The transaction     *)
(* that publishes either of them is CachePublication's.                      *)
EXTENDS Naturals, Sequences, FiniteSets, SequencesExt

CONSTANTS Plans,            \* the keys of the deployments' source plans
          PlanArtifacts,    \* [Plans -> a set of artifacts]
          PlanCandidates,   \* [Plans -> the providers of its policy, in order]
          ExactFiles,       \* the artifacts located by an exact file; the others by a repository
          RequiredSource,   \* [artifact -> <<provider>> or <<>>]
          LocalPackages,    \* the artifacts that are packages of the local disk
          VerifyFiles,      \* whether a reused cache is checked by digest, or by presence only
          Legacy,           \* what the cache may hold before: a set of caches
          Roles,            \* the roles of an LLM deployment
          RoleSource,       \* [Roles -> "neutral", a provider or "file"]
          RoleRepository,   \* [Roles -> the repository that holds the role's file]
          RoleCandidates,   \* the providers a neutral role may come from, in order
          MaxRevision,      \* how often a branch of a repository moves
          MaxDamaged        \* how many places of the cache are damaged at a time

VARIABLES chosen,   \* per plan, <<>> or the selection that its calls share
          fetch,    \* per plan and artifact, its provisioning call
          store,    \* the cache: per slot, <<>> or its ready manifest
          head,     \* per provider and repository, the revision of its default branch
          deploying, \* the provisioning call of the LLM deployment
          lock,     \* its entry in orchion-models.lock: per role, <<>> or a pin
          disk      \* per role, <<>> or the revision of the file in the cache

provisioningVars == <<chosen, fetch, store, head, deploying, lock, disk>>

Providers == {"huggingface", "modelscope"}
Repositories == {RoleRepository[r] : r \in {q \in Roles : RoleSource[q] # "file"}}

-----------------------------------------------------------------------------
(* The cache of single models                                                *)

\* The artifacts that the roots of the cache hold: exact files are kept apart by provider, and the
\* shared root also holds what an earlier version put there.
Root(a, s) == IF a \in ExactFiles THEN s ELSE "shared"
RootsOf(a, s) == IF a \in ExactFiles THEN <<s, "shared">> ELSE <<"shared">>

ReadyManifest(s, resolved) == [source |-> s, resolved |-> resolved, files |-> "whole"]

\* manifest_files_match and required_cache_files_exist: a file whose content changed is found only
\* by its digest.
FilesUsable(m) == m.files = "whole" \/ (m.files = "changed" /\ ~VerifyFiles)

\* is_ready_cache: a manifest of the asked provider at the branch asked for, and its files.
IsReady(a, root, s) == \E m \in ToSet(store[<<a, root>>]) : m.source = s /\ FilesUsable(m)

\* validate_prepared_ready_cache: the files by digest, and every repository at an immutable revision.
PreparedReady(a, root, allowed) ==
    \E m \in ToSet(store[<<a, root>>]) :
        /\ m.source \in allowed /\ m.files = "whole" /\ m.resolved = "immutable"
        /\ \A required \in ToSet(RequiredSource[a]) : required = m.source

\* validate_local_model_path: a package of the local disk is used where it is.
LocalReady(a) == \E m \in ToSet(store[<<a, "local">>]) : m.files # "missing"

\* resolve_prepared_model_url_path_with_plan
PreparedResolves(p, a) ==
    \/ a \in LocalPackages /\ LocalReady(a)
    \/ a \notin LocalPackages /\ PreparedReady(a, "shared", ToSet(PlanCandidates[p]))
    \/ a \in ExactFiles /\ \E s \in ToSet(PlanCandidates[p]) : PreparedReady(a, s, {s})

\* repository_revision: nothing pins a revision, so the provider's default branch is asked for.
AskedRevision == "branch"
\* download_from_model_hub: only an immutable revision that was asked for counts as resolved.
ResolvedRevision(asked) == IF asked = "branch" THEN "none" ELSE "immutable"

-----------------------------------------------------------------------------
(* What a provider's metadata says                                           *)

Statuses == {"success", "not found", "too many requests", "server error", "refused", "no connection", "unreadable"}
\* The metadata of one repository: the answer's status, whether it names an immutable commit and
\* every page the same one, and the files it lists.
Metadata == [status : {"success"}, commit : {"immutable", "mutable", "changing"}, files : {"all", "some", "none", "unsafe"}]
            \cup [status : Statuses \ {"success"}, commit : {"mutable"}, files : {"none"}]

ClassifyStatus(status) == IF status \in {"not found", "too many requests", "server error", "no connection"} THEN "retryable" ELSE "terminal"

\* resolve_preflight_files: the exact files asked for must be listed; an empty or unsafe list is refused.
ResolveFiles(answer) == CASE answer.files \in {"none", "unsafe"} -> "terminal" [] answer.files = "some" -> "retryable" [] OTHER -> "planned"

HuggingFaceAnswer(answer) ==
    IF answer.status # "success" THEN ClassifyStatus(answer.status)
    ELSE IF answer.commit # "immutable" THEN "terminal" ELSE ResolveFiles(answer)
\* ModelScope's only answer has no pages; its commit is looked for in several fields.
ModelScopeAnswer(answer) ==
    IF answer.status # "success" THEN ClassifyStatus(answer.status)
    ELSE IF answer.commit = "mutable" THEN "terminal" ELSE ResolveFiles(answer)
ProviderAnswer(s, answer) == IF s = "huggingface" THEN HuggingFaceAnswer(answer) ELSE ModelScopeAnswer(answer)
ProviderAnswers(s) == {ProviderAnswer(s, answer) : answer \in Metadata}

-----------------------------------------------------------------------------
(* One artifact of a plan                                                    *)

NoFetch == [at |-> "idle", todo |-> <<>>, served |-> <<>>]
Selection(s, planned, committed, rejected) ==
    [source |-> s, planned |-> planned, committed |-> committed, rejected |-> rejected]

Satisfies(p, s) == \A a \in PlanArtifacts[p] : \A required \in ToSet(RequiredSource[a]) : required = s
Busy(p) == \E a \in PlanArtifacts[p] : fetch[p][a].at \in {"reuse", "preflight", "download", "prepare"}
MoveFetch(p, a, call) == fetch' = [fetch EXCEPT ![p][a] = call]
Choose(p, selection) == chosen' = [chosen EXCEPT ![p] = <<selection>>]
Remaining(p, rejected) == SelectSeq(PlanCandidates[p], LAMBDA s : s \notin rejected)

\* A call takes the plan's selection lock; the providers whose cache it may use are the selected one,
\* or the candidates that can hold every artifact of the plan.
Ask(p, a) ==
    /\ a \notin LocalPackages /\ fetch[p][a].at = "idle" /\ ~Busy(p)
    /\ LET sources == IF chosen[p] = <<>> THEN SelectSeq(PlanCandidates[p], LAMBDA s : Satisfies(p, s))
                      ELSE <<chosen[p][1].source>>
       IN MoveFetch(p, a, [fetch[p][a] EXCEPT !.at = "reuse", !.todo = sources])
    /\ UNCHANGED <<chosen, store, head, deploying, lock, disk>>

Done(p, a, s, root) == MoveFetch(p, a, [at |-> "idle", todo |-> <<>>, served |-> <<[source |-> s, root |-> root]>>])

AskLocal(p, a) ==
    /\ a \in LocalPackages /\ LocalReady(a)
    /\ Done(p, a, "file", "local")
    /\ UNCHANGED <<chosen, store, head, deploying, lock, disk>>

\* The cache of the next provider is looked up. A hit commits its provider for the whole plan.
Reuse(p, a) ==
    /\ fetch[p][a].at = "reuse" /\ fetch[p][a].todo # <<>>
    /\ LET s == Head(fetch[p][a].todo)
           hits == SelectSeq(RootsOf(a, s), LAMBDA root : IsReady(a, root, s))
       IN IF hits # <<>>
          THEN /\ Choose(p, IF chosen[p] = <<>> THEN Selection(s, FALSE, TRUE, {})
                            ELSE [chosen[p][1] EXCEPT !.committed = TRUE])
               /\ Done(p, a, s, Head(hits))
          ELSE MoveFetch(p, a, [fetch[p][a] EXCEPT !.todo = Tail(@)]) /\ UNCHANGED chosen
    /\ UNCHANGED <<store, head, deploying, lock, disk>>

\* Nothing is cached: the files are planned with a provider, unless that was done before.
PlanFiles(p, a) ==
    /\ fetch[p][a].at = "reuse" /\ fetch[p][a].todo = <<>>
    /\ LET planned == chosen[p] # <<>> /\ chosen[p][1].planned
           candidates == IF chosen[p] = <<>> THEN PlanCandidates[p] ELSE <<chosen[p][1].source>>
       IN MoveFetch(p, a, [fetch[p][a] EXCEPT !.at = IF planned THEN "download" ELSE "preflight",
                                              !.todo = IF planned THEN <<>> ELSE candidates])
    /\ UNCHANGED <<chosen, store, head, deploying, lock, disk>>

GiveUp(p, a) == MoveFetch(p, a, [fetch[p][a] EXCEPT !.at = "idle", !.todo = <<>>])

\* The metadata of every artifact of the plan is asked of one candidate.
Preflight(p, a) ==
    /\ fetch[p][a].at = "preflight" /\ fetch[p][a].todo # <<>>
    /\ LET s == Head(fetch[p][a].todo)
           old == chosen[p]
           settled == Selection(s, TRUE, old # <<>> /\ old[1].committed, IF old = <<>> THEN {} ELSE old[1].rejected)
       IN \E outcome \in IF Satisfies(p, s) THEN ProviderAnswers(s) ELSE {"retryable"} :
            \/ outcome = "planned" /\ Choose(p, settled)
               /\ MoveFetch(p, a, [fetch[p][a] EXCEPT !.at = "download", !.todo = <<>>])
            \/ outcome = "retryable" /\ MoveFetch(p, a, [fetch[p][a] EXCEPT !.todo = Tail(@)]) /\ UNCHANGED chosen
            \/ outcome = "terminal" /\ GiveUp(p, a) /\ UNCHANGED chosen
    /\ UNCHANGED <<store, head, deploying, lock, disk>>

\* No candidate is left: DownloadFallbackExhausted. A selection that was made stays as it is.
Exhausted(p, a) ==
    /\ fetch[p][a].at = "preflight" /\ fetch[p][a].todo = <<>>
    /\ GiveUp(p, a)
    /\ UNCHANGED <<chosen, store, head, deploying, lock, disk>>

\* configured_providers: assets that only ModelScope has are asked of no other provider.
Configured(a, s) == \A required \in ToSet(RequiredSource[a]) : required = s
Slot(p, a) == <<a, Root(a, chosen[p][1].source)>>
\* acquire_model_lock: one writer at a time in the place of a model.
Writing(slot) == \E p \in Plans : \E a \in PlanArtifacts[p] : fetch[p][a].at = "prepare" /\ Slot(p, a) = slot

Commit(p, a) ==
    /\ Choose(p, [chosen[p][1] EXCEPT !.committed = TRUE])
    /\ Done(p, a, chosen[p][1].source, Slot(p, a)[2])

\* Under the model's lock another plan may turn out to have brought the artifact meanwhile; else its
\* files are fetched into a staging directory.
Download(p, a) ==
    /\ fetch[p][a].at = "download" /\ ~Writing(Slot(p, a))
    /\ IF IsReady(a, Slot(p, a)[2], chosen[p][1].source) THEN Commit(p, a)
       ELSE Configured(a, chosen[p][1].source) /\ MoveFetch(p, a, [fetch[p][a] EXCEPT !.at = "prepare"]) /\ UNCHANGED chosen
    /\ UNCHANGED <<store, head, deploying, lock, disk>>

MayChange(p, retryable) == retryable /\ ~chosen[p][1].committed

\* A retryable failure before anything was committed rejects the provider and plans the files with
\* the remaining ones; every other failure is the call's.
FetchArtifactFails(p, a, retryable) ==
    /\ fetch[p][a].at = "prepare"
    /\ LET old == chosen[p][1]
           rejected == old.rejected \cup {old.source}
       IN IF MayChange(p, retryable)
          THEN /\ Choose(p, [old EXCEPT !.rejected = rejected])
               /\ MoveFetch(p, a, [fetch[p][a] EXCEPT !.at = "preflight", !.todo = Remaining(p, rejected)])
          ELSE GiveUp(p, a) /\ UNCHANGED chosen
    /\ UNCHANGED <<store, head, deploying, lock, disk>>

\* What was fetched lacks a required file, weight shard or dictionary: never a reason to change provider.
Unusable(p, a) ==
    /\ fetch[p][a].at = "prepare"
    /\ GiveUp(p, a)
    /\ UNCHANGED <<chosen, store, head, deploying, lock, disk>>

\* A link or a file stands where the cache needs a directory.
CacheUnsafe(p, a) ==
    /\ fetch[p][a].at \in {"reuse", "download"}
    /\ GiveUp(p, a)
    /\ UNCHANGED <<chosen, store, head, deploying, lock, disk>>

\* The staged files are prepared, checked, described in a manifest and published.
PublishArtifact(p, a) ==
    /\ fetch[p][a].at = "prepare"
    /\ store' = [store EXCEPT ![Slot(p, a)] = <<ReadyManifest(chosen[p][1].source, ResolvedRevision(AskedRevision))>>]
    /\ Commit(p, a)
    /\ UNCHANGED <<head, deploying, lock, disk>>

\* A file of a cached artifact is lost or damaged outside the program.
Damage(slot, how) ==
    /\ store[slot] # <<>> /\ store[slot][1].files = "whole"
    /\ Cardinality({other \in DOMAIN store : \E m \in ToSet(store[other]) : m.files # "whole"}) < MaxDamaged
    /\ store' = [store EXCEPT ![slot] = <<[@[1] EXCEPT !.files = how]>>]
    /\ UNCHANGED <<chosen, fetch, head, deploying, lock, disk>>

-----------------------------------------------------------------------------
(* The roles of an LLM deployment                                            *)

NoGroup == [at |-> "idle", todo |-> <<>>, tried |-> 0, pins |-> [r \in Roles |-> <<>>], staged |-> [r \in Roles |-> <<>>]]
Pin(s, revision) == [source |-> s, revision |-> revision]
Pins == deploying.pins

RolesFrom(source) == {r \in Roles : RoleSource[r] = source}
\* group_deployment_preflight_requests: one request for all the roles of a repository.
Groups(roles) == {{q \in roles : RoleRepository[q] = RoleRepository[r]} : r \in roles}

Unresolved(source) == {g \in Groups(RolesFrom(source)) : \A r \in g : Pins[r] = <<>>}
\* Once the neutral roles are resolved the explicit ones follow; local files need nothing.
Current == IF Unresolved("neutral") # {} THEN "neutral"
           ELSE IF Unresolved("huggingface") # {} THEN "huggingface"
           ELSE IF Unresolved("modelscope") # {} THEN "modelscope" ELSE "none"

Held(r) == RoleSource[r] = "file" \/ (disk[r] # <<>> /\ lock[r] # <<>> /\ disk[r][1] = lock[r][1].revision)
Locked == \A r \in Roles : RoleSource[r] = "file" \/ lock[r] # <<>>

\* validate_deployment_identity
ValidDeployment ==
    /\ Roles # {}
    /\ RolesFrom("neutral") # {} => RoleCandidates # <<>> /\ ToSet(RoleCandidates) \subseteq Providers

\* The call finds its publication whole, restores it from the lock, or resolves every role anew.
ProvisionDeployment ==
    /\ deploying.at = "idle" /\ ValidDeployment
    /\ \/ Locked /\ (\A r \in Roles : Held(r)) /\ UNCHANGED deploying
       \/ Locked /\ (\E r \in Roles : ~Held(r)) /\ deploying' = [NoGroup EXCEPT !.at = "fetch", !.pins = lock]
       \/ ~Locked /\ deploying' = [NoGroup EXCEPT !.at = "resolve", !.tried = 1]
    /\ UNCHANGED <<chosen, fetch, store, head, lock, disk>>

AskFor(g, s) ==
    LET repository == RoleRepository[CHOOSE r \in g : TRUE]
    IN deploying' = [deploying EXCEPT !.pins = [r \in Roles |-> IF r \in g THEN <<Pin(s, head[<<s, repository>>])>> ELSE @[r]]]

\* One repository is resolved to the immutable revision that its branch has now.
Resolve ==
    /\ deploying.at = "resolve" /\ Current # "none"
    /\ \E g \in Unresolved(Current) :
         IF Current = "neutral" THEN deploying.tried <= Len(RoleCandidates) /\ AskFor(g, RoleCandidates[deploying.tried])
         ELSE AskFor(g, Current)
    /\ UNCHANGED <<chosen, fetch, store, head, lock, disk>>

\* A neutral group that a candidate cannot serve is asked, with all the others, of the next one.
ResolveFails(retryable) ==
    /\ deploying.at = "resolve" /\ Current # "none"
    /\ (IF retryable THEN "retryable" ELSE "terminal") \in UNION {ProviderAnswers(s) : s \in Providers}
    /\ IF Current = "neutral" /\ retryable /\ deploying.tried < Len(RoleCandidates)
       THEN deploying' = [NoGroup EXCEPT !.at = "resolve", !.tried = deploying.tried + 1]
       ELSE deploying' = NoGroup
    /\ UNCHANGED <<chosen, fetch, store, head, lock, disk>>

\* group_resolved_deployment_artifacts: the roles of a repository must agree on its revision.
Consistent == \A r, q \in Roles :
    Pins[r] # <<>> /\ Pins[q] # <<>> /\ RoleRepository[r] = RoleRepository[q] /\ Pins[r][1].source = Pins[q][1].source
        => Pins[r][1].revision = Pins[q][1].revision

Resolved ==
    /\ deploying.at = "resolve" /\ Current = "none"
    /\ deploying' = IF Consistent THEN [deploying EXCEPT !.at = "fetch"] ELSE NoGroup
    /\ UNCHANGED <<chosen, fetch, store, head, lock, disk>>

\* Faulty variant of RequestedRevision: the branch is asked for once more.
RequestedRevisionBranch(r) == head[<<Pins[r][1].source, RoleRepository[r]>>]
\* The revision that a role's file is asked for: the one that was resolved or locked.
RequestedRevision(r) == Pins[r][1].revision

MissingRoles == {r \in Roles : RoleSource[r] # "file" /\ deploying.staged[r] = <<>>}

\* A role's file is staged: from the cache if it is the locked one, else from its provider.
FetchRole(r) ==
    /\ deploying.at = "fetch" /\ r \in MissingRoles
    /\ deploying' = [deploying EXCEPT !.staged[r] = IF lock[r] # <<>> /\ Held(r) THEN disk[r] ELSE <<RequestedRevision(r)>>]
    /\ UNCHANGED <<chosen, fetch, store, head, lock, disk>>

FetchRoleFails ==
    /\ deploying.at = "fetch" /\ MissingRoles # {}
    /\ deploying' = NoGroup
    /\ UNCHANGED <<chosen, fetch, store, head, lock, disk>>

\* Files, manifest and lock entry are published in one transaction.
PublishRoles ==
    /\ deploying.at = "fetch" /\ MissingRoles = {}
    /\ lock' = Pins
    /\ disk' = deploying.staged
    /\ deploying' = NoGroup
    /\ UNCHANGED <<chosen, fetch, store, head>>

Lose(r) ==
    /\ disk[r] # <<>>
    /\ disk' = [disk EXCEPT ![r] = <<>>]
    /\ UNCHANGED <<chosen, fetch, store, head, deploying, lock>>

-----------------------------------------------------------------------------
\* The default branch of a repository moves on at its provider.
PushRevision(s, repository) ==
    /\ head[<<s, repository>>] < MaxRevision
    /\ head' = [head EXCEPT ![<<s, repository>>] = @ + 1]
    /\ UNCHANGED <<chosen, fetch, store, deploying, lock, disk>>

\* The process ends between two steps; the cache and the lock file stay.
Restart ==
    /\ chosen' = [p \in Plans |-> <<>>]
    /\ fetch' = [p \in Plans |-> [a \in PlanArtifacts[p] |-> NoFetch]]
    /\ deploying' = NoGroup
    /\ UNCHANGED <<store, head, lock, disk>>

ProvisioningInit ==
    /\ chosen = [p \in Plans |-> <<>>]
    /\ fetch = [p \in Plans |-> [a \in PlanArtifacts[p] |-> NoFetch]]
    /\ store \in Legacy
    /\ head = [at \in Providers \X Repositories |-> 1]
    /\ deploying = NoGroup
    /\ lock = [r \in Roles |-> <<>>]
    /\ disk = [r \in Roles |-> <<>>]

Call(p, a) ==
    \/ Ask(p, a) \/ AskLocal(p, a) \/ Reuse(p, a) \/ PlanFiles(p, a) \/ Preflight(p, a) \/ Exhausted(p, a)
    \/ Download(p, a) \/ PublishArtifact(p, a) \/ Unusable(p, a) \/ CacheUnsafe(p, a)
    \/ \E retryable \in BOOLEAN : FetchArtifactFails(p, a, retryable)

ArtifactsNext ==
    \/ \E p \in Plans : \E a \in PlanArtifacts[p] : Call(p, a)
    \/ \E slot \in DOMAIN store, how \in {"changed", "missing"} : Damage(slot, how)
    \/ Restart

RolesNext ==
    \/ ProvisionDeployment \/ Resolve \/ Resolved \/ FetchRoleFails \/ PublishRoles
    \/ \E retryable \in BOOLEAN : ResolveFails(retryable)
    \/ \E r \in Roles : FetchRole(r) \/ Lose(r)
    \/ \E s \in Providers, repository \in Repositories : PushRevision(s, repository)
    \/ Restart

-----------------------------------------------------------------------------
ServedBy(p) == {fetch[p][a].served[1].source : a \in {b \in PlanArtifacts[p] : fetch[p][b].served # <<>>}}

\* Every artifact that a process hands out for one deployment comes from one provider, whatever was
\* cached before, whichever calls fail and in whichever order the calls come; and each provider's
\* files stay in place: an exact file that a deployment was given is never replaced by the file of
\* another provider that a second deployment asked for.
OneProvider ==
    \A p \in Plans :
        /\ Cardinality(ServedBy(p)) <= 1
        /\ \A a \in PlanArtifacts[p] \cap ExactFiles : fetch[p][a].served # <<>> =>
              LET got == fetch[p][a].served[1]
              IN store[<<a, got.root>>] # <<>> /\ store[<<a, got.root>>][1].source = got.source

\* What the lock file says of an LLM deployment is what lies in the cache, though the branches move
\* between resolving and fetching and files are lost: a role's file has the locked revision, the
\* roles of a repository that come from one provider have one revision, and the neutral roles come
\* from one provider.
LockTruthful ==
    /\ \A r \in Roles : disk[r] # <<>> => lock[r] # <<>> /\ lock[r][1].revision = disk[r][1]
    /\ \A r, q \in Roles : lock[r] # <<>> /\ lock[q] # <<>> =>
         /\ (RoleSource[r] = "neutral" /\ RoleSource[q] = "neutral" => lock[r][1].source = lock[q][1].source)
         /\ (RoleRepository[r] = RoleRepository[q] /\ lock[r][1].source = lock[q][1].source /\ RoleSource[r] = RoleSource[q]
               => lock[r][1].revision = lock[q][1].revision)

\* "Resolves a prepared model path without performing network I/O. ... Remote locators return the
\* same deterministic path used by download_model_url_with_intent": an artifact that provisioning
\* has just delivered, and that nobody damaged, is found again by a server built around prepared
\* models.
PreparedFindsProvisioned ==
    \A p \in Plans : \A a \in PlanArtifacts[p] :
        fetch[p][a].served # <<>> /\ (\A m \in ToSet(store[<<a, fetch[p][a].served[1].root>>]) : m.files = "whole")
            => PreparedResolves(p, a)
=============================================================================
