-------------------------- MODULE NamespaceBinding --------------------------
(***************************************************************************)
(* The EphemeralEnvironment reconciler as far as it decides which          *)
(* namespace an environment uses: allocation of a candidate, creation,     *)
(* binding, the work done under a binding, cleanup, deletion and the       *)
(* finalizer.  A reconcile is a sequence of API calls; every call is a     *)
(* step, so that the informer cache, users, administrators, the namespace  *)
(* controller and other environments act between any two of them.          *)
(*                                                                         *)
(* One worker serves one environment at a time (the work queue never       *)
(* hands a key to two workers).  resourceVersions are kept as two flags    *)
(* per environment and one per namespace handle: has the object been       *)
(* written since this copy of it was read?                                 *)
(***************************************************************************)
EXTENDS Integers, Sequences

CONSTANTS Envs,         \* EphemeralEnvironments, one UID each
          Names,        \* namespace names
          Candidates,   \* Candidates[e]: e's digest prefixes, shortest first
          Foreign,      \* an owner that is not an environment
          None,         \* no target, no owner
          Interference, \* what other actors do besides deleting environments
          MaxFailures   \* bound on crashes and failed API calls

Interferences == {"TemplateError", "SpecEdit", "ForeignCreate", "NamespaceDelete", "Relabel"}

CandidateSet(e) == {Candidates[e][i] : i \in 1..Len(Candidates[e])}

ASSUME ConstantsAssumption ==
    /\ Candidates \in [Envs -> Seq(Names)]
    /\ Foreign \notin Envs
    /\ None \notin Envs \cup Names \cup {Foreign}
    /\ Interference \subseteq Interferences
    /\ MaxFailures \in Nat

VARIABLES
    env,        \* the EphemeralEnvironments in the API server
    cached,     \* the informer cache's copy of each
    lagging,    \* lagging[e]: e was written after cached[e]
    pc,         \* where e's reconcile stands
    original,   \* the copy the reconcile read
    local,      \* the copy the reconcile modifies
    outdated,   \* outdated[e]: e was written after original[e]
    ns,         \* the namespaces in the API server
    nsCache,    \* the informer cache's copy of each
    handle,     \* handle[e]: the namespace e is about to delete is as it was read
    usage,      \* usage[e]: were workloads submitted for e, and cleaned up since?
    failures    \* crashes and failed calls so far

envVars    == <<env, cached, lagging>>
workerVars == <<pc, original, local, outdated>>
nsVars     == <<ns, nsCache, handle>>
vars == <<envVars, workerVars, nsVars, usage, failures>>

Lives   == {"new", "live", "deleting", "gone"}
Readies == {"unset", "failed", "unmanaged"}
Usages  == {"unused", "used", "cleaned"}

\* life: before the finalizer, live, deleting, finalizer removed.  bound,
\* cleanup and ready are the entries of status.conditions.
Records == [life : Lives, target : Names \cup {None},
            bound : BOOLEAN, cleanup : BOOLEAN, ready : Readies]

Fresh == [life |-> "new", target |-> None, bound |-> FALSE, cleanup |-> FALSE, ready |-> "unset"]

Namespaces == [owner : Envs \cup {Foreign, None}, terminating : BOOLEAN]

Absent == [owner |-> None, terminating |-> FALSE]

Steps == {"idle", "adopt", "reconcile", "allocate", "create", "recheck", "work",
          "dispose", "cleanup", "deleteNamespace", "removeFinalizer", "patch"}

TypeOK ==
    /\ env \in [Envs -> Records]
    /\ cached \in [Envs -> Records]
    /\ lagging \in [Envs -> BOOLEAN]
    /\ pc \in [Envs -> Steps]
    /\ original \in [Envs -> Records]
    /\ local \in [Envs -> Records]
    /\ outdated \in [Envs -> BOOLEAN]
    /\ ns \in [Names -> Namespaces]
    /\ nsCache \in [Names -> Namespaces]
    /\ handle \in [Envs -> BOOLEAN]
    /\ usage \in [Envs -> Usages]
    /\ failures \in Nat

Init ==
    /\ env = [e \in Envs |-> Fresh]
    /\ cached = env
    /\ lagging = [e \in Envs |-> FALSE]
    /\ pc = [e \in Envs |-> "idle"]
    /\ original = env
    /\ local = env
    /\ outdated = [e \in Envs |-> FALSE]
    /\ ns = [n \in Names |-> Absent]
    /\ nsCache = ns
    /\ handle = [e \in Envs |-> FALSE]
    /\ usage = [e \in Envs |-> "unused"]
    /\ failures = 0

-----------------------------------------------------------------------------
\* Steps several operations share.

\* The reconcile of e goes on at step s.
Goto(e, s) == pc' = [pc EXCEPT ![e] = s]

\* The reconcile of e ends and forgets what it read.
End(e) ==
    /\ Goto(e, "idle")
    /\ original' = [original EXCEPT ![e] = Fresh]
    /\ local' = [local EXCEPT ![e] = Fresh]
    /\ outdated' = [outdated EXCEPT ![e] = FALSE]

\* e is written in the API server: the cache now lags behind.
Persist(e, record) ==
    /\ env' = [env EXCEPT ![e] = record]
    /\ lagging' = [lagging EXCEPT ![e] = TRUE]
    /\ UNCHANGED cached

\* e is written by somebody else than its reconcile.
PersistOutside(e, record) ==
    /\ Persist(e, record)
    /\ outdated' = [outdated EXCEPT ![e] = pc[e] # "idle"]
    /\ UNCHANGED <<pc, original, local>>

\* The status that the deferred patch is going to write.
Propose(e, record) ==
    /\ local' = [local EXCEPT ![e] = record]
    /\ Goto(e, "patch")
    /\ UNCHANGED <<original, outdated>>

\* The pass goes on, or ends, with nothing new to persist.
Continue(e, s) == Goto(e, s) /\ UNCHANGED <<original, local, outdated>>

\* Namespace n is written, and every copy of it that was read is outdated.
WriteNamespace(n, namespace) ==
    /\ ns' = [ns EXCEPT ![n] = namespace]
    /\ handle' = [e \in Envs |-> handle[e] /\ local[e].target # n]
    /\ UNCHANGED nsCache

\* Mutant: the managed label alone makes a namespace one's own.
OwnedIfManaged(e) == ns[local[e].target].owner \in Envs

\* ownsNamespace: managed, and labelled with the UID of e.
Owned(e) == ns[local[e].target].owner = e

Missing(e) == ns[local[e].target] = Absent

Terminating(e) == ns[local[e].target].terminating

Conditions(record) == <<record.bound, record.cleanup, record.ready>>

\* setFailed: the Ready condition of the copy that will be patched.
SetFailed(e, reason) == Propose(e, [local[e] EXCEPT !.ready = reason])

-----------------------------------------------------------------------------
\* Reconcile.

\* The worker reads e from the cache.
Begin(e) ==
    /\ pc[e] = "idle"
    /\ cached[e].life # "gone"
    /\ \/ cached[e].life = "deleting" /\ Goto(e, "dispose")
       \/ cached[e].life = "new" /\ Goto(e, "adopt")
       \/ cached[e].life = "live" /\ cached[e].target = None /\ Goto(e, "allocate")
       \/ cached[e].life = "live" /\ cached[e].target # None /\ Goto(e, "reconcile")
    /\ original' = [original EXCEPT ![e] = cached[e]]
    /\ local' = [local EXCEPT ![e] = cached[e]]
    /\ outdated' = [outdated EXCEPT ![e] = lagging[e]]
    /\ UNCHANGED <<envVars, nsVars, usage, failures>>

\* The finalizer is added by a patch without a resourceVersion.
AddFinalizer(e) ==
    /\ pc[e] = "adopt"
    /\ End(e)
    /\ IF env[e].life = "new"
       THEN Persist(e, [env[e] EXCEPT !.life = "live"])
       ELSE UNCHANGED envVars
    /\ UNCHANGED <<nsVars, usage, failures>>

\* The shortest candidate after the current one that the cache shows free.
AllocateNamespace(e) ==
    LET names == Candidates[e]
        later == {i \in 1..Len(names) : \A j \in 1..Len(names) :
                      names[j] = local[e].target => j < i}
        free  == {i \in later : nsCache[names[i]].owner \in {None, e}}
    IN  /\ pc[e] = "allocate"
        /\ \/ \E i \in free :
                 /\ \A j \in free : i <= j
                 /\ Propose(e, [local[e] EXCEPT !.target = names[i]])
           \/ free = {} /\ Continue(e, "patch")
        /\ UNCHANGED <<envVars, nsVars, usage, failures>>

\* The template is missing, or its TTL or deploy timeout is invalid.
TemplateError(e) ==
    /\ "TemplateError" \in Interference
    /\ pc[e] = "reconcile"
    /\ SetFailed(e, "failed")
    /\ UNCHANGED <<envVars, nsVars, usage, failures>>

\* Mutant: an expired environment is marked, not deleted.
MarkExpired(e) ==
    /\ pc[e] = "reconcile"
    /\ Goto(e, "patch")
    /\ Persist(e, [env[e] EXCEPT !.life = "expired"])
    /\ UNCHANGED <<original, local, outdated, nsVars, usage, failures>>

\* The TTL has passed: the reconcile deletes the environment.
Expire(e) ==
    /\ pc[e] = "reconcile"
    /\ Goto(e, "patch")
    /\ IF env[e].life = "live"
       THEN /\ Persist(e, [env[e] EXCEPT !.life = "deleting"])
            /\ outdated' = [outdated EXCEPT ![e] = TRUE]
       ELSE UNCHANGED <<envVars, outdated>>
    /\ UNCHANGED <<original, local, nsVars, usage, failures>>

\* Mutant: workloads are submitted before the binding is persisted.
WorkAtOnce(e) == Continue(e, "work")

\* Mutant: an owned namespace is only recognised once it is bound.
MoveOnUnlessBound(e) == Continue(e, IF local[e].bound THEN "work" ELSE "allocate")

\* The target is e's own: bind it first, work in it in a later pass.
UseNamespace(e) ==
    IF local[e].bound THEN Continue(e, "work")
                      ELSE Propose(e, [local[e] EXCEPT !.bound = TRUE])

\* Mutant: a bound environment moves on to its next candidate.
MoveOn(e) == Continue(e, "allocate")

\* The target is not e's: try the next candidate, unless it is bound.
RejectNamespace(e) ==
    IF local[e].bound THEN SetFailed(e, "unmanaged") ELSE Continue(e, "allocate")

\* What a live read of an existing target decides before any workload.
Examine(e) ==
    \/ Owned(e) /\ Terminating(e) /\ Continue(e, "patch")
    \/ Owned(e) /\ ~Terminating(e) /\ UseNamespace(e)
    \/ ~Owned(e) /\ ~Missing(e) /\ RejectNamespace(e)

\* createNamespace, first live read.
GetNamespace(e) ==
    /\ pc[e] = "reconcile"
    /\ \/ Examine(e)
       \/ Missing(e) /\ local[e].bound /\ Continue(e, "patch")
       \/ Missing(e) /\ ~local[e].bound /\ Continue(e, "create")
    /\ UNCHANGED <<envVars, nsVars, usage, failures>>

\* createNamespace, Create: either the namespace is new or it already exists.
CreateNamespace(e) ==
    /\ pc[e] = "create"
    /\ IF Missing(e)
       THEN /\ WriteNamespace(local[e].target, [owner |-> e, terminating |-> FALSE])
            /\ Propose(e, [local[e] EXCEPT !.bound = TRUE])
       ELSE /\ Continue(e, "recheck")
            /\ UNCHANGED nsVars
    /\ UNCHANGED <<envVars, usage, failures>>

\* createNamespace, live read after AlreadyExists.
RecheckNamespace(e) ==
    /\ pc[e] = "recheck"
    /\ Examine(e) \/ (Missing(e) /\ Continue(e, "patch"))
    /\ UNCHANGED <<envVars, nsVars, usage, failures>>

\* Work on the components: Jobs, binding Secrets, consumer labels.  It may
\* end in a terminal failure.
SubmitWork(e) ==
    /\ pc[e] = "work"
    /\ usage' = [usage EXCEPT ![e] = "used"]
    /\ Continue(e, "patch") \/ SetFailed(e, "failed")
    /\ UNCHANGED <<envVars, nsVars, failures>>

-----------------------------------------------------------------------------
\* reconcileDelete.

\* Mutant: a namespace that is not e's is never e's concern.
ReleasableIfNotOwned(e) == local[e].target # None => ~Owned(e)

\* Mutant: the checkpoint is not looked at when the namespace is missing.
ReleasableIfUnbound(e) == local[e].target # None => ~Owned(e) /\ ~local[e].bound

\* There is nothing (left) to clean up.
Releasable(e) ==
    local[e].target # None =>
        \/ ~Owned(e) /\ ~local[e].bound
        \/ Missing(e) /\ local[e].cleanup

\* Mutant: the namespace is deleted before the checkpoint is persisted.
DeleteFirst(e) == "deleteNamespace"

\* Mutant: the namespace is left to others once cleanup is done.
KeepNamespace(e) == IF local[e].cleanup THEN "removeFinalizer" ELSE "cleanup"

\* An owned namespace is deleted once the cleanup checkpoint was read.
AfterCleanup(e) == IF local[e].cleanup THEN "deleteNamespace" ELSE "cleanup"

\* The live read of the namespace and the decisions taken from it.
GetForDeletion(e) ==
    /\ pc[e] = "dispose"
    /\ \/ Releasable(e) /\ Continue(e, "removeFinalizer")
       \/ ~Releasable(e) /\ ~Owned(e) /\ SetFailed(e, "unmanaged")
       \/ ~Releasable(e) /\ Owned(e) /\ Continue(e, AfterCleanup(e))
    /\ handle' = [handle EXCEPT ![e] = pc'[e] = "deleteNamespace"]
    /\ UNCHANGED <<envVars, ns, nsCache, usage, failures>>

\* Undeploy and deprovision Jobs still run: look again later.
CleanupPending(e) ==
    /\ pc[e] = "cleanup"
    /\ local[e].bound
    /\ usage[e] # "cleaned"
    /\ Continue(e, "patch")
    /\ UNCHANGED <<envVars, nsVars, usage, failures>>

\* All cleanup is done or given up: propose the checkpoint.
CleanupDone(e) ==
    /\ pc[e] = "cleanup"
    /\ usage' = [usage EXCEPT ![e] = IF local[e].bound THEN "cleaned" ELSE @]
    /\ Propose(e, [local[e] EXCEPT !.cleanup = TRUE])
    /\ UNCHANGED <<envVars, nsVars, failures>>

\* The template is gone: the checkpoint is proposed without any cleanup.
CleanupSkipped(e) ==
    /\ "TemplateError" \in Interference
    /\ pc[e] = "cleanup"
    /\ Propose(e, [local[e] EXCEPT !.cleanup = TRUE])
    /\ UNCHANGED <<envVars, nsVars, usage, failures>>

\* Mutant: Delete without preconditions.
DeleteByName(e) == ~Missing(e)

\* The UID and resourceVersion preconditions of Delete.
Unmodified(e) == handle[e]

\* Delete the namespace that was read.
DeleteNamespace(e) ==
    /\ pc[e] = "deleteNamespace"
    /\ \/ /\ Unmodified(e)
          /\ WriteNamespace(local[e].target, [ns[local[e].target] EXCEPT !.terminating = TRUE])
          /\ Continue(e, "removeFinalizer")
       \/ /\ ~Unmodified(e)
          /\ Continue(e, IF Missing(e) THEN "removeFinalizer" ELSE "patch")
          /\ UNCHANGED nsVars
    /\ UNCHANGED <<envVars, usage, failures>>

\* The finalizer is removed by a patch without a resourceVersion.
RemoveFinalizer(e) ==
    /\ pc[e] = "removeFinalizer"
    /\ End(e)
    /\ IF env[e].life = "deleting"
       THEN Persist(e, [env[e] EXCEPT !.life = "gone"])
       ELSE UNCHANGED envVars
    /\ UNCHANGED <<nsVars, usage, failures>>

-----------------------------------------------------------------------------
\* The deferred status patch of both.  A change of the target, of
\* NamespaceBound or towards CleanupComplete carries the resourceVersion that
\* was read; every other patch does not.  It is a merge patch: the condition
\* list is replaced as a whole when any condition changed.
Locked(e) ==
    \/ local[e].target # original[e].target
    \/ local[e].bound # original[e].bound
    \/ local[e].cleanup # original[e].cleanup

\* Mutant: the whole status is replaced by the reconcile's copy.
Overwritten(e) ==
    [env[e] EXCEPT !.target = local[e].target, !.bound = local[e].bound,
                   !.cleanup = local[e].cleanup, !.ready = local[e].ready]

Merged(e) ==
    LET replaced == IF Conditions(local[e]) # Conditions(original[e])
                    THEN [env[e] EXCEPT !.bound = local[e].bound,
                                        !.cleanup = local[e].cleanup,
                                        !.ready = local[e].ready]
                    ELSE env[e]
    IN  IF local[e].target # original[e].target
        THEN [replaced EXCEPT !.target = local[e].target]
        ELSE replaced

\* Phase, components and times may change too (touched), or the patch is
\* empty and is not sent.
PatchStatus(e) ==
    /\ pc[e] = "patch"
    /\ End(e)
    /\ \E touched \in BOOLEAN :
          IF /\ env[e].life # "gone"
             /\ Locked(e) => ~outdated[e]
             /\ touched \/ local[e] # original[e]
          THEN Persist(e, Merged(e))
          ELSE UNCHANGED envVars
    /\ UNCHANGED <<nsVars, usage, failures>>

\* A crash, or an API call that fails and ends the pass.
Abort(e) ==
    /\ pc[e] # "idle"
    /\ failures < MaxFailures
    /\ failures' = failures + 1
    /\ End(e)
    /\ UNCHANGED <<envVars, nsVars, usage>>

-----------------------------------------------------------------------------
\* Everybody else.

\* The watch brings the cache up to date.
SyncEnv(e) ==
    /\ lagging[e]
    /\ cached' = [cached EXCEPT ![e] = env[e]]
    /\ lagging' = [lagging EXCEPT ![e] = FALSE]
    /\ UNCHANGED <<env, workerVars, nsVars, usage, failures>>

SyncNamespace(n) ==
    /\ nsCache[n] # ns[n]
    /\ nsCache' = [nsCache EXCEPT ![n] = ns[n]]
    /\ UNCHANGED <<envVars, workerVars, ns, handle, usage, failures>>

\* A user deletes the environment; without a finalizer it is gone at once.
UserDelete(e) ==
    /\ env[e].life \in {"new", "live"}
    /\ PersistOutside(e, [env[e] EXCEPT !.life = IF @ = "new" THEN "gone" ELSE "deleting"])
    /\ UNCHANGED <<nsVars, usage, failures>>

\* A user edits the spec or the metadata.
SpecEdit(e) ==
    /\ "SpecEdit" \in Interference
    /\ env[e].life # "gone"
    /\ PersistOutside(e, env[e])
    /\ UNCHANGED <<nsVars, usage, failures>>

\* The namespace controller has emptied a terminating namespace.
FinishTermination(n) ==
    /\ ns[n].terminating
    /\ WriteNamespace(n, Absent)
    /\ UNCHANGED <<envVars, workerVars, usage, failures>>

\* Somebody outside Petri creates a namespace.
ForeignCreate(n) ==
    /\ "ForeignCreate" \in Interference
    /\ ns[n] = Absent
    /\ WriteNamespace(n, [owner |-> Foreign, terminating |-> FALSE])
    /\ UNCHANGED <<envVars, workerVars, usage, failures>>

\* An administrator deletes a namespace.
NamespaceDelete(n) ==
    /\ "NamespaceDelete" \in Interference
    /\ ns[n] # Absent
    /\ ~ns[n].terminating
    /\ WriteNamespace(n, [ns[n] EXCEPT !.terminating = TRUE])
    /\ UNCHANGED <<envVars, workerVars, usage, failures>>

\* An administrator takes a namespace over by changing its labels.
Relabel(n) ==
    /\ "Relabel" \in Interference
    /\ ns[n].owner \in Envs
    /\ WriteNamespace(n, [ns[n] EXCEPT !.owner = Foreign])
    /\ UNCHANGED <<envVars, workerVars, usage, failures>>

-----------------------------------------------------------------------------
Reconcile(e) ==
    \/ AddFinalizer(e) \/ AllocateNamespace(e) \/ GetNamespace(e) \/ CreateNamespace(e)
    \/ RecheckNamespace(e) \/ SubmitWork(e) \/ GetForDeletion(e) \/ CleanupPending(e)
    \/ CleanupDone(e) \/ DeleteNamespace(e) \/ RemoveFinalizer(e) \/ PatchStatus(e)

EnvStep(e) ==
    \/ Begin(e) \/ Reconcile(e) \/ TemplateError(e) \/ Expire(e) \/ CleanupSkipped(e)
    \/ Abort(e) \/ SyncEnv(e) \/ UserDelete(e) \/ SpecEdit(e)

NamespaceStep(n) ==
    \/ SyncNamespace(n) \/ FinishTermination(n) \/ ForeignCreate(n)
    \/ NamespaceDelete(n) \/ Relabel(n)

Next == (\E e \in Envs : EnvStep(e)) \/ (\E n \in Names : NamespaceStep(n))

Spec == Init /\ [][Next]_vars

-----------------------------------------------------------------------------
\* Safety.

Live(e) == env[e].life \in {"new", "live"}

\* Two environments whose UIDs share a digest prefix never hold the same
\* namespace: neither deploys into, nor deletes, the other's (createNamespace,
\* allocateNamespace and the locked status patch).
DistinctBinding ==
    \A e, f \in Envs :
        e # f /\ env[e].bound /\ env[f].bound /\ Live(e) /\ Live(f)
            => env[e].target # env[f].target

\* A binding is backed by the namespace: until its cleanup checkpoint, a bound
\* environment owns its target, and nobody has deleted it.
BindingBacked ==
    \A e \in Envs :
        env[e].bound /\ ~env[e].cleanup =>
            /\ env[e].target # None
            /\ ns[env[e].target] = [owner |-> e, terminating |-> FALSE]

\* Workloads are only submitted under an assignment that is persisted and
\* locked, however old the copy is the reconcile works on.
WorkUnderBinding ==
    \A e \in Envs :
        pc[e] = "work" => env[e].bound /\ env[e].target = local[e].target

\* An environment that left took its workloads and allocations with it.
NothingOwed == \A e \in Envs : env[e].life = "gone" => usage[e] # "used"

\* Nor did it leave its namespace behind.
TargetReleased ==
    \A e \in Envs : env[e].life = "gone" /\ env[e].target # None =>
        ns[env[e].target] # [owner |-> e, terminating |-> FALSE]

\* A namespace the operator deletes belongs to the environment that deletes
\* it and holds nothing the environment still owes, whoever relabels, deletes
\* and re-creates namespaces between the read and the Delete.
DeletesOwnAndClean ==
    [][\A e \in Envs : pc[e] = "deleteNamespace" =>
          \A n \in Names : pc'[e] = "removeFinalizer" /\ ns'[n] # ns[n] =>
              ns[n].owner = e /\ env[e].target = n /\ usage[e] # "used"]_vars

\* Once NamespaceBound is persisted it stays, and so does the target
\* (README.md:84-85, ephemeralenvironment_types.go:83).
AssignmentLocked ==
    [][\A e \in Envs : env[e].bound =>
          env'[e].bound /\ env'[e].target = env[e].target]_vars

\* The part of a record that assigns a namespace.
Assigned(record) ==
    [life |-> record.life, target |-> record.target,
     bound |-> record.bound, cleanup |-> record.cleanup]

Assignment == INSTANCE NamespaceAssignment WITH
    Allowed <- [e \in Envs |-> CandidateSet(e)],
    record <- [e \in Envs |-> Assigned(env[e])]

\* The persisted records behave as NamespaceAssignment says: whatever the
\* caches show, a target moves only before it is bound, and an environment
\* leaves only with its checkpoint.
ImplementsAssignment == Assignment!Spec

-----------------------------------------------------------------------------
\* Liveness.  The work queue retries and requeues every environment that is
\* not settled, the watch delivers, the namespace controller empties what is
\* deleted, and the cleanup Jobs finish or run out of retries.  Users,
\* administrators and failures are under no fairness.
Fairness ==
    /\ \A e \in Envs :
          /\ WF_vars(Begin(e))
          /\ WF_vars(Reconcile(e))
          /\ SF_vars(CleanupDone(e))
          /\ WF_vars(SyncEnv(e))
    /\ \A n \in Names : WF_vars(FinishTermination(n)) /\ WF_vars(SyncNamespace(n))

FairSpec == Spec /\ Fairness

\* A deleted environment goes, through conflicts, stale reads and crashes.
DeletionCompletes ==
    \A e \in Envs : env[e].life = "deleting" ~> env[e].life = "gone"

\* Every environment gets a namespace of its own, whatever an earlier pass left
\* behind, unless it is deleted first or says that its template is at fault.
EventuallyBound ==
    \A e \in Envs : env[e].life = "new" ~>
        env[e].bound \/ ~Live(e) \/ env[e].ready = "failed"
=============================================================================
