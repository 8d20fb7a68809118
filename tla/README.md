# Formal verification of petri-operator

TLA+ models of the operator's own logic, written from the Go source, checked
with TLC on small instances and, for the core, proved with TLAPS for all of
them. Paths are relative to the repository; `controller/` stands for
`internal/controller/`.

## 1. Inventory

petri-operator creates short-lived environments on one Kubernetes cluster. An
`EphemeralEnvironment` names an `EnvironmentTemplate`; the operator gives it a
namespace and installs the template's components in dependency order, each
with a Job that runs helm. A component may instead refer to a
`SharedComponent`, one instance that several environments use, and provisions
an allocation in it (a database, a queue) with a Job of its own.

| Component | State | Operations |
|---|---|---|
| Namespace binding (`controller/ephemeralenvironment_controller.go`) | finalizer, `status.targetNamespace`, conditions `NamespaceBound`, `CleanupComplete` and `Ready`; the namespace and its owner labels | add the finalizer, allocate a candidate, create or recognise the namespace, bind, expire, clean up, checkpoint, delete the namespace, remove the finalizer |
| Deployment (same file, `controller/deploy.go`, `component_status.go`) | `status.phase`, `observedGeneration`, `components[]` with phase and retries | reset on a new generation, find the first level that is not ready, submit, observe, check readiness, count failures, settle |
| Teardown (`controller/undeploy.go`, `deprovisionShared`) | the same component records, binding Secrets, deprovision Jobs | undeploy in reverse order, deprovision, give up |
| Admission to a shared component (`controller/shared.go`) | a Lease of 30 s, consumer labels on namespaces | acquire and release the lease, `registerConsumer`, submit the provision Job |
| SharedComponent controller (`controller/sharedcomponent_controller.go`, `_status.go`) | finalizer, `Ready`, the annotation `uninstall-retries`, deploy and undeploy Jobs | install, report Ready, drain, wait for the install, uninstall, remove the finalizer |
| Job protocol (`internal/deployer/job.go`, `internal/provisioner/job.go`) | one Job per name, its payload hash | Submit, Observe |
| Dependency graph (`internal/graph/kahn.go`) | none (a function) | `BuildLevels` |
| Status patcher (`internal/helpers/patcher.go`) | none | JSON merge patch against the copy that was read |
| Readiness checker, helm deployer, renderer, secret generator, metrics, `cmd/`, `internal/config`, API types | none that another part reads back | see section 8 |

**How they interact.** Components never call each other across controllers:
they meet in API objects. A controller has one worker per object (the work
queue never hands a key to two workers), reads most objects from informer
caches that lag behind the API server, and writes with merge patches, of which
only those that touch the target, `NamespaceBound` or `CleanupComplete` carry a
resourceVersion. A change comes back as a watch event; an error, or a pass
that has to wait, comes back as a requeue. Environment controllers and the
SharedComponent controller meet in the Lease, in the consumer labels and in
the component's deletion timestamp. Jobs are run by Kubernetes and may be
deleted by anybody.

**What is hard.** Every API call of a reconcile is a point where other workers,
users and Kubernetes controllers act. What a pass read may be old when it acts
on it, and its own previous patch may be missing from what it reads. A pass may
end at any call: crash, conflict, timeout. A Lease may expire under its holder.
A Job may be replaced by another owner's. A merge patch sends what changed
since the copy was read, which is not what changed since the object was
written. `PROJECT.json` lists the hazards at their lines, and says for each
which property would catch it, or why none does.

**What makes each component correct.**

- *Binding*: two environments whose UIDs share a digest prefix never use one
  namespace; a live binding is backed by a namespace the environment owns; a
  binding never changes; nothing is deployed before it is persisted; a
  namespace is deleted only by its owner and only after cleanup is recorded;
  deletion completes and leaves no namespace behind.
- *Deployment*: a component starts only when its dependencies are installed
  from the same generation; Ready means installed from the current spec;
  Failed is final for a generation; a stable spec settles.
- *Teardown*: a component goes only after everything that uses it; no release
  and no allocation is left behind but for the reasons the code accepts; a Job
  finds its credentials; cleanup ends although every Job may fail.
- *Admission*: nobody has an allocation in an instance that is being
  uninstalled; an allocation stays behind only for the reasons the code accepts,
  and a stale cache is none of them; `maxConsumers` is kept as long as
  the lease is; who fails at capacity was turned away by others; deletion and
  admission both come to an end.
- *Jobs*: a running Job is never deleted by the operator; success is reported
  only of the options that ran last; a failure, of a Job, a submission or a
  readiness check, is charged once.
- *Graph*: a component comes in the earliest level after all it depends on; of the well-formed templates exactly the cyclic
  ones are refused; duplicates and unknown names are handled.

## 2. Plan

| Order | Module | Contents | State |
|---|---|---|---|
| 1 | `NamespaceAssignment` | abstract promise of a namespace assignment | done |
| 2 | `NamespaceBinding` | the reconciler's namespace protocol, implements 1 | done |
| 3 | `NamespaceBindingProofs`, `NamespaceRefinementProofs` | types, locking, backing, exclusivity, the refinement; released targets, clean deletions, nothing owed | done |
| 4 | `SharedAdmission` | lease, admission, drain, uninstall | done |
| 5 | `JobControl` | Submit and Observe of one Job name | done |
| 6 | `SharedAdmissionProofs`, `JobControlProofs` | types and every safety property of 4 and 5; the contraction of the Job protocol | done |
| 7 | `DependencyGraph`, `DependencyGraphProofs` | `BuildLevels` against its definition; what the levels are good for | done |
| 8 | `EnvDeploy` | the deployment of one environment, level by level | done |
| 9 | `OrderedTeardown` | abstract promise of the order of a teardown | done |
| 9 | `EnvTeardown` | undeploy order, deprovision with Secrets, the retry budget that deployment and teardown share, what the missing template skips; implements the promise | done |
| 10 | `EnvTeardownProofs`, `TeardownSafetyProofs` | types and the order; credentials, nothing of the environment left | done |
| 11 | `EnvDeployProofs` | types, Ready is installed, Failed is final, dependencies first, levels founded | done |
| 12 | further proofs | a refinement of `JobControl` to an abstract Job with "seen" made explicit | open |

`EnvDeploy` composes with the others through outcomes: the levels are
constants with the properties that `DependencyGraph` establishes (theorem
`LevelsServe`), a call of Submit or Observe is `JobControl`'s protocol
contracted to a step (that the contraction is right of the live Job, also for a
call that fails, is theorem `CallsAreContracted`; when the cache shows the Job is
left to "seen"), and being allocated, at capacity or refused is what
`SharedAdmission` decides.
`EnvTeardown` takes levels and Jobs in the same way, and starts from the states
a deployment may have reached, in which what exists is closed under
dependencies (theorem `LevelsAreFounded`). `NamespaceBinding` sees all of the deployment as `SubmitWork` and
all of the teardown as `CleanupPending` and `CleanupDone`; `SharedAdmission`
sees the release of an allocation as `Deprovision`.

## 3. The modules and the code

`PROJECT.json` maps every definition to the lines it models. A variable named
`pc` is the position of one worker between two API calls. Everything between
two calls is one step, because no other actor sees the Go variables.

**NamespaceBinding.** `env`, `cached` and `lagging` are the object in the API
server, the informer's copy, and whether the copy is old. `original` and
`local` are what `Reconcile` read and what it has modified since, exactly the
pair the status patcher diffs. resourceVersions are not numbers: a conditional
write can only ask whether the object was written since it was read, so
`outdated` and `handle` keep that answer. `Begin` is the cached Get;
`AllocateNamespace` is `allocateNamespace`; `GetNamespace`, `CreateNamespace`
and `RecheckNamespace` are the three calls of `createNamespace`; `GetForDeletion`,
`CleanupDone`, `CleanupSkipped`, `DeleteNamespace` and `RemoveFinalizer` are
`reconcileDelete`; `PatchStatus` is the deferred patch, with `Locked` the test
that adds the resourceVersion and `Merged` the JSON merge patch, which replaces
`status.conditions` as a whole list. `Abort` ends a pass at any call; a
restart of the operator is an `Abort` followed by `SyncEnv` and
`SyncNamespace`. The TTL is an event (`Expire`), not a clock.

**NamespaceAssignment** is the record a user may rely on: assigned, moved only
while unbound, locked by `NamespaceBound`, released after the checkpoint. The
refinement mapping (`Assigned`) projects `env` onto it.

**SharedAdmission.** The lease is absent, held or expired; `holds[a]` says that
the Lease in the API server is the one `a` read or created, which is what its UID
precondition tests. `GetLease`, `DeleteExpiredLease`, `CreateLease` and
`ReleaseLease` are the calls of `acquireProvisionLease` and
`releaseProvisionLease`; `CheckShared`, `CountConsumers`, `LabelConsumer` and
`RecheckShared` those of `registerConsumer`. `BeginDeletion`, `CheckDeletion`,
`DrainConsumers` and `Teardown` are the controller's `reconcileDelete`.
`LabelDelayed` and `LateLabel` split a label patch whose caller timed out. An object that is
deleted and created again has another UID. `verdict` is what a pass found under
the lease, and `status` what `submitDeploys` makes of it: a refusal leaves the
component pending; an error is charged to its retries (`Charged`; any error may be
the last, since the retries are shared with failures that happen elsewhere);
and at capacity (`"full"`) the environment fails for good, until its spec is
edited. The status patch belongs to the last call of the pass. `Deprovision`
stands for the whole of `deprovisionShared`: the allocation is released, or
nothing is done because the cache does not know the component, or the allocation
stays because the template, the provider or the binding Secret is gone or the
retries are used up (`Abandoned`, kept as the history `abandoned`). Which of these
reasons applies is `EnvTeardown`'s business.

**JobControl.** A Job is a UID, a payload (owner, spec edit, attempt), a state
and a deletion mark. Submit and Observe first use the cached copy and confirm
it with a live read before they replace or report it; `SameJob` is the UID
precondition of Delete. `Versioned` tells the deployer, whose payload has the
retry count, from the provisioner, whose payload has not; a deployer's
component also goes through the readiness check (`CheckReady`,
`ReadinessTimeout`). `SubmitFails` is a submission that returned an error, which
is charged to the same counter as a failed Job; a request that got no answer may
have done its work (`Unanswered`). An error of Observe, like a crash, ends the pass
uncharged (`Crash`). `failed` is a history of what failed. UIDs are taken from a
small set and reused once no copy remembers them, so that the state space is finite.

**DependencyGraph.** The two passes of `BuildLevels` step by step, for any list
of components and dependency lists (over the constants `Names` and `Templates`).
The reference says what levels are (after
all dependencies, directly after one of them) and what a cycle is (`Cyclic`).

**EnvDeploy.** `status` and `cache` are the persisted status and the informer's
copy, `read` and `local` again the pair that is diffed. `Reset` is the
generation check, `Frontier` is `firstPending`, and the deploy of a level
submits all of it and then observes. A submission may be refused
(`SubmitRefused`), whether the component is shared or plain: the lease is taken, the
shared component is not ready, or the values of a plain one name a component
whose binding Secret is missing. That is not charged and may go on for ever.
`SubmitFails` is capacity, or an error that is charged; `ObserveRefused` and
`StepFails` end the pass with an error, uncharged. Only changed fields are written, and the
list `components` is replaced as a whole if it changed. `SeesOwnWrites` restricts
passes to start from a cache that shows the operator's own last patch (spec
edits still arrive late): with it TRUE the properties hold, and with it FALSE
one does not (section 6). `installed` is a history of what helm installed.

**EnvTeardown.** One deletion pass after another, of an environment whose
namespace is bound. `Begin` is the part of `reconcileDelete` up to
`undeployAll`, `Observe`, `LevelObserved` and `Submit` are that function's loop,
`Release`, `Deprovision`, `Resubmit` and `DropNext` the calls of
`deprovisionShared` for the shared component whose turn it is (`This`), and
`Patch` the deferred patch, with a resourceVersion only for the checkpoint.
`work` is what the pass has before it. A binding Secret is read from the cache
(`shown`), and so may be missed when it is new or seen when it is gone; an old
copy of the credentials makes `ensureProvisionSecret` fail, which is one of the
errors of `StepFails`. `fate` is a history of what the operator has made of a
component (what it was first found to be when it went), and `raced` one of the
two races the code leaves open: a deploy Job still ran when its release was
uninstalled, or the copy of the binding was old. The environment starts in any
state in which a deployment of one spec can be deleted; the Jobs of two specs
at once are left out.

**OrderedTeardown** is what a user may rely on: each component is up, leaving or
gone; it leaves only after its users, and the end is announced when all are
gone or nobody knows any more what there was. The refinement mapping takes the
users of a plain component to be the plain ones that depend on it, and those of
a shared one to be all plain ones, since allocations are released last.

## 4. The runs

All bounds are constants of the modules, and appear in guards only.

| Run | Question | Instance |
|---|---|---|
| `binding_pair` | exclusive and backed bindings; the refinement | two environments whose shortest candidate collides and whose next ones differ; every interleaving of their passes, TTLs, deletions, stale caches |
| `binding_tampered` | locking, work under a binding, deletion with checkpoint, nothing owed | one environment; spec edits, foreign namespaces, `kubectl delete` and relabelling, one crash |
| `binding_deletion` | bound in the end, deleted in the end, no namespace kept | one environment, template errors, two crashes, fairness |
| `binding_erased` | finding 1 | one environment, template errors, no crash |
| `shared_admission` | one holder, capacity, turned away only by others; deletion and admission come to an end | two environments, `maxConsumers` 1, one retry, one failure (a crash, a charged error, a failed release, a failed install, a changed provider or a spec edit), the component created again once, fairness |
| `shared_overrun` | no orphaned, forgotten or racing release when leases expire under their holders and labels land late | two environments, no limit, two retries of the uninstall, one failure; releases that succeed, are skipped or are abandoned |
| `job_contended` | running Jobs kept, success is current, failures charged once | two owners of one name, one edit each, two attempts, one crash, failed request or foreign deletion; payloads without attempt number, which are the harder ones to tell apart |
| `job_settles` | a component settles | one owner, payloads with attempt number, readiness checks, one failure, fairness |
| `levels` | `BuildLevels` is right and never stuck | all templates of up to three components with up to two dependency entries each, with duplicates, repeated names, unknown names and cycles |
| `deploy_respec` | dependencies first, Ready is installed, Failed is final; the environment settles | a plain and a shared component, and a provisioned shared one that depends on both; an edit, two attempts, one crash or failed call, refusals at any time without a bound, fairness |
| `deploy_restarted` | finding 2 | two plain components in a chain, one edit, no crash |
| `teardown` | nothing left behind, Jobs equipped, the order of `OrderedTeardown`; cleanup completes | a plain component, a shared one that depends on it, and a plain one that depends on both; every state of deployment, with and without a deprovision script, a deprovision Job of an earlier environment, two attempts, one crash, API error or deletion by others, fairness |

**Why the bounds are enough.** Two environments give every pairwise race over a
name, a lease or a limit; the code treats contenders alike and compares owners
only for equality. Two candidates give the collision, the move to the next one
and the exhaustion of the chain (a third would only repeat the move). Two
retries give one failure that is charged and one that is terminal. One edit
separates two generations, the only distinction the code makes. One or two
failures put a crash at any call, and in `binding_deletion` also a crash during
the recovery. Two objects of the shared component's name make a stale copy name
nothing, the object, or its predecessor. Three components are
needed for a cycle longer than two and for a level with two members. In
`teardown` two plain components give an order to keep, and the shared one
between them the levels at which nothing is undeployed; one fault is enough to
cut any pass short at any call, and later passes are whole, which is what a
recovery needs.

Deadlock is not checked where the system may stop (all environments gone,
everything settled, or a bound reached); it is checked in `levels`, where a
state without a step would be a loop of `BuildLevels` that cannot go on.

Symmetry is used for safety only: the two owners in `job_contended` and the two
environments in `shared_overrun`, which no constant tells apart.

## 5. Fairness

Liveness runs assume, and the code justifies:

- a pass that has begun goes on, and a worker comes back to an object that is
  not settled (weak fairness of the passes): controller-runtime requeues on
  errors and the code returns `RequeueAfter` whenever it waits;
- caches catch up (weak fairness of the `Sync` actions): the watch delivers;
- Kubernetes empties namespaces and removes deleted Jobs; an expired lease is
  seen to be expired, since time passes;
- cleanup finishes (`SF` of `CleanupDone`): its Jobs end or use up their
  retries, after which the code gives up on them;
- a Job that may succeed does not fail for ever (`SF` of the `FinishJob` actions that succeed).
  Retries do not imply this: a failed Job that the cache shows only after the
  component went back to pending is replaced without being charged
  (`internal/deployer/job.go:62`);
- in `EnvDeploy`, a readiness check is not inconclusive for ever (`SF` of
  `Check`): its timeout sees to that. Nothing is assumed of refusals, because
  nothing bounds them: `EventuallySettled` says that the environment settles
  unless refusals recur for ever, as they do when a shared component never gets
  ready or a binding Secret is gone;
- in `EnvTeardown`, now and then a Job ends, and is seen to have failed, between
  two passes (the two `SF`): a pass takes moments and the requeue seconds. If
  every Job failed and was seen in the middle of a pass, the pass would replace
  it uncharged for ever. No Job is assumed to succeed.

Users, administrators, crashes and template errors are under no fairness, and
may happen or not. `EventuallyBound` therefore allows for an environment that
reports its template at fault, and `EventuallyAllocated` for a component that
is not ready or is being deleted, and for an environment that failed, at capacity
(which the code does not try again, `deploy.go:115-117`) or with its last retry.
Edits and failures are bounded in that run: an environment that fails and is edited
again and again could take the lease whenever another one looks for it, and the
code has no queue for the lease.

## 6. Where code and documentation disagree

1. **A persisted binding can be erased** (`binding_erased`). A pass that reads
   the copy from before `NamespaceBound` and finds the template missing, or its
   TTL invalid, sets `Ready=False`. The patch changes neither the target nor the
   binding, so it carries no resourceVersion; it replaces the whole list of
   conditions, and the list it writes has no `NamespaceBound`. README.md:84-85
   and `ephemeralenvironment_types.go:83` say the binding locks the assignment.
   Without template errors it does, which is theorem `BindingStays`.
2. **An environment can be Ready from the old release** (`deploy_restarted`). A
   pass that does not see its predecessor's patch, but does see an edited spec,
   resets the components and submits the new Job; the resulting list equals the
   one it read and so is not sent, and the predecessor's progress, made for the
   old generation, survives under the new `observedGeneration`.
   `ephemeralenvironment_types.go:108` says `observedGeneration` is the
   generation that produced the status.

## 7. What is proved

All theorems hold for every value of the constants that satisfies the named
assumptions of the modules; the additional hypotheses are stated in the theorem.

| Theorem | Statement | Hypothesis |
|---|---|---|
| `TypeCorrect` | `NamespaceBinding`: `Spec => []TypeOK` | none |
| `BindingStays` | a persisted binding and its target never change | no template errors |
| `WorkNeedsBinding` | work is done only under a persisted binding | no template errors |
| `BindingIsBacked` | a live bound environment owns its existing namespace | `Orderly` |
| `BindingIsExclusive` | no two live environments are bound to one namespace | `Orderly` |
| `BindingImplementsAssignment` | `NamespaceBinding` implements `NamespaceAssignment` | `Orderly` |
| `TargetIsReleased` | an environment that is gone does not own its target any more | none |
| `DeletesItsOwn` | the operator deletes a namespace only as the target, and the property, of the environment it deletes | none |
| `NothingIsOwed` | an environment that is gone owes no cleanup | no template errors |
| `DeletionsAreClean` | a namespace is deleted only by its owner and after its cleanup | no template errors |
| `SharedTypeCorrect` | `Spec => []TypeOK` | none |
| `AllocationsAreServed` | no uninstall and no release of the component under an allocation that was not abandoned | none |
| `AllocationsAreReleased` | an environment through with its cleanup has no allocation but an abandoned one (template, provider or binding Secret gone, retries used up); a cache that misses the component hides none | none |
| `JobsDoNotRace` | install and uninstall never run at once | none |
| `LeaseExcludes` | one holder of the lease decides at a time | no overrun |
| `LabelsAreCapped` | consumers never exceed `maxConsumers` | no overrun, no late label |
| `OthersTookThePlaces` | an environment that failed at capacity has no label, and `maxConsumers` others have a place or had one to their end | no late label |
| `JobTypeCorrect` | `Spec => []TypeOK` | none |
| `FailuresAreChargedOnce` | Failed means that as many Jobs, submissions and readiness checks of this spec failed | none |
| `RunningJobsAreKept` | the operator deletes no running Job | none |
| `ReadyIsOfTheLastJob` | a component goes on to its readiness check, or to ready, from the last Job, with the present options | none |
| `CallsAreContracted` | a call makes a Job only where there is none, deletes only one that failed or is not wanted, even if it fails or the operator crashes; one that returns reports what is so | none |
| `LevelsTypeCorrect` | `DependencyGraph`: `Spec => []TypeOK` | none |
| `LevelsAreExact` | the levels returned are exactly the levels of the template | none |
| `OnlyCyclesRefused` | of the well-formed templates exactly the cyclic ones are refused | none |
| `LevelsServe` | levels and dependencies returned are what `EnvDeploy` and `EnvTeardown` assume | none |
| `DeployTypeCorrect` | `EnvDeploy`: `Spec => []TypeOK` | none |
| `ReadyMeansInstalled` | Ready for the current spec means installed from it | `SeesOwnWrites` |
| `FailedStaysFailed` | Failed is final, and starts or deletes no Job, until the spec changes | `SeesOwnWrites` |
| `DependenciesAreFirst` | a Job starts when its dependencies are installed from the same generation | `SeesOwnWrites` |
| `LevelsAreFounded` | what has a Job or was installed stands on levels that were all installed | none |
| `TypeCorrect` | `EnvTeardown`: `Spec => []TypeOK` | none |
| `TeardownOrdered` | `EnvTeardown` implements `OrderedTeardown` | none |
| `CredentialsHeld` | no provision or deprovision Job runs without its credentials | none |
| `NoAllocationLeft` | no allocation outlives the cleanup but for the accepted reasons | none |
| `NoReleaseLeft` | no release outlives the cleanup but for the accepted reasons | none |
| `NoSecretLeft` | no Secret and no running Job of a shared component outlives the cleanup, but for a race or a provider that was gone | none |
| `NothingIsLeft` | the same, and nothing is being undeployed either | `SeesOwnWrites` |

"No template errors" is necessary: finding 1 refutes the property without it.
`Orderly` adds that nobody else deletes or relabels the operator's namespaces;
otherwise a namespace disappears under its binding, which the code reports and
cannot prevent. Spec edits, foreign namespaces, crashes and stale caches remain.
For `NothingIsOwed` it is necessary too: a missing template lets the deletion
skip the cleanup. That others delete or relabel the namespaces does not matter
there, nor to `TargetIsReleased` and `DeletesItsOwn`.
`SeesOwnWrites` is necessary for `ReadyMeansInstalled`: finding 2 refutes it
without. It is for `NothingIsLeft`: a pass that starts from an old copy submits an
undeploy again that was given up, and the next pass does not wait for it. Spec
edits still reach a pass late.

*The locking argument* (`LockInv`). Copies are of decreasing age: `env`,
`cached`, `original`, `local`. A bound copy is bound to what the API server
holds, so a bound copy can never bring back an old target. An unbound copy can do
harm only by a patch that changes `target` or `bound`; such a patch is locked,
and goes through only if nothing was written since `original` was read, in which case
`original` is not older than `env`. An unlocked patch replaces the conditions
only when it sets `Ready`, which without template errors only a pass that read
the environment bound (or deleting) does. The property itself is not inductive: it says nothing
of the copies from which the next patch is made.

*The backing argument* (`BackInv`). `LockInv` is strengthened by the order in
which lifecycles advance in the copies (`Lifecycle`), where a checkpoint may be
seen and persisted (`Checkpoints`), and what a bound record, or one about to be
bound, rests on (`Support`, `Patching`): an owned, live namespace, until the
checkpoint is persisted and was read by the pass that deletes. Exclusivity
follows, because a namespace has one owner. The refinement needs the same invariant: a
namespace may go only when the checkpoint is there, and a finalizer is removed
only after the abstract record allows it.

*The departure argument* (`LeaveInv`). What the operator deletes must be right
although others may delete and relabel namespaces, so nothing can be said of
them in advance. What can be said is of the copies: lifecycles advance in the
order of their age, a copy that shows the deletion shows the last target
(`Targets`), since a target is assigned only by a pass that read the
environment live, and such a patch is conditional. The namespace is then read
live, and the precondition of its deletion (`Handles`) makes what was read hold
when it is deleted; the finalizer goes when the namespace read is not the
environment's (`Releases`), and it cannot become so again.

*The checkpoint argument* (`CleanInv`). `LeaveInv` is joined with `LockInv` and
what a checkpoint means: as long as any copy has it, nothing was used since
(`Flags`), because only a pass that reads the environment live uses its
namespace, and the checkpoint is written by one that reads the deletion. An
unlocked patch may roll a persisted checkpoint back, since it replaces the whole list of
conditions. It is then earned again, and no property is lost: the invariant
speaks of what a flag says, never of its staying.

*The admission argument* (`AdmissionInv`). What protects an instance is not the
lease. An environment that is allocating was labelled before it saw the
component alive for the second time (`Protected`), and its label stays as long
as its pass (`Registered`). A controller that drains has seen the deletion
timestamp of this very object, after which nobody is admitted, and then no
label; the timestamp is not taken back, and another object has another UID
(`Aging` orders component, cache and pass). So the two cannot both go
on, however many of them believe they hold the lease. `Instance` ties the
uninstall Job to a deletion that the cache has shown, after which no install is
submitted. The same facts say that a cache without the component means that
nothing is held: only a component that its controller, and so the cache, has seen
is ever ready, and it does not go while anything is held. An abandoned allocation
claims nothing any more (`Held`).

*The lease argument* (`LeaseInv`). A critical pass holds the Lease that is in
force; two copies of one such Lease do not exist. Who is about to delete an
expired Lease has a copy of it, and the UID precondition makes the copy
worthless once the Lease was replaced. This needs that no lease expires under
its holder, which the code's timeouts (10 s and 5 s against 30 s) ensure unless
the process is suspended; then `AllocationsAreServed` and `OthersTookThePlaces` still hold, and the limit
may be exceeded. `CapacityInv` adds that who is about to label has counted
since it took the lease, and nobody else labelled meanwhile: a label that
arrives after its caller gave up breaks exactly that, so it is excluded by hypothesis.

*The turned-away argument* (`AwayInv`). The environment reads its own label before
it counts, and no other pass of it runs, so a verdict `"full"` means that it has
no label and that the labels counted were others'. They may go before the
verdict is recorded, but only with their environments, so they stay in `Served`;
and who has failed at capacity begins no pass that could label it. Neither the
lease nor the capacity enters the argument, so overruns are allowed.

*The Job argument* (`JobInv`). Copies of a Job age as the environment's do
(`Aging`), and a UID is not used twice while a copy remembers it, so a call that finds
the UID it read finds the Job it read. `Ending`: a Job about to be deleted has
ended, because one that ended does not run again. `Counted`: a failed Job of
the present spec is either yet to be charged, and then more Jobs failed than
were charged; or it was charged, and then the cache shows it and the pending
component can only replace it. Without the last disjunct (`Charged`) the
invariant is not inductive, since nothing in a provision Job's payload tells its
attempts apart. Failed submissions and readiness timeouts are counted and charged in one
step and keep the balance. `Ending` says more than `RunningJobsAreKept` needs: the Job about
to be deleted failed, or is not the one its owner wants, which together with the
live read of Observe is `CallsAreContracted`.

*The counting argument* (`LevelInv`). Kahn's loop keeps for every component the
number of the places in its list that were not taken yet (`Left`); a component
is taken when that number is zero, one level after the last of them. What is
taken is exactly what lies on the levels built so far, and none of it depends on
anything that is not. If the loop ends with something left, each of that depends on
something left, which is a cycle; conversely a cycle can never begin to be
taken. The loop goes through the graph in the order an induction would, so
the invariant of the loop stands for it and no induction theorem is needed; the
counting rests on the library's facts on cardinality. `LevelsServe` adds that
the dependencies, direct or not, lie on lower levels: `Needs` is the
intersection of all transitive relations that cover the direct ones, and to be on
a lower level is one of them.

*The retry count* (`CountInv`, for the types of `EnvDeploy`). That a count stays
within `maxDeployRetries` is not obvious, since a merge patch may put an older
list of components in place of a newer one. It follows because in each list by
itself a component that has used up its retries has failed (`Counts`), the
patch takes one list or the other as a whole, and what a pass has before it is
as it was when the pass began, in a phase that is not failed (`TodoInv`).

*The deployment argument* (`Safe`). A status claims something of the cluster: a
component that is deploying or ready has a Job that succeeded and installed the
content of the generation the status names (`Claims`). A claim can only be
broken by replacing the Job, which a pass does for components that the status
it works on does not claim. The persisted status may claim more than is true
while such a pass runs, but only if it is of a generation before the one the
cache shows (`ClaimInv`), and then every later pass forgets it. For this the
generations must be in order, and the persisted status must be the one the pass
read (`AgeInv`): that is where `SeesOwnWrites` is needed. `PhaseInv` adds what
the environment's own phase says of its components, and that a pass that finds
the environment failed goes straight to its patch.

*The foundation argument* (`FoundInv`). Without `SeesOwnWrites` a status may
name a generation that was never installed, but not a component that was never installed at
all: each status by itself, in whatever copy, is backed by some installation
(`Backs`), a patch takes one list of components or the other as a whole, and
nothing is uninstalled before the deletion. A pass submits only what lies on the
first level that is not ready.

*The order argument* (`OrderInv`). Deletion passes follow one another, each may
read an old copy, and each starts again from the highest level. `Course` says
that what a pass has put behind it is gone, whichever copy made the pass skip
it: a component is skipped when a Job of this attempt succeeded, when it was
given up, or when nothing was ever installed, and none of these is undone.
`Persisted` says the same of the status and its copies, so the checkpoint is
announced, and read, only when everything is gone or the template is. The
highest level exists because a finite set of components has one; the lemma that
says so (`MaxOf`) uses that the order of the natural numbers is well-founded,
and no theorem about induction.

*The release argument* (`SafetyInv`). The binding Secret is the operator's memory
of an allocation. It goes only when the allocation is gone or one of the
accepted reasons holds (`SharedOK`); a deprovision Job that succeeded under this
environment's attempt ran after the provision Job had ended; and from the
moment the pass knows both, until it drops the Secrets, the provision Job
cannot run again (`PassOK`). `PlainOK` is the corresponding fact of a release,
with the race that the code leaves open.

*The argument that nothing is left* (`SecretInv`, `StillInv`). The binding
Secret goes last (`DropLists`), and credentials or a Job are made only with the
binding in sight (`Traced`), so wherever a pass is cut short the next one finds
what there is. Behind the pass all shared components are clean (`AllClean`), and
they stay so, for whoever has no binding gets nothing. For plain components
(`StillInv`) an undeploy that was given up has ended and is not submitted again;
that a pass knows which were given up is where `SeesOwnWrites` comes in.

**Only model-checked.** Every invariant and every safety action property that a
passing run checks is proved, under the hypotheses above. Liveness
(`DeletionCompletes`, `EventuallyBound`, `EventuallyAllocated`, `SharedGoes`,
`Settles`, `EventuallySettled`, `TeardownCompletes`) is not, since neither
fairness nor ENABLED is within the prover's reach. No module declares a RECURSIVE
operator, and no theorem uses induction over data.

## 8. What is not modelled, and why

- *Teardown with an edited template or two specs*: in `EnvTeardown` the template
  and the dependency levels do not change until the template is deleted, and the
  Jobs of an earlier spec do not run next to those of the present one. With
  `SeesOwnWrites` FALSE a pass that reads an old copy may put back the retries of
  components it did not touch, so that an undeploy that was given up starts again
  and may still run at the checkpoint: `NothingLeft` is checked with TRUE.
- *SharedComponent details*: instance Secrets, provider validation, and equal
  names in several namespaces (for whose Jobs see `job_contended`); edits of
  `maxConsumers`.
- *Readiness after Ready*: the code does not look again, and neither does the model.
- *Time*: TTL, deploy timeout, lease duration, back-off and requeue delays are
  events that may happen at any moment, which includes all real schedules.
- *Two operators at once*: leader election is assumed to exclude them.
- *Readiness checker, helm deployer*: their verdicts are nondeterministic
  outcomes (`EnvDeploy!Check`, the `FinishJob` actions).
- *Rendering, secret generation, RBAC objects, metrics, events, configuration,
  CRD types*: no state that decides anything modelled here.
- *An outdated copy at capacity*: with `SeesOwnWrites` FALSE, passes may also
  overwrite `Failed` (listed as a hazard at `ephemeralenvironment_controller.go:290`);
  stated there, not as a property.

## 9. Running it

    tlc -workers 2 -config binding_pair.cfg MCNamespaceBinding
    tlapm NamespaceBindingProofs.tla     # and the other *Proofs modules

Every `.cfg` names a specification of the `MC` module of its prefix:
`binding_*` MCNamespaceBinding, `shared_*` MCSharedAdmission, `job_*`
MCJobControl, `levels` MCDependencyGraph, `deploy_*` MCEnvDeploy, `teardown`
MCEnvTeardown. Two runs,
`binding_erased` and `deploy_restarted`, end in the violation they show.
Definitions commented "Mutant" are the plausible bugs each property was tried
against (`mutants` in `PROJECT.json`); no specification uses them.
