---------------------------- MODULE EnvTeardown ----------------------------
(***************************************************************************)
(* The teardown of one environment that is being deleted and whose         *)
(* namespace is bound: the components are undeployed level by level, in    *)
(* reverse, then the allocations in shared components are released one     *)
(* after the other, then the checkpoint CleanupComplete is set.  Every     *)
(* pass goes through all of it from the start, up to what is not finished. *)
(*                                                                         *)
(* As in EnvDeploy, a call of Submit or Observe is one step on the live    *)
(* Job, "seen" says whether the cache shows it (JobControl has the         *)
(* protocol), and Level is what DependencyGraph computes.  What comes      *)
(* before and after is NamespaceBinding's.                                 *)
(***************************************************************************)
EXTENDS Integers, Sequences, FiniteSetsExt

CONSTANTS Components,
          DependsOn,     \* what a component depends on, directly or not
          Level,         \* its deployment level
          Shared,        \* the components with a sharedComponentRef
          Order,         \* those in the order of the template
          Strangers,     \* those an earlier environment left a deprovision Job of
          SeesOwnWrites, \* does every pass start from a cache with the last patch?
          MaxRetries,    \* maxDeployRetries
          MaxFailures    \* bound on crashes, API errors and deletions by others

ASSUME ConstantsAssumption ==
    /\ IsFiniteSet(Components)
    /\ DependsOn \in [Components -> SUBSET Components]
    /\ \A c \in Components :
          \A d \in DependsOn[c] : DependsOn[d] \subseteq DependsOn[c]
    /\ Level \in [Components -> Nat \ {0}]
    /\ \A c \in Components : \A d \in DependsOn[c] : Level[d] < Level[c]
    /\ Shared \subseteq Components
    /\ Strangers \subseteq Shared
    /\ Order \in Seq(Shared) /\ Shared = {Order[i] : i \in DOMAIN Order}
    /\ SeesOwnWrites \in BOOLEAN
    /\ MaxRetries \in Nat \ {0} /\ MaxFailures \in Nat

VARIABLES
    template,    \* does the EnvironmentTemplate exist?
    providers,   \* the shared components that exist, with their provider
    scripted,    \* those whose provider has a deprovision script
    status,      \* the persisted status
    cache,       \* the informer cache's copy of it
    pc,          \* where the pass stands
    read,        \* the copy the pass read
    local,       \* the status it works on
    work,        \* what it has before it
    job,         \* the undeploy or deprovision Job of each component
    deploying,   \* the components whose deploy Job still runs
    installed,   \* the components that helm has installed
    provision,   \* the state of the provision Job of each shared component
    allocated,   \* the shared components with an allocation
    binding,     \* those with a binding Secret
    shown,       \* those whose binding Secret the informer cache shows
    credentials, \* those with provisioner credentials
    fate,        \* what the operator has made of each component
    raced,       \* those undeployed under a running deploy Job, or released
                 \* from an old copy of the binding Secret
    failures     \* crashes, API errors and deletions by others so far

others == <<template, providers, scripted>>
passVars == <<pc, read, local, work>>
jobs == <<job, provision>>
effects == <<deploying, installed, allocated>>
secrets == <<binding, credentials>>
history == <<fate, raced>>
vars == <<others, status, cache, passVars, jobs, effects, secrets, shown,
          history, failures>>

Plain == Components \ Shared

Ended == {"succeeded", "failed"}

\* Retries are counted on in an environment that had used them up, and stop
\* mattering there.
Records == [retries : 0..MaxRetries, undeploy : BOOLEAN]

Statuses == [comps : [Components -> Records], complete : BOOLEAN]

States == {"absent", "running", "deleting"} \cup Ended

Jobs == [attempt : -1..MaxRetries, seen : BOOLEAN, state : States]

NoJob == [attempt |-> 0, seen |-> TRUE, state |-> "absent"]

\* The deprovision Job an earlier environment of this name has left behind.
StrangersJob == [attempt |-> -1, seen |-> TRUE, state |-> "succeeded"]

Items == {"provision", "deprovision", "credentials", "binding"}

\* The level that is undeployed and its components the step has not handled
\* yet, those that need a Job, and whether one is awaited; then the shared
\* components still to release, and what is to be deleted of the first.
Works == [level : Nat, todo : SUBSET Components, need : SUBSET Components,
          waiting : BOOLEAN, rest : Seq(Shared), drops : Seq(Items)]

NoWork == [level |-> 0, todo |-> {}, need |-> {}, waiting |-> FALSE,
           rest |-> <<>>, drops |-> <<>>]

TypeOK ==
    /\ template \in BOOLEAN
    /\ providers \subseteq Shared /\ scripted \subseteq Shared
    /\ status \in Statuses /\ cache \in Statuses
    /\ pc \in {"idle", "observe", "submit", "release", "deprovision",
               "resubmit", "drop", "patch"}
    /\ read \in Statuses /\ local \in Statuses
    /\ work \in Works
    /\ job \in [Components -> Jobs]
    /\ deploying \subseteq Plain /\ installed \subseteq Plain
    /\ provision \in [Shared -> States]
    /\ allocated \subseteq Shared
    /\ binding \subseteq Shared /\ shown \subseteq Shared /\ credentials \subseteq Shared
    /\ fate \in [Components -> {"up", "leaving", "removed", "abandoned", "skipped"}]
    /\ raced \subseteq Components
    /\ failures \in 0..MaxFailures

-----------------------------------------------------------------------------
\* The states a deployment can have reached when its environment is deleted:
\* "done" is ready, "busy" is what was being worked on; all of the deployment
\* is of one spec, or of the one before an edit nobody has worked on yet.

NoStatus ==
    [comps |-> [c \in Components |-> [retries |-> 0, undeploy |-> FALSE]],
     complete |-> FALSE]

InitDeployment(done, busy) ==
    /\ deploying \in SUBSET (busy \cap Plain)
    /\ installed = ((done \cup busy) \cap Plain) \ deploying
    /\ \E spent \in 0..MaxRetries :
          status = [NoStatus EXCEPT !.comps = [c \in Components |->
             [retries |-> IF c \in busy THEN spent ELSE 0, undeploy |-> FALSE]]]

\* A provision Job is submitted after its binding and its credentials were
\* written; the credentials go when its success was seen.  A binding may be too
\* new for the cache.
InitAllocations(done, busy) ==
    /\ binding \in SUBSET (Shared \cap (done \cup busy))
    /\ done \cap Shared \subseteq binding
    /\ shown \in SUBSET binding
    /\ credentials \in SUBSET (binding \cap busy)
    /\ provision \in [Shared -> {"absent", "running"} \cup Ended]
    /\ \A s \in Shared :
          provision[s] # "absent" =>
             s \in credentials \/ (s \in done /\ provision[s] = "succeeded")
    /\ allocated = {s \in Shared : provision[s] = "succeeded"}

Init ==
    /\ template = TRUE /\ providers = Shared /\ scripted \in SUBSET Shared
    /\ \E done, busy \in SUBSET Components :
          /\ done \cap busy = {}
          /\ \A c \in done \cup busy : DependsOn[c] \subseteq done
          /\ InitDeployment(done, busy)
          /\ InitAllocations(done, busy)
    /\ cache = status
    /\ pc = "idle" /\ read = NoStatus /\ local = NoStatus /\ work = NoWork
    /\ job = [c \in Components |-> IF c \in Strangers THEN StrangersJob ELSE NoJob]
    /\ fate = [c \in Components |-> "up"]
    /\ raced = {} /\ failures = 0

Fail == failures < MaxFailures /\ failures' = failures + 1

-----------------------------------------------------------------------------
\* The Jobs, as the deployer and the provisioner see them.

\* Mutant: the attempts are numbered from 1.
NextAttempt(c) == IF c \in Shared THEN 0 ELSE local.comps[c].retries + 1

\* Undeploy payloads carry the attempt, deprovision payloads do not.
WantedAttempt(c) == IF c \in Shared THEN 0 ELSE local.comps[c].retries

\* Mutant: the Job of an earlier environment will do.
AnyJob(c) == TRUE

Matches(c) == job[c].attempt = WantedAttempt(c)

Replaceable(c) ==
    \/ job[c].state = "failed"
    \/ job[c].state = "succeeded" /\ ~Matches(c)

\* The operator has made f of component c; what was decided first stays.
Become(c, f) ==
    fate' = IF fate[c] \in {"up", "leaving"} THEN [fate EXCEPT ![c] = f] ELSE fate

\* Submit: create the missing Job, delete one that has ended and is not
\* wanted, leave everything else alone, as well as what the cache hides.
SubmitJob(c) ==
    IF job[c].seen /\ job[c].state = "absent"
    THEN /\ job' = [job EXCEPT ![c] =
                [attempt |-> WantedAttempt(c), seen |-> FALSE, state |-> "running"]]
         /\ Become(c, "leaving")
    ELSE /\ job' = IF job[c].seen /\ Replaceable(c)
                   THEN [job EXCEPT ![c].state = "deleting", ![c].seen = FALSE] ELSE job
         /\ UNCHANGED fate

\* Observe: an end is reported when the cached and the live Job agree.
Verdicts(c) ==
    IF ~job[c].seen THEN {"pending", "running"}
    ELSE IF job[c].state = "running" THEN {"running"}
    ELSE IF job[c].state \in Ended /\ Matches(c) THEN {job[c].state}
    ELSE {"pending"}

-----------------------------------------------------------------------------
\* The status a pass works on, and its course.

\* Mutant: the failure is not counted.
NotCounted(k) == k

\* The count stops at MaxRetries, beyond which it makes no difference.
More(k) == IF k = MaxRetries THEN k ELSE k + 1

\* recordRuntimeFailure, with a reason that begins with "undeploy: " or not.
Charged(c) ==
    [local EXCEPT !.comps[c] =
        [retries |-> More(@.retries), undeploy |-> c \in Plain]]

Exhausted(c) == local.comps[c].retries + 1 >= MaxRetries

\* Mutant: whatever it failed at.
Spent(r) == r.retries >= MaxRetries

\* Its undeploy is not tried again.
GivenUp(r) == r.retries >= MaxRetries /\ r.undeploy

Top == Max({0} \cup {Level[c] : c \in Components})

\* The pass goes on at step p with status s and work w.
Continue(p, s, w) == pc' = p /\ local' = s /\ work' = w

\* The pass stops here and writes status s.
Conclude(s) == Continue("patch", s, NoWork)

EndPass == read' = NoStatus /\ Continue("idle", NoStatus, NoWork)

\* The components of level l that are undeployed: shared ones, and those given
\* up, count as done.
Undeployed(l, s) ==
    {c \in Plain : Level[c] = l /\ ~GivenUp(s.comps[c])}

\* The next level from l down that has something to undeploy, or 0.
Downwards(l, s) == Max({0} \cup {k \in 1..l : Undeployed(k, s) # {}})

\* The pass turns to the shared components in rest; after the last one comes
\* the checkpoint.
ReleaseFrom(rest, s) ==
    IF rest = <<>> THEN Conclude([s EXCEPT !.complete = TRUE])
    ELSE Continue("release", s, [NoWork EXCEPT !.rest = rest])

\* The pass turns to level l, or to the shared components.
StartLevel(l, s) ==
    IF l = 0 THEN ReleaseFrom(Order, s)
    ELSE Continue("observe", s, [NoWork EXCEPT !.level = l, !.todo = Undeployed(l, s)])

\* What no step of a pass but the first and the last changes.
untouched == <<others, status, cache, read, effects, shown>>

\* The worker takes the environment up.  Without its template it has nothing
\* to remove.
Begin ==
    /\ pc = "idle" /\ ~cache.complete
    /\ SeesOwnWrites => cache = status
    /\ read' = cache
    /\ IF template THEN StartLevel(Downwards(Top, cache), cache)
                   ELSE Conclude([cache EXCEPT !.complete = TRUE])
    /\ UNCHANGED <<others, status, cache, jobs, effects, secrets, shown, history,
                   failures>>

-----------------------------------------------------------------------------
\* Undeploy, level by level.

\* Mutant: Jobs are submitted, and not waited for.
NoWait(s, w) ==
    IF w.need # {} THEN Continue("submit", s, [w EXCEPT !.todo = w.need, !.need = {}])
    ELSE StartLevel(Downwards(w.level - 1, s), s)

\* The level was observed with status s and result w: what needs a Job is
\* submitted, concurrently; the next level is for a later pass unless this one
\* is done.
LevelObserved(s, w) ==
    IF w.need # {} THEN Continue("submit", s, [w EXCEPT !.todo = w.need, !.need = {}])
    ELSE IF w.waiting THEN Conclude(s)
    ELSE StartLevel(Downwards(w.level - 1, s), s)

\* One component of the level is observed; the last failure gives it up.
Observe(c) ==
    /\ pc = "observe" /\ c \in work.todo
    /\ LET w == [work EXCEPT !.todo = @ \ {c}]
           awaited == [w EXCEPT !.waiting = TRUE]
           needed == [awaited EXCEPT !.need = @ \cup {c}]
           GoOn(s, v) == IF v.todo = {} THEN LevelObserved(s, v) ELSE Continue(pc, s, v)
       IN  \E v \in Verdicts(c) :
           \/ v = "succeeded" /\ GoOn(local, w) /\ Become(c, "removed")
           \/ v = "running" /\ GoOn(local, awaited) /\ UNCHANGED fate
           \/ v = "pending" /\ GoOn(local, needed) /\ UNCHANGED fate
           \/ /\ v = "failed" /\ ~Exhausted(c)
              /\ GoOn(Charged(c), needed) /\ UNCHANGED fate
           \/ /\ v = "failed" /\ Exhausted(c)
              /\ GoOn(Charged(c), w) /\ Become(c, "abandoned")
    /\ UNCHANGED <<untouched, jobs, secrets, raced, failures>>

\* All are tried, whether one fails or not.
Submit(c) ==
    /\ pc = "submit" /\ c \in work.todo
    /\ IF work.todo = {c} THEN Conclude(local)
       ELSE Continue(pc, local, [work EXCEPT !.todo = @ \ {c}])
    /\ \/ SubmitJob(c) /\ UNCHANGED failures
       \/ Fail /\ UNCHANGED <<job, fate>>
    /\ UNCHANGED <<untouched, provision, secrets, raced>>

-----------------------------------------------------------------------------
\* The shared components, one after the other.

This == Head(work.rest)

\* Mutant: a provision Job is no obstacle.
NeverBusy(s) == FALSE

\* The allocation is still being made, or the Job that made it is going.
Busy(s) == provision[s] \in {"running", "deleting"}

\* Mutant: the credentials stay.
BindingOnly == <<"binding">>

\* The Secrets that are deleted, in this order.
BothSecrets == <<"credentials", "binding">>

\* There is nothing left to do for this shared component.
Proceed == ReleaseFrom(Tail(work.rest), local)

\* There are items to delete of it.
Drop(s, items) == Continue("drop", s, [work EXCEPT !.drops = items])

\* Mutant: the credentials of the provision Job are taken to be there.
LeaveCredentials(s) == credentials

\* ensureProvisionSecret writes the credentials again; it fails, as any other
\* call may, if its own cached copy is old.
Equipped(s) == credentials \cup {s}

\* Without the shared component, or its provider, nobody knows how to release
\* the allocation.  While it is being made the pass waits.  Without a script
\* there are only the operator's own objects to delete, and without a binding,
\* as far as the cache knows, there is nothing.
Release(s) ==
    /\ pc = "release" /\ s = This
    /\ \/ s \notin providers /\ Proceed /\ Become(s, "skipped")
       \/ s \in providers /\ Busy(s) /\ Conclude(local) /\ UNCHANGED fate
       \/ /\ s \in providers \ scripted /\ ~Busy(s)
          /\ Drop(local, <<"provision">> \o BothSecrets) /\ Become(s, "leaving")
       \/ /\ s \in (providers \cap scripted) \ shown /\ ~Busy(s)
          /\ Proceed /\ Become(s, "removed")
       \/ /\ s \in providers \cap scripted \cap shown /\ ~Busy(s)
          /\ Continue("deprovision", local, work) /\ Become(s, "leaving")
    /\ credentials' = IF pc' = "deprovision" THEN Equipped(s) ELSE credentials
    /\ raced' = IF s \in providers \cap scripted /\ ~Busy(s) /\ (s \in shown) # (s \in binding)
                THEN raced \cup {s} ELSE raced
    /\ UNCHANGED <<untouched, jobs, binding, failures>>

\* The deprovision Job is observed: after a success all that was made for the
\* allocation goes, after the last failure only the Secrets.
Deprovision(s) ==
    /\ pc = "deprovision" /\ s = This
    /\ \E v \in Verdicts(s) :
          \/ /\ v = "succeeded" /\ UNCHANGED fate
             /\ Drop(local, <<"provision", "deprovision">> \o BothSecrets)
          \/ v = "running" /\ Conclude(local) /\ UNCHANGED fate
          \/ v = "pending" /\ Continue("resubmit", local, work) /\ UNCHANGED fate
          \/ /\ v = "failed" /\ ~Exhausted(s)
             /\ Continue("resubmit", Charged(s), work) /\ UNCHANGED fate
          \/ /\ v = "failed" /\ Exhausted(s)
             /\ Drop(Charged(s), BothSecrets) /\ Become(s, "abandoned")
    /\ UNCHANGED <<untouched, jobs, secrets, raced, failures>>

Resubmit(s) ==
    /\ pc = "resubmit" /\ s = This
    /\ SubmitJob(s) /\ Conclude(local)
    /\ UNCHANGED <<untouched, provision, secrets, raced, failures>>

\* A Job in state st is deleted: nothing happens to one that is not there,
\* and one that runs, or is going, ends the pass.
Refused(st) == st \in {"running", "deleting"}

DeletedState(st) == IF st \in Ended THEN "deleting" ELSE st

\* One of the deletions; the last one ends the work on this component.
DropNext(s) ==
    /\ pc = "drop" /\ s = This
    /\ LET item == Head(work.drops)
           refused == \/ item = "provision" /\ Refused(provision[s])
                      \/ item = "deprovision" /\ Refused(job[s].state)
       IN  /\ \/ refused /\ Conclude(local) /\ UNCHANGED fate
              \/ ~refused /\ Len(work.drops) > 1 /\ Drop(local, Tail(work.drops)) /\ UNCHANGED fate
              \/ ~refused /\ Len(work.drops) = 1 /\ Proceed /\ Become(s, "removed")
           /\ provision' = IF item # "provision" THEN provision
                           ELSE [provision EXCEPT ![s] = DeletedState(@)]
           /\ job' = IF item # "deprovision" \/ job[s].state \notin Ended THEN job
                     ELSE [job EXCEPT ![s].state = "deleting", ![s].seen = FALSE]
           /\ credentials' = IF item # "credentials" THEN credentials ELSE credentials \ {s}
           /\ binding' = IF item # "binding" THEN binding ELSE binding \ {s}
    /\ UNCHANGED <<untouched, raced, failures>>

-----------------------------------------------------------------------------
\* The end of a pass.

\* An API error in the middle: what was charged so far is written.
StepFails ==
    /\ pc \notin {"idle", "submit", "patch"} /\ Fail
    /\ Conclude(local)
    /\ UNCHANGED <<untouched, jobs, secrets, history>>

\* A merge patch against the copy that was read: the list of components is one
\* field, and a field that did not change is not sent.
Merged ==
    [f \in DOMAIN status |->
        IF local[f] = read[f] THEN status[f] ELSE local[f]]

\* The checkpoint goes through only if nothing was written since.
Patch ==
    /\ pc = "patch"
    /\ status' = IF local.complete /\ read # status THEN status ELSE Merged
    /\ EndPass
    /\ UNCHANGED <<others, cache, jobs, effects, secrets, shown, history, failures>>

\* The operator crashes within a pass, or the patch fails.
Abort ==
    /\ pc # "idle" /\ Fail
    /\ EndPass
    /\ UNCHANGED <<others, status, cache, jobs, effects, secrets, shown, history>>

-----------------------------------------------------------------------------
\* Everybody else.

\* What the operator and its worker keep to themselves.
operator == <<status, passVars, secrets, fate>>

\* Only the beginning of a pass looks for the template, and only Release for a
\* provider: they are deleted there.
TemplateDelete ==
    /\ pc = "idle" /\ ~status.complete
    /\ template /\ template' = FALSE /\ Fail
    /\ UNCHANGED <<operator, providers, scripted, cache, jobs, effects, shown, raced>>

ProviderDelete(s) ==
    /\ pc = "release" /\ s = This
    /\ s \in providers /\ providers' = providers \ {s} /\ Fail
    /\ UNCHANGED <<operator, template, scripted, cache, jobs, effects, shown, raced>>

SyncEnv ==
    /\ cache # status /\ cache' = status
    /\ UNCHANGED <<operator, failures, others, jobs, effects, shown, raced>>

SyncJob(c) ==
    /\ ~job[c].seen
    /\ job' = [job EXCEPT ![c].seen = TRUE]
    /\ UNCHANGED <<operator, failures, others, cache, provision, effects, shown, raced>>

SyncBindings ==
    /\ shown # binding /\ shown' = binding
    /\ UNCHANGED <<operator, failures, others, cache, jobs, effects, raced>>

\* An undeploy or deprovision Job ends.
FinishJob(c, state) ==
    /\ job[c].state = "running"
    /\ job' = [job EXCEPT ![c].state = state, ![c].seen = FALSE]
    /\ IF state = "succeeded"
       THEN /\ installed' = installed \ {c} /\ allocated' = allocated \ {c}
            /\ raced' = raced \cup ({c} \cap deploying)
       ELSE UNCHANGED <<installed, allocated, raced>>
    /\ UNCHANGED <<operator, failures, others, cache, deploying, provision, shown>>

\* A deploy Job the deployment has left behind ends.
FinishDeploy(c) ==
    /\ c \in deploying /\ deploying' = deploying \ {c}
    /\ installed' \in {installed, installed \cup {c}}
    /\ UNCHANGED <<operator, failures, others, cache, jobs, allocated, shown, raced>>

\* A provision Job ends.
FinishProvision(s, state) ==
    /\ provision[s] = "running"
    /\ provision' = [provision EXCEPT ![s] = state]
    /\ allocated' = IF state = "succeeded" THEN allocated \cup {s} ELSE allocated
    /\ UNCHANGED <<operator, failures, others, cache, job, deploying, installed, shown, raced>>

\* A deleted Job is gone.
JobGone(c) ==
    /\ job[c].state = "deleting"
    /\ job' = [job EXCEPT ![c] = [NoJob EXCEPT !.seen = FALSE]]
    /\ UNCHANGED <<operator, failures, others, cache, provision, effects, shown, raced>>

ProvisionGone(s) ==
    /\ provision[s] = "deleting"
    /\ provision' = [provision EXCEPT ![s] = "absent"]
    /\ UNCHANGED <<operator, failures, others, cache, job, effects, shown, raced>>

-----------------------------------------------------------------------------
Pass ==
    \/ Begin \/ Patch
    \/ \E c \in Plain : Observe(c) \/ Submit(c)
    \/ \E s \in Shared : Release(s) \/ Deprovision(s) \/ Resubmit(s) \/ DropNext(s)

\* What the watches deliver.
Sync == SyncEnv \/ SyncBindings \/ \E c \in Components : SyncJob(c)

\* What Kubernetes does about the Jobs of the teardown.
Finish ==
    \/ \E c \in Components : JobGone(c) \/ \E state \in Ended : FinishJob(c, state)
    \/ \E s \in Shared : ProvisionGone(s) \/ \E state \in Ended : FinishProvision(s, state)

Next ==
    \/ Pass \/ StepFails \/ Abort
    \/ TemplateDelete \/ \E s \in Shared : ProviderDelete(s)
    \/ Sync \/ Finish \/ \E c \in Plain : FinishDeploy(c)

Spec == Init /\ [][Next]_vars

-----------------------------------------------------------------------------
\* Safety.

\* The environment is checkpointed because everything was handled, not because
\* its template is gone.
Handled == status.complete /\ template

\* An allocation outlives its environment only when its deprovision Job failed
\* to the last, its shared component or provider had been deleted, or its
\* binding Secret was not in the cache yet: not because its provision Job ended
\* late, a Job of an earlier environment of this name had succeeded, or a pass
\* was cut short.
AllocationsReleased ==
    Handled => \A s \in allocated \cap scripted :
                  fate[s] \in {"abandoned", "skipped"} \/ s \in raced

\* A release outlives the undeployment only when that failed to the last, or
\* the deploy Job still ran when helm uninstalled it: the undeploy Job does
\* not wait for it.
ReleasesRemoved ==
    Handled => \A c \in installed : fate[c] = "abandoned" \/ c \in raced

\* When cleanup is complete nothing works on it any more, and nothing is left
\* in the operator's namespace that a Job of the next environment of this name
\* would run with.
NothingLeft ==
    Handled =>
        /\ \A c \in (Plain \cup providers) \ raced : job[c].state # "running"
        /\ \A s \in providers \ raced : s \notin credentials /\ s \notin binding

\* A provision or deprovision Job finds its credentials as long as it runs,
\* whatever was deleted by the pass before a crash.
JobsEquipped ==
    \A s \in Shared :
        provision[s] = "running" \/ job[s].state = "running" => s \in credentials

\* The order of the teardown, as OrderedTeardown promises it.
Ordered == INSTANCE OrderedTeardown WITH
    Users <- [c \in Components |->
        IF c \in Shared THEN Plain ELSE {d \in Plain : c \in DependsOn[d]}],
    progress <- [c \in Components |->
        IF fate[c] \in {"up", "leaving"} THEN fate[c] ELSE "gone"],
    described <- template,
    finished <- status.complete

\* Components are undeployed after those that depend on them, allocations are
\* released after everything that may use them is undeployed, and the
\* checkpoint comes last.
ImplementsTeardown == Ordered!Spec

-----------------------------------------------------------------------------
\* Liveness: the pass goes on, the requeue brings the worker back, watches
\* deliver, Jobs end, well or badly.  A failed Job is charged only if the cache
\* shows its end when the pass observes it.  That Jobs end, and are seen to have
\* failed, between two passes now and then is the strong part: a pass is short
\* and the requeue is not.
Fairness ==
    /\ WF_vars(Pass) /\ WF_vars(Sync) /\ WF_vars(Finish)
    /\ SF_vars(pc = "idle" /\ \E c \in Components, state \in Ended : FinishJob(c, state))
    /\ SF_vars(pc = "idle" /\ \E c \in Components : job[c].state = "failed" /\ SyncJob(c))

FairSpec == Spec /\ Fairness

\* Cleanup is complete in the end, even if every Job fails: retries are finite
\* and what they do not achieve is given up.
TeardownCompletes == <>status.complete
=============================================================================
