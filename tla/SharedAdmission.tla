-------------------------- MODULE SharedAdmission --------------------------
(***************************************************************************)
(* Admission of environments to a SharedComponent, and its deletion.  An   *)
(* environment registers by labelling its namespace under a lease of 30    *)
(* seconds; the controller of the component drains it under the same       *)
(* lease before it uninstalls the instance.  The lease may be lost: a      *)
(* holder crashes, its release fails, or it is slower than the lease.      *)
(*                                                                         *)
(* There is one component name, whose object may be deleted and created    *)
(* again with another UID.  Every environment has one worker, and so has   *)
(* the component.  Lease, component and label are read live from the API   *)
(* server; only the controller's own object comes from the cache.          *)
(***************************************************************************)
EXTENDS Integers, FiniteSets

CONSTANTS Envs,         \* environments that reference the component
          Controller,   \* the SharedComponent's worker
          MaxConsumers, \* spec.maxConsumers, 0 for no limit
          Disturbances, \* "Overrun": a lease expires under its holder;
                        \* "LateWrite": a label arrives after its caller gave up
          MaxRetries,   \* maxDeployRetries
          MaxFailures,  \* bound on crashes, failures, edits and changes of the provider
          MaxUid        \* bound on the number of objects of that name

ASSUME ConstantsAssumption ==
    /\ IsFiniteSet(Envs)
    /\ Controller \notin Envs
    /\ MaxConsumers \in Nat
    /\ Disturbances \subseteq {"Overrun", "LateWrite"}
    /\ MaxRetries \in Nat \ {0}
    /\ MaxFailures \in Nat
    /\ MaxUid \in Nat

VARIABLES
    shared,       \* the SharedComponent in the API server
    sharedCache,  \* the informer cache's copy
    lease,        \* the provision Lease: absent, held or expired
    holds,        \* holds[a]: the Lease there is the one a read or created
    pc,           \* where a's pass stands
    seen,         \* the UID a's pass read first
    verdict,      \* what a's pass found
    life,         \* the environments
    status,       \* the phase of their component
    consumers,    \* environments whose namespace carries the consumer label
    late,         \* environments whose label patch is still under way
    allocated,    \* environments with an allocation in the instance
    abandoned,    \* those whose allocation was given up at their deletion
    deployJob,    \* the helm install of the instance
    undeployJob,  \* and its uninstall
    retries,      \* the uninstall-retries annotation of the component
    failures      \* crashes, failures, edits and changes of the provider so far

Actors == Envs \cup {Controller}

leaseVars  == <<lease, holds>>
passVars   == <<pc, seen, verdict>>
sharedVars == <<shared, sharedCache, deployJob, undeployJob, retries>>
allocVars  == <<allocated, abandoned>>
lifeVars   == <<life, consumers, late, allocVars>>
envVars    == <<status, lifeVars>>
vars == <<leaseVars, passVars, sharedVars, envVars, failures>>

Objects == [uid : 0..MaxUid, phase : {"absent", "live", "deleting"}, ready : BOOLEAN]

Steps == {"idle", "getLease", "deleteLease", "createLease", "check", "count",
          "label", "recheck", "release", "commit"}

\* The steps a pass takes as the holder of the lease.
Critical == {"check", "count", "label", "recheck", "release"}

\* A pass is granted (admitted, or drained), refused for now, turned away at
\* capacity, or met an error, which is charged to the component's retries.
Verdicts == {"refused", "granted", "full", "error"}

\* A component of an environment that is "full" or "failed" has failed it.
Statuses == {"pending", "submitted", "full", "failed"}

JobStates == {"none", "running", "succeeded", "failed"}

TypeOK ==
    /\ shared \in Objects /\ sharedCache \in Objects
    /\ lease \in {"absent", "held", "expired"}
    /\ holds \in [Actors -> BOOLEAN]
    /\ pc \in [Actors -> Steps]
    /\ seen \in [Actors -> 0..MaxUid]
    /\ verdict \in [Actors -> Verdicts]
    /\ life \in [Envs -> {"live", "deleting", "cleaned", "gone"}]
    /\ status \in [Envs -> Statuses]
    /\ consumers \subseteq Envs /\ late \subseteq Envs
    /\ allocated \subseteq Envs /\ abandoned \subseteq Envs
    /\ deployJob \in JobStates /\ undeployJob \in JobStates
    /\ retries \in 0..MaxRetries
    /\ failures \in 0..MaxFailures

Init ==
    /\ shared = [uid |-> 0, phase |-> "absent", ready |-> FALSE]
    /\ sharedCache = shared
    /\ lease = "absent"
    /\ holds = [a \in Actors |-> FALSE]
    /\ pc = [a \in Actors |-> "idle"]
    /\ seen = [a \in Actors |-> 0]
    /\ verdict = [a \in Actors |-> "refused"]
    /\ life = [e \in Envs |-> "live"]
    /\ status = [e \in Envs |-> "pending"]
    /\ consumers = {} /\ late = {}
    /\ allocated = {} /\ abandoned = {}
    /\ deployJob = "none" /\ undeployJob = "none"
    /\ retries = 0
    /\ failures = 0

-----------------------------------------------------------------------------
\* Steps several operations share.

\* The pass of a goes on at step s.
Continue(a, s) == pc' = [pc EXCEPT ![a] = s] /\ UNCHANGED <<seen, verdict>>

\* The pass of a ends.
End(a) ==
    /\ pc' = [pc EXCEPT ![a] = "idle"]
    /\ seen' = [seen EXCEPT ![a] = 0]
    /\ verdict' = [verdict EXCEPT ![a] = "refused"]

\* The protected part of the pass ends with verdict v.
Conclude(a, v) ==
    /\ pc' = [pc EXCEPT ![a] = "release"]
    /\ verdict' = [verdict EXCEPT ![a] = v]
    /\ UNCHANGED seen

\* The pass of e ends, and its status patch records one of these phases.  The
\* status is e's own: the patch is one step with the last call of the pass,
\* and a crash between them is a crash, or a failure, of that call.
EndAs(e, phases) ==
    /\ End(e)
    /\ \E s \in phases : status' = [status EXCEPT ![e] = s]

\* An error is charged to the component, and fails it for good with its last
\* retry.  Other failures of the component use the retries up, too, so any
\* error may be the last.
Charged == {"pending", "failed"}

\* An error is charged; the controller just comes back.
EndInError(a) == IF a = Controller THEN End(a) /\ UNCHANGED status ELSE EndAs(a, Charged)

\* The Lease is removed, whoever holds a copy of it.
RemoveLease == lease' = "absent" /\ holds' = [a \in Actors |-> FALSE]

ForgetLease(a) == holds' = [holds EXCEPT ![a] = FALSE] /\ UNCHANGED lease

Fail == failures < MaxFailures /\ failures' = failures + 1

\* The component admits: it is not being deleted, and its instance is up.
Admitting(uid) == shared.uid = uid /\ shared.phase = "live" /\ shared.ready

-----------------------------------------------------------------------------
\* The provision Lease.

\* Mutant: an expired Lease is contention, too.
NeverExpires == lease # "absent"

InForce == lease = "held"

\* acquireProvisionLease, the live read: a Lease in force means contention.
GetLease(a) ==
    /\ pc[a] = "getLease"
    /\ \/ lease = "absent" /\ Continue(a, "createLease") /\ UNCHANGED leaseVars
       \/ InForce /\ End(a) /\ UNCHANGED leaseVars
       \/ /\ lease = "expired" /\ ~InForce
          /\ Continue(a, "deleteLease")
          /\ holds' = [holds EXCEPT ![a] = TRUE]
          /\ UNCHANGED lease
    /\ UNCHANGED <<sharedVars, envVars, failures>>

\* Mutant: Delete without preconditions.
AnyLease(a) == lease # "absent"

\* The UID and resourceVersion preconditions of Delete.
SameLease(a) == holds[a]

\* The expired Lease is deleted, if it is still the one that was read; a
\* conflict is an error.
DeleteExpiredLease(a) ==
    /\ pc[a] = "deleteLease"
    /\ \/ SameLease(a) /\ RemoveLease /\ Continue(a, "createLease") /\ UNCHANGED status
       \/ /\ ~SameLease(a) /\ lease = "absent"
          /\ Continue(a, "createLease")
          /\ UNCHANGED <<leaseVars, status>>
       \/ ~SameLease(a) /\ lease # "absent" /\ EndInError(a) /\ UNCHANGED leaseVars
    /\ UNCHANGED <<sharedVars, lifeVars, failures>>

\* Create decides between contenders.
CreateLease(a) ==
    /\ pc[a] = "createLease"
    /\ \/ /\ lease = "absent"
          /\ lease' = "held"
          /\ holds' = [holds EXCEPT ![a] = TRUE]
          /\ Continue(a, "check")
       \/ lease # "absent" /\ End(a) /\ UNCHANGED leaseVars
    /\ UNCHANGED <<sharedVars, envVars, failures>>

\* releaseProvisionLease, deferred; a failed release is only logged.  What
\* submitDeploys makes of the verdict follows: turned away at capacity, the
\* environment fails for good.
ReleaseLease(a) ==
    /\ pc[a] = "release"
    /\ \/ SameLease(a) /\ RemoveLease /\ UNCHANGED failures
       \/ ~SameLease(a) /\ ForgetLease(a) /\ UNCHANGED failures
       \/ ForgetLease(a) /\ Fail
    /\ \/ verdict[a] = "granted" /\ Continue(a, "commit") /\ UNCHANGED status
       \/ verdict[a] = "refused" /\ End(a) /\ UNCHANGED status
       \/ verdict[a] = "full" /\ EndAs(a, {"full"})
       \/ verdict[a] = "error" /\ EndInError(a)
    /\ UNCHANGED <<sharedVars, lifeVars>>

-----------------------------------------------------------------------------
\* registerConsumer and submitShared, for environment e.

\* The component is pending: the pass of e registers it.
BeginRegistration(e) ==
    /\ pc[e] = "idle"
    /\ life[e] = "live"
    /\ status[e] = "pending"
    /\ Continue(e, "getLease")
    /\ UNCHANGED <<leaseVars, sharedVars, envVars, failures>>

\* The live read under the lease.
CheckShared(e) ==
    /\ pc[e] = "check"
    /\ IF Admitting(shared.uid)
       THEN /\ pc' = [pc EXCEPT ![e] = "count"]
            /\ seen' = [seen EXCEPT ![e] = shared.uid]
            /\ UNCHANGED verdict
       ELSE Conclude(e, "refused")
    /\ UNCHANGED <<leaseVars, sharedVars, envVars, failures>>

\* Mutant: one consumer too many.
RoomForOneMore == MaxConsumers > 0 => Cardinality(consumers) <= MaxConsumers

HasRoom == MaxConsumers > 0 => Cardinality(consumers) < MaxConsumers

\* Mutant: a label of its own counts against the environment.
NotCounted(e) == FALSE

IsConsumer(e) == e \in consumers

\* isConsumer and the live list of labelled namespaces.
CountConsumers(e) ==
    /\ pc[e] = "count"
    /\ IF IsConsumer(e) \/ HasRoom THEN Continue(e, "label") ELSE Conclude(e, "full")
    /\ UNCHANGED <<leaseVars, sharedVars, envVars, failures>>

\* labelConsumer: a patch with the resourceVersion of the namespace.
LabelConsumer(e) ==
    /\ pc[e] = "label"
    /\ consumers' = consumers \cup {e}
    /\ late' = late \ {e}
    /\ Continue(e, "recheck")
    /\ UNCHANGED <<leaseVars, sharedVars, life, status, allocVars, failures>>

\* The label patch times out here and is still on its way.
LabelDelayed(e) ==
    /\ "LateWrite" \in Disturbances
    /\ pc[e] = "label"
    /\ e \notin consumers
    /\ Fail
    /\ late' = late \cup {e}
    /\ Conclude(e, "error")
    /\ UNCHANGED <<leaseVars, sharedVars, life, status, consumers, allocVars>>

\* Mutant: the label alone admits.
NoRecheck(e) == TRUE

StillAdmitting(e) == Admitting(seen[e])

\* The live read after the label.
RecheckShared(e) ==
    /\ pc[e] = "recheck"
    /\ Conclude(e, IF StillAdmitting(e) THEN "granted" ELSE "refused")
    /\ UNCHANGED <<leaseVars, sharedVars, envVars, failures>>

\* The binding Secret and the provision Job, after the lease was released.
SubmitProvision(e) ==
    /\ pc[e] = "commit"
    /\ allocated' = allocated \cup {e}
    /\ EndAs(e, {"submitted"})
    /\ UNCHANGED <<leaseVars, sharedVars, life, consumers, late, abandoned, failures>>

\* A call of submitShared fails outside the lease; the last one, which submits
\* the Job, may have been carried out all the same.
SubmissionFails(e) ==
    /\ pc[e] \in {"getLease", "deleteLease", "createLease", "commit"}
    /\ Fail
    /\ ForgetLease(e)
    /\ EndInError(e)
    /\ \/ UNCHANGED allocated
       \/ pc[e] = "commit" /\ allocated' = allocated \cup {e}
    /\ UNCHANGED <<sharedVars, life, consumers, late, abandoned>>

\* The provision Job failed: the component is pending again, or has failed.
ProvisionFailed(e) ==
    /\ pc[e] = "idle"
    /\ life[e] = "live"
    /\ status[e] = "submitted"
    /\ Fail
    /\ \E s \in Charged : status' = [status EXCEPT ![e] = s]
    /\ UNCHANGED <<leaseVars, passVars, sharedVars, lifeVars>>

Register(e) ==
    \/ BeginRegistration(e) \/ CheckShared(e) \/ CountConsumers(e) \/ LabelConsumer(e)
    \/ RecheckShared(e) \/ SubmitProvision(e)

\* A spec edit forgets the components: everything is pending again.
SpecEdit(e) ==
    /\ pc[e] = "idle"
    /\ life[e] = "live"
    /\ status[e] # "pending"
    /\ Fail
    /\ status' = [status EXCEPT ![e] = "pending"]
    /\ UNCHANGED <<leaseVars, passVars, sharedVars, lifeVars>>

\* The allocation is released: its deprovision Job succeeded.
Released(e) == allocated' = allocated \ {e} /\ UNCHANGED abandoned

\* It stays, as the code accepts: the template or the provider is gone, the
\* cache has no binding Secret, or the Job failed once too often.
Abandoned(e) ==
    /\ e \in allocated
    /\ abandoned' = abandoned \cup {e}
    /\ UNCHANGED allocated

\* The deletion of e: the allocation goes first, unless the cache does not
\* know the component, then the namespace, and the label with it.
Deprovision(e) ==
    /\ pc[e] = "idle"
    /\ life[e] = "deleting"
    /\ life' = [life EXCEPT ![e] = "cleaned"]
    /\ \/ sharedCache.phase = "absent" /\ UNCHANGED allocVars
       \/ sharedCache.phase # "absent" /\ Released(e)
       \/ Abandoned(e)
    /\ UNCHANGED <<leaseVars, passVars, sharedVars, status, consumers, late, failures>>

NamespaceGone(e) ==
    /\ pc[e] = "idle"
    /\ life[e] = "cleaned"
    /\ life' = [life EXCEPT ![e] = "gone"]
    /\ consumers' = consumers \ {e}
    /\ late' = late \ {e}
    /\ UNCHANGED <<leaseVars, passVars, sharedVars, status, allocVars, failures>>

-----------------------------------------------------------------------------
\* The SharedComponent's controller.

\* A status patch without a resourceVersion, sent if the cached copy differs.
PatchReady(ready) ==
    shared' = IF shared.phase # "absent" /\ ready # sharedCache.ready
              THEN [shared EXCEPT !.ready = ready] ELSE shared

\* reconcile: the install Job is submitted, awaited, and reported as Ready.  A
\* failed install is submitted again, and so is one whose provider has changed.
ReconcileShared ==
    /\ pc[Controller] = "idle"
    /\ sharedCache.phase = "live"
    /\ \/ deployJob = "none" /\ deployJob' = "running" /\ PatchReady(FALSE) /\ UNCHANGED failures
       \/ deployJob = "running" /\ PatchReady(FALSE) /\ UNCHANGED <<deployJob, failures>>
       \/ deployJob = "failed" /\ deployJob' = "none" /\ PatchReady(FALSE) /\ UNCHANGED failures
       \/ deployJob = "succeeded" /\ PatchReady(TRUE) /\ UNCHANGED <<deployJob, failures>>
       \/ deployJob = "succeeded" /\ deployJob' = "none" /\ PatchReady(FALSE) /\ Fail
    /\ UNCHANGED <<leaseVars, passVars, sharedCache, undeployJob, retries, envVars>>

\* reconcileDelete, from the cached copy.
BeginDeletion ==
    /\ pc[Controller] = "idle"
    /\ sharedCache.phase = "deleting"
    /\ pc' = [pc EXCEPT ![Controller] = "getLease"]
    /\ seen' = [seen EXCEPT ![Controller] = sharedCache.uid]
    /\ UNCHANGED <<verdict, leaseVars, sharedVars, envVars, failures>>

\* consumersDrained, the live read of the component.
CheckDeletion ==
    /\ pc[Controller] = "check"
    /\ IF shared.uid = seen[Controller] /\ shared.phase = "deleting"
       THEN Continue(Controller, "count") ELSE Conclude(Controller, "refused")
    /\ UNCHANGED <<leaseVars, sharedVars, envVars, failures>>

\* Mutant: an environment that is being deleted does not count.
NoLiveConsumer == \A e \in consumers : life[e] # "live"

Drained == consumers = {}

\* consumersDrained, the live list of labelled namespaces.
DrainConsumers ==
    /\ pc[Controller] = "count"
    /\ Conclude(Controller, IF Drained THEN "granted" ELSE "refused")
    /\ UNCHANGED <<leaseVars, sharedVars, envVars, failures>>

\* Mutant: the uninstall does not wait for an install.
NoBarrier == TRUE

InstallFinished == deployJob # "running"

\* Mutant: one retry too many.
ExhaustedLate == retries > MaxRetries

Exhausted == retries + 1 >= MaxRetries

RemoveFinalizer ==
    /\ shared' = [shared EXCEPT !.phase = "absent", !.ready = FALSE]
    /\ UNCHANGED <<undeployJob, retries>>

\* The rest of reconcileDelete: never uninstall under a running install;
\* submit the uninstall, await it, retry it, and remove the finalizer when it
\* succeeded or its retries are exhausted.
Teardown ==
    /\ pc[Controller] = "commit"
    /\ End(Controller)
    /\ \/ ~InstallFinished /\ UNCHANGED <<shared, undeployJob, retries>>
       \/ /\ InstallFinished /\ undeployJob = "none"
          /\ undeployJob' = "running"
          /\ UNCHANGED <<shared, retries>>
       \/ InstallFinished /\ undeployJob = "running" /\ UNCHANGED <<shared, undeployJob, retries>>
       \/ /\ InstallFinished /\ undeployJob = "failed"
          /\ IF Exhausted
             THEN RemoveFinalizer
             ELSE undeployJob' = "none" /\ retries' = retries + 1 /\ UNCHANGED shared
       \/ InstallFinished /\ undeployJob = "succeeded" /\ RemoveFinalizer
    /\ UNCHANGED <<leaseVars, sharedCache, deployJob, envVars, failures>>

Delete == BeginDeletion \/ CheckDeletion \/ DrainConsumers \/ Teardown

-----------------------------------------------------------------------------
\* Time, failures, and everybody else.

\* 30 seconds have passed.  A pass has 10 seconds, and 5 more for its release:
\* only a holder that overruns still holds an expired Lease.
ExpireLease ==
    /\ lease = "held"
    /\ "Overrun" \in Disturbances \/ \A a \in Actors : holds[a] => pc[a] \notin Critical
    /\ lease' = "expired"
    /\ UNCHANGED <<holds, passVars, sharedVars, envVars, failures>>

\* The pass times out, or a call fails, under the lease.
GiveUp(a) ==
    /\ pc[a] \in Critical \ {"release"}
    /\ Fail
    /\ Conclude(a, IF a = Controller THEN "refused" ELSE "error")
    /\ UNCHANGED <<leaseVars, sharedVars, envVars>>

\* The operator crashes, or a patch or call that is just repeated fails.
Crash(a) ==
    /\ pc[a] # "idle"
    /\ Fail
    /\ ForgetLease(a)
    /\ End(a)
    /\ UNCHANGED <<sharedVars, envVars>>

\* A label patch that was given up is applied after all.
LateLabel(e) ==
    /\ e \in late
    /\ consumers' = consumers \cup {e}
    /\ late' = late \ {e}
    /\ UNCHANGED <<leaseVars, passVars, sharedVars, life, status, allocVars, failures>>

SyncShared ==
    /\ sharedCache # shared
    /\ sharedCache' = shared
    /\ UNCHANGED <<leaseVars, passVars, shared, deployJob, undeployJob, retries, envVars, failures>>

\* A Job of an earlier object carries another payload: it counts as none.
CreateShared ==
    /\ shared.phase = "absent"
    /\ shared.uid < MaxUid
    /\ shared' = [uid |-> shared.uid + 1, phase |-> "live", ready |-> FALSE]
    /\ deployJob' = "none" /\ undeployJob' = "none" /\ retries' = 0
    /\ UNCHANGED <<leaseVars, passVars, sharedCache, envVars, failures>>

DeleteShared ==
    /\ shared.phase = "live"
    /\ shared' = [shared EXCEPT !.phase = "deleting"]
    /\ UNCHANGED <<leaseVars, passVars, sharedCache, deployJob, undeployJob, retries, envVars, failures>>

UserDelete(e) ==
    /\ life[e] = "live"
    /\ life' = [life EXCEPT ![e] = "deleting"]
    /\ UNCHANGED <<leaseVars, passVars, sharedVars, status, consumers, late, allocVars, failures>>

\* Jobs end.
FinishDeploy ==
    /\ deployJob = "running"
    /\ \/ deployJob' = "succeeded" /\ UNCHANGED failures
       \/ deployJob' = "failed" /\ Fail
    /\ UNCHANGED <<leaseVars, passVars, shared, sharedCache, undeployJob, retries, envVars>>

FinishUndeploy ==
    /\ undeployJob = "running"
    /\ undeployJob' \in {"succeeded", "failed"}
    /\ UNCHANGED <<leaseVars, passVars, shared, sharedCache, deployJob, retries, envVars, failures>>

-----------------------------------------------------------------------------
Locking(a) == GetLease(a) \/ DeleteExpiredLease(a) \/ CreateLease(a) \/ ReleaseLease(a)

ActorStep(a) == Locking(a) \/ GiveUp(a) \/ Crash(a)

EnvStep(e) ==
    \/ Register(e) \/ LabelDelayed(e) \/ SubmissionFails(e) \/ ProvisionFailed(e)
    \/ SpecEdit(e) \/ Deprovision(e) \/ NamespaceGone(e) \/ LateLabel(e) \/ UserDelete(e)

SharedStep ==
    \/ ReconcileShared \/ Delete \/ ExpireLease \/ SyncShared \/ CreateShared
    \/ DeleteShared \/ FinishDeploy \/ FinishUndeploy

Next == (\E a \in Actors : ActorStep(a)) \/ (\E e \in Envs : EnvStep(e)) \/ SharedStep

Spec == Init /\ [][Next]_vars

-----------------------------------------------------------------------------
\* Safety.

\* The environments that hold an allocation and did not give it up.
Held == allocated \ abandoned

\* No instance is uninstalled, and no component released, while an
\* environment has an allocation in it that it did not abandon: the deletion
\* timestamp and the labels protect the instance even when the lease does not
\* (shared.go:85-134 and sharedcomponent_controller.go:257-283).
NoOrphans == Held # {} => shared.phase # "absent" /\ undeployJob = "none" /\ retries = 0

\* An environment that is through with its cleanup has released its allocation
\* or abandoned it for one of the accepted reasons (the template, the provider
\* or the binding Secret is gone, the deprovision Job failed too often).  That
\* the cache does not know the component (ephemeralenvironment_controller.go:
\* 447) is none of them: it never hides an allocation.
NothingLeaked == \A e \in Held : life[e] \in {"live", "deleting"}

\* As long as the lease outlives its holders, no two of them decide at once.
OneHolder ==
    \A a, b \in Actors : pc[a] \in Critical /\ pc[b] \in Critical => a = b

\* So the labels never exceed spec.maxConsumers.
CapacityKept == MaxConsumers > 0 => Cardinality(consumers) <= MaxConsumers

\* The environments that have a place, or had one to the end.
Served == consumers \cup {e \in Envs : life[e] = "gone"}

\* An environment that failed at capacity takes up no place itself, whatever
\* its earlier passes left behind, and it failed because so many others had
\* one: it does not count its own label against itself.
TurnedAwayByOthers ==
    \A e \in Envs : status[e] = "full" =>
        /\ e \notin consumers
        /\ MaxConsumers > 0
        /\ Cardinality(Served \ {e}) >= MaxConsumers

\* helm never installs and uninstalls the same release at once.
NoRacingJobs == ~(deployJob = "running" /\ undeployJob = "running")

-----------------------------------------------------------------------------
\* Liveness.  The work queue retries, time passes, the watch delivers and Jobs
\* end; users and failures are under no fairness.
Fairness ==
    /\ \A a \in Actors : WF_vars(Locking(a))
    /\ \A e \in Envs : WF_vars(Register(e)) /\ WF_vars(Deprovision(e)) /\ WF_vars(NamespaceGone(e))
    /\ WF_vars(ReconcileShared) /\ WF_vars(Delete)
    /\ WF_vars(ExpireLease) /\ WF_vars(SyncShared)
    /\ WF_vars(FinishDeploy) /\ WF_vars(FinishUndeploy)

FairSpec == Spec /\ Fairness

\* The deletion of a component completes once its environments are deleted,
\* whatever happened to the lease.
SharedGoes ==
    (shared.phase = "deleting" /\ \A e \in Envs : life[e] # "live") ~> shared.phase = "absent"

\* An environment gets its allocation, unless the component is not ready or
\* being deleted, or the environment fails: at capacity, or when an error or a
\* failed Job used up its last retry.  It does not wait for ever.
EventuallyAllocated ==
    \A e \in Envs : life[e] = "live" ~>
        \/ e \in allocated \/ life[e] # "live"
        \/ ~Admitting(shared.uid)
        \/ status[e] \in {"full", "failed"}
=============================================================================
