----------------------- MODULE SharedAdmissionProofs -----------------------
(***************************************************************************)
(* Proofs about SharedAdmission, for any number of environments, any       *)
(* number of retries, failures and re-creations of the component.          *)
(***************************************************************************)
EXTENDS SharedAdmission, FiniteSetTheorems, TLAPS

-----------------------------------------------------------------------------
\* Types.

LEMMA InitType == Init => TypeOK
  BY ConstantsAssumption DEF Init, TypeOK, Objects, Steps, JobStates, Actors, Verdicts, Statuses

LEMMA ContinueType ==
  ASSUME TypeOK, NEW a \in Actors, NEW s \in Steps, Continue(a, s)
  PROVE  pc' \in [Actors -> Steps] /\ seen' = seen /\ verdict' = verdict
  BY DEF TypeOK, Continue

LEMMA EndType ==
  ASSUME TypeOK, NEW a \in Actors, End(a)
  PROVE  /\ pc' \in [Actors -> Steps]
         /\ seen' \in [Actors -> 0..MaxUid]
         /\ verdict' \in [Actors -> Verdicts]
  BY ConstantsAssumption DEF TypeOK, End, Steps, Verdicts

LEMMA ConcludeType ==
  ASSUME TypeOK, NEW a \in Actors, NEW v \in Verdicts, Conclude(a, v)
  PROVE  /\ pc' \in [Actors -> Steps]
         /\ seen' = seen
         /\ verdict' \in [Actors -> Verdicts]
  BY DEF TypeOK, Conclude, Steps

LEMMA EndAsType ==
  ASSUME TypeOK, NEW e \in Actors, NEW S \in SUBSET Statuses, EndAs(e, S)
  PROVE  End(e) /\ status' \in [Envs -> Statuses]
  BY DEF TypeOK, EndAs

LEMMA EndInErrorType ==
  ASSUME TypeOK, NEW a \in Actors, EndInError(a)
  PROVE  End(a) /\ status' \in [Envs -> Statuses]
  BY EndAsType DEF EndInError, Charged, Statuses, Actors, TypeOK

LEMMA FailType ==
  ASSUME TypeOK, Fail
  PROVE  failures' \in 0..MaxFailures
  BY ConstantsAssumption DEF TypeOK, Fail

\* The steps of any pass around the lease.
LEMMA ActorType ==
  ASSUME TypeOK, NEW a \in Actors, ActorStep(a)
  PROVE  TypeOK'
<1> USE DEF leaseVars, passVars, sharedVars, envVars, lifeVars, allocVars
<1>1. /\ "createLease" \in Steps /\ "deleteLease" \in Steps
      /\ "check" \in Steps /\ "commit" \in Steps
  BY DEF Steps
<1>2. CASE GetLease(a)
  BY <1>1, <1>2, ContinueType, EndType DEF GetLease, TypeOK
<1>3. CASE DeleteExpiredLease(a)
  BY <1>1, <1>3, ContinueType, EndInErrorType, EndType DEF DeleteExpiredLease, RemoveLease, TypeOK
<1>4. CASE CreateLease(a)
  BY <1>1, <1>4, ContinueType, EndType DEF CreateLease, TypeOK
<1>5. CASE ReleaseLease(a)
  <2>1. CASE verdict[a] \in {"granted", "refused"}
    BY <1>1, <1>5, <2>1, ContinueType, EndType, FailType
    DEF ReleaseLease, RemoveLease, ForgetLease, TypeOK
  <2>2. CASE verdict[a] \in {"full", "error"}
    <3>1. End(a) /\ status' \in [Envs -> Statuses]
      BY <1>5, <2>2, EndAsType, EndInErrorType DEF ReleaseLease, Statuses
    <3> QED
      BY <1>1, <1>5, <3>1, EndType, FailType DEF ReleaseLease, RemoveLease, ForgetLease, TypeOK
  <2> QED
    BY <2>1, <2>2 DEF TypeOK, Verdicts
<1>6. CASE GiveUp(a)
  BY <1>6, ConcludeType, FailType DEF GiveUp, TypeOK, Verdicts
<1>7. CASE Crash(a)
  BY <1>7, EndType, FailType DEF Crash, ForgetLease, TypeOK
<1> QED
  BY <1>2, <1>3, <1>4, <1>5, <1>6, <1>7 DEF ActorStep, Locking

\* The steps of an environment.
LEMMA EnvType ==
  ASSUME TypeOK, NEW e \in Envs, EnvStep(e)
  PROVE  TypeOK'
<1> USE DEF leaseVars, passVars, sharedVars, envVars, lifeVars, allocVars
<1>1. e \in Actors
  BY DEF Actors
<1>2. "getLease" \in Steps /\ "label" \in Steps /\ "recheck" \in Steps /\ "count" \in Steps
  BY DEF Steps
<1>3. CASE BeginRegistration(e)
  BY <1>1, <1>2, <1>3, ContinueType DEF BeginRegistration, TypeOK
<1>4. CASE CheckShared(e)
  <2>1. shared.uid \in 0..MaxUid
    BY DEF TypeOK, Objects
  <2> QED
    BY <1>1, <1>2, <1>4, <2>1, ConcludeType DEF CheckShared, TypeOK, Verdicts
<1>5. CASE CountConsumers(e)
  BY <1>1, <1>2, <1>5, ContinueType, ConcludeType DEF CountConsumers, TypeOK, Verdicts
<1>6. CASE LabelConsumer(e)
  BY <1>1, <1>2, <1>6, ContinueType DEF LabelConsumer, TypeOK
<1>7. CASE RecheckShared(e)
  BY <1>1, <1>7, ConcludeType DEF RecheckShared, TypeOK, Verdicts
<1>8. CASE SubmitProvision(e)
  BY <1>1, <1>8, EndAsType, EndType DEF SubmitProvision, Statuses, TypeOK
<1>9. CASE LabelDelayed(e)
  BY <1>1, <1>9, ConcludeType, FailType DEF LabelDelayed, TypeOK, Verdicts
<1>10. CASE ProvisionFailed(e) \/ SpecEdit(e)
  BY <1>10, FailType DEF ProvisionFailed, SpecEdit, Charged, Statuses, TypeOK
<1>12. CASE SubmissionFails(e)
  BY <1>1, <1>12, EndInErrorType, EndType, FailType DEF SubmissionFails, ForgetLease, TypeOK
<1>11. CASE Deprovision(e) \/ NamespaceGone(e) \/ LateLabel(e) \/ UserDelete(e)
  BY <1>11 DEF Deprovision, Released, Abandoned, NamespaceGone, LateLabel, UserDelete, TypeOK
<1> QED
  BY <1>3, <1>4, <1>5, <1>6, <1>7, <1>8, <1>9, <1>10, <1>11, <1>12 DEF EnvStep, Register

\* The steps of the component, its controller and its Jobs.
LEMMA SharedType ==
  ASSUME TypeOK, SharedStep
  PROVE  TypeOK'
<1> USE DEF leaseVars, passVars, sharedVars, envVars, lifeVars, allocVars
<1>1. Controller \in Actors
  BY DEF Actors
<1>2. "getLease" \in Steps /\ "count" \in Steps
  BY DEF Steps
<1>3. CASE ReconcileShared
  <2>1. ASSUME NEW ready \in BOOLEAN, PatchReady(ready)
        PROVE  shared' \in Objects
    BY <2>1 DEF PatchReady, TypeOK, Objects
  <2>2. deployJob' \in JobStates
    BY <1>3 DEF ReconcileShared, TypeOK, JobStates
  <2> QED
    BY <1>3, <2>1, <2>2, FailType DEF ReconcileShared, TypeOK
<1>4. CASE BeginDeletion
  <2>1. sharedCache.uid \in 0..MaxUid
    BY DEF TypeOK, Objects
  <2> QED
    BY <1>1, <1>2, <1>4, <2>1 DEF BeginDeletion, TypeOK
<1>5. CASE CheckDeletion
  BY <1>1, <1>2, <1>5, ContinueType, ConcludeType DEF CheckDeletion, TypeOK, Verdicts
<1>6. CASE DrainConsumers
  BY <1>1, <1>6, ConcludeType DEF DrainConsumers, TypeOK, Verdicts
<1>7. CASE Teardown
  <2>1. [shared EXCEPT !.phase = "absent", !.ready = FALSE] \in Objects
    BY DEF TypeOK, Objects
  <2>2. ~Exhausted => retries + 1 \in 0..MaxRetries
    BY ConstantsAssumption DEF Exhausted, TypeOK
  <2>3. undeployJob' \in JobStates /\ retries' \in 0..MaxRetries /\ shared' \in Objects
    BY <1>7, <2>1, <2>2 DEF Teardown, RemoveFinalizer, TypeOK, JobStates
  <2> QED
    BY <1>1, <1>7, <2>3, EndType DEF Teardown, TypeOK
<1>8. CASE ExpireLease \/ SyncShared
  BY <1>8 DEF ExpireLease, SyncShared, TypeOK
<1>9. CASE CreateShared
  BY <1>9, ConstantsAssumption DEF CreateShared, TypeOK, Objects, JobStates
<1>10. CASE DeleteShared
  BY <1>10 DEF DeleteShared, TypeOK, Objects
<1>11. CASE FinishDeploy \/ FinishUndeploy
  BY <1>11, FailType DEF FinishDeploy, FinishUndeploy, TypeOK, JobStates
<1> QED
  BY <1>3, <1>4, <1>5, <1>6, <1>7, <1>8, <1>9, <1>10, <1>11 DEF SharedStep, Delete

LEMMA NextType == TypeOK /\ [Next]_vars => TypeOK'
<1> SUFFICES ASSUME TypeOK, [Next]_vars PROVE TypeOK'
  OBVIOUS
<1>1. CASE UNCHANGED vars
  BY <1>1 DEF vars, leaseVars, passVars, sharedVars, envVars, lifeVars, allocVars, TypeOK
<1> QED
  BY <1>1, ActorType, EnvType, SharedType DEF Next

\* Every reachable state is well typed, for all values of the constants.
THEOREM SharedTypeCorrect == Spec => []TypeOK
  BY InitType, NextType, PTL DEF Spec

-----------------------------------------------------------------------------
(***************************************************************************)
(* No instance is uninstalled under an allocation, however leases expire   *)
(* and labels arrive.  An environment that is allocating was labelled      *)
(* while the component was alive; the controller that drains has seen the  *)
(* deletion timestamp, after which nothing is admitted, and no label.      *)
(***************************************************************************)

\* e has an allocation, or its pass was admitted and will make one.
Allocating(e) ==
    \/ e \in Held
    \/ pc[e] = "commit"
    \/ pc[e] = "release" /\ verdict[e] = "granted"

\* The controller's pass has found no consumers, and will uninstall.
Draining ==
    \/ pc[Controller] = "commit"
    \/ pc[Controller] = "release" /\ verdict[Controller] = "granted"

Protected(e) ==
    Allocating(e) =>
        /\ e \in consumers
        /\ life[e] \in {"live", "deleting"}
        /\ shared.phase # "absent" /\ sharedCache.phase # "absent"
        /\ undeployJob = "none" /\ retries = 0
        /\ ~Draining

\* An environment goes between passes only, so a label that was set stays
\* until the pass ends.
Registered(e) ==
    /\ pc[e] # "idle" => life[e] \in {"live", "deleting"}
    /\ pc[e] = "recheck" => e \in consumers

\* The instance is uninstalled only after the component's deletion was seen.
Instance ==
    /\ shared.phase = "live" => undeployJob = "none" /\ retries = 0
    /\ shared.ready => shared.phase # "absent" /\ sharedCache.phase # "absent"
    /\ undeployJob # "none" =>
          /\ deployJob # "running"
          /\ sharedCache.uid = shared.uid
          /\ sharedCache.phase # "live"

\* The cached copy is behind the component, and the controller's pass behind
\* the cache; a component's deletion is not taken back.
Aging ==
    /\ sharedCache.uid <= shared.uid
    /\ sharedCache.uid = shared.uid /\ shared.phase = "live" => sharedCache.phase = "live"
    /\ pc[Controller] # "idle" =>
          /\ seen[Controller] <= sharedCache.uid
          /\ seen[Controller] = sharedCache.uid => sharedCache.phase # "live"
    /\ pc[Controller] = "count" \/ Draining =>
          shared.uid = seen[Controller] /\ shared.phase = "deleting"

AdmissionInv ==
    /\ TypeOK
    /\ \A e \in Envs : Protected(e) /\ Registered(e)
    /\ Instance
    /\ Aging

LEMMA AdmissionInit == Init => AdmissionInv
<1> SUFFICES ASSUME Init PROVE AdmissionInv
  OBVIOUS
<1>1. TypeOK
  BY InitType
<1>2. Controller \in Actors /\ Envs \subseteq Actors
  BY DEF Actors
<1> QED
  BY <1>1, <1>2 DEF Init, AdmissionInv, Protected, Allocating, Held, Draining, Registered, Instance, Aging

\* A pass goes on or ends, without having been admitted and without having
\* found the component drained.
LEMMA PassMoves ==
  ASSUME AdmissionInv, TypeOK', NEW a \in Actors, NEW s,
         pc' = [pc EXCEPT ![a] = s],
         \A b \in Actors \ {a} : seen'[b] = seen[b] /\ verdict'[b] = verdict[b],
         s = "idle" \/ (pc[a] # "idle" /\ seen'[a] = seen[a]),
         s \notin {"count", "recheck"},
         s = "commit" => pc[a] = "release" /\ verdict[a] = "granted",
         s = "release" => verdict'[a] # "granted",
         UNCHANGED <<sharedVars, life, consumers, allocVars>>
  PROVE  AdmissionInv'
<1>1. Controller \in Actors /\ Envs \subseteq Actors
  BY DEF Actors
<1>2. \A b \in Actors : pc'[b] = IF b = a THEN s ELSE pc[b]
  BY DEF AdmissionInv, TypeOK
<1>3. Draining' => Draining
  BY <1>1, <1>2 DEF Draining
<1>4. ASSUME NEW e \in Envs
      PROVE  (Protected(e) /\ Registered(e))'
  <2>1. Allocating(e)' => Allocating(e)
    BY <1>1, <1>2 DEF Allocating, Held, allocVars
  <2>2. Protected(e)'
    BY <1>3, <2>1 DEF AdmissionInv, Protected, sharedVars
  <2>3. Registered(e)'
    BY <1>1, <1>2 DEF AdmissionInv, Registered
  <2> QED
    BY <2>2, <2>3
<1>5. Instance'
  BY DEF AdmissionInv, Instance, sharedVars
<1>6. Aging'
  <2>1. pc'[Controller] # "idle" => pc[Controller] # "idle" /\ seen'[Controller] = seen[Controller]
    BY <1>1, <1>2
  <2>2. pc'[Controller] = "count" \/ Draining' =>
            (pc[Controller] = "count" \/ Draining) /\ pc'[Controller] # "idle"
    BY <1>1, <1>2, <1>3 DEF Draining
  <2> QED
    BY <2>1, <2>2 DEF AdmissionInv, Aging, sharedVars
<1> QED
  BY <1>4, <1>5, <1>6 DEF AdmissionInv

LEMMA AdmissionActor ==
  ASSUME AdmissionInv, TypeOK', NEW a \in Actors, ActorStep(a)
  PROVE  AdmissionInv'
<1> USE DEF envVars, lifeVars, allocVars, passVars, Held
<1>1. TypeOK
  BY DEF AdmissionInv
<1>2. ASSUME NEW s, Continue(a, s)
      PROVE  pc' = [pc EXCEPT ![a] = s] /\ seen' = seen /\ verdict' = verdict
  BY <1>2 DEF Continue
<1>3. ASSUME End(a)
      PROVE  /\ pc' = [pc EXCEPT ![a] = "idle"]
             /\ \A b \in Actors \ {a} : seen'[b] = seen[b] /\ verdict'[b] = verdict[b]
  BY <1>1, <1>3 DEF End, TypeOK
<1>4. ASSUME NEW v, v # "granted", Conclude(a, v)
      PROVE  /\ pc' = [pc EXCEPT ![a] = "release"]
             /\ seen' = seen /\ verdict'[a] # "granted"
             /\ \A b \in Actors \ {a} : verdict'[b] = verdict[b]
  BY <1>1, <1>4 DEF Conclude, TypeOK
<1>5. CASE GetLease(a)
  BY <1>2, <1>3, <1>5, PassMoves DEF GetLease
<1>6. CASE DeleteExpiredLease(a)
  BY <1>1, <1>2, <1>3, <1>6, EndInErrorType, PassMoves DEF DeleteExpiredLease
<1>7. CASE CreateLease(a)
  BY <1>2, <1>3, <1>7, PassMoves DEF CreateLease
<1>8. CASE ReleaseLease(a)
  <2>1. CASE Continue(a, "commit") /\ verdict[a] = "granted"
    BY <1>2, <1>8, <2>1, PassMoves DEF ReleaseLease
  <2>2. CASE End(a)
    BY <1>3, <1>8, <2>2, PassMoves DEF ReleaseLease
  <2> QED
    BY <1>1, <1>8, <2>1, <2>2, EndInErrorType DEF ReleaseLease, EndAs
<1>9. CASE GiveUp(a)
  BY <1>4, <1>9, PassMoves DEF GiveUp, Critical
<1>10. CASE Crash(a)
  BY <1>3, <1>10, PassMoves DEF Crash
<1> QED
  BY <1>5, <1>6, <1>7, <1>8, <1>9, <1>10 DEF ActorStep, Locking

\* The steps of an environment: only RecheckShared admits, and only while the
\* component is alive.
LEMMA AdmissionEnv ==
  ASSUME AdmissionInv, TypeOK', NEW f \in Envs, EnvStep(f)
  PROVE  AdmissionInv'
<1> USE DEF envVars, lifeVars, allocVars, passVars, Held
<1>1. TypeOK /\ f \in Actors /\ Controller \in Actors /\ f # Controller /\ Envs \subseteq Actors
  BY ConstantsAssumption DEF AdmissionInv, Actors
<1>2. ASSUME sharedVars' = sharedVars,
             pc'[Controller] = pc[Controller], seen'[Controller] = seen[Controller],
             verdict'[Controller] = verdict[Controller]
      PROVE  Instance' /\ Aging' /\ (Draining' <=> Draining)
  BY <1>2 DEF AdmissionInv, Instance, Aging, Draining, sharedVars
<1>3. ASSUME NEW s, pc' = [pc EXCEPT ![f] = s]
      PROVE  \A b \in Actors : pc'[b] = IF b = f THEN s ELSE pc[b]
  BY <1>1, <1>3 DEF TypeOK
<1>4. ASSUME NEW v, Conclude(f, v)
      PROVE  /\ pc' = [pc EXCEPT ![f] = "release"]
             /\ seen' = seen /\ verdict'[f] = v
             /\ \A b \in Actors \ {f} : verdict'[b] = verdict[b]
  BY <1>1, <1>4 DEF Conclude, TypeOK
<1>5. CASE BeginRegistration(f)
  BY <1>1, <1>2, <1>3, <1>5
  DEF BeginRegistration, Continue, AdmissionInv, Protected, Registered, Allocating, sharedVars
<1>6. CASE CheckShared(f)
  <2>1. CASE Admitting(shared.uid)
    <3>1. seen'[Controller] = seen[Controller]
      BY <1>1, <1>6, <2>1 DEF CheckShared, TypeOK
    <3> QED
      BY <1>1, <1>2, <1>3, <1>6, <2>1, <3>1
      DEF CheckShared, AdmissionInv, Protected, Registered, Allocating, sharedVars
  <2>2. CASE ~Admitting(shared.uid)
    BY <1>1, <1>4, <1>6, <2>2, PassMoves DEF CheckShared
  <2> QED
    BY <2>1, <2>2
<1>7. CASE CountConsumers(f)
  <2>1. pc[f] = "count" /\ UNCHANGED <<sharedVars, life, consumers, allocVars>>
    BY <1>7 DEF CountConsumers
  <2>2. CASE Continue(f, "label")
    BY <1>1, <2>1, <2>2, PassMoves DEF Continue
  <2>3. CASE Conclude(f, "full")
    BY <1>1, <1>4, <2>1, <2>3, PassMoves
  <2> QED
    BY <1>7, <2>2, <2>3 DEF CountConsumers
<1>8. CASE LabelConsumer(f)
  BY <1>1, <1>2, <1>3, <1>8
  DEF LabelConsumer, Continue, AdmissionInv, Protected, Registered, Allocating, sharedVars
<1>9. CASE RecheckShared(f)
  <2>1. CASE StillAdmitting(f)
    <3>1. shared.phase = "live" /\ shared.ready
      BY <2>1 DEF StillAdmitting, Admitting
    <3>2. ~Draining
      BY <3>1 DEF AdmissionInv, Aging
    <3> QED
      BY <1>1, <1>2, <1>3, <1>4, <1>9, <2>1, <3>1, <3>2
      DEF RecheckShared, AdmissionInv, Protected, Registered, Allocating, Instance, sharedVars
  <2>2. CASE ~StillAdmitting(f)
    <3>1. Conclude(f, "refused")
      BY <1>9, <2>2 DEF RecheckShared
    <3> QED
      BY <1>1, <1>4, <1>9, <3>1, PassMoves DEF RecheckShared
  <2> QED
    BY <2>1, <2>2
<1>10. CASE SubmitProvision(f)
  <2>1. /\ verdict'[Controller] = verdict[Controller]
        /\ seen'[Controller] = seen[Controller]
        /\ \A b \in Actors \ {f} : verdict'[b] = verdict[b]
    BY <1>1, <1>10 DEF SubmitProvision, EndAs, End, TypeOK
  <2> QED
    BY <1>1, <1>2, <1>3, <1>10, <2>1
    DEF SubmitProvision, EndAs, End, AdmissionInv, Protected, Registered, Allocating, sharedVars
<1>14. CASE SubmissionFails(f)
  <2>1. End(f)
    BY <1>1, <1>14, EndInErrorType DEF SubmissionFails
  <2>2. /\ verdict'[Controller] = verdict[Controller]
        /\ seen'[Controller] = seen[Controller]
        /\ \A b \in Actors \ {f} : verdict'[b] = verdict[b]
    BY <1>1, <2>1 DEF End, TypeOK
  <2> QED
    BY <1>1, <1>2, <1>3, <1>14, <2>1, <2>2
    DEF SubmissionFails, End, AdmissionInv, Protected, Registered, Allocating, sharedVars
<1>11. CASE LabelDelayed(f)
  BY <1>1, <1>4, <1>11, PassMoves DEF LabelDelayed
<1>12. CASE ProvisionFailed(f) \/ SpecEdit(f) \/ LateLabel(f)
  BY <1>1, <1>2, <1>12
  DEF ProvisionFailed, SpecEdit, LateLabel, AdmissionInv, Protected, Registered, Allocating, sharedVars
<1>13. CASE Deprovision(f) \/ NamespaceGone(f) \/ UserDelete(f)
  BY <1>1, <1>2, <1>13
  DEF Deprovision, Released, Abandoned, NamespaceGone, UserDelete, AdmissionInv, Protected,
      Registered, Allocating, sharedVars, TypeOK
<1> QED
  BY <1>5, <1>6, <1>7, <1>8, <1>9, <1>10, <1>11, <1>12, <1>13, <1>14 DEF EnvStep, Register

\* The steps of the component and its controller.
LEMMA AdmissionShared ==
  ASSUME AdmissionInv, TypeOK', SharedStep
  PROVE  AdmissionInv'
<1> USE DEF envVars, lifeVars, allocVars, passVars, Held
<1>1. TypeOK /\ Controller \in Actors /\ Controller \notin Envs /\ Envs \subseteq Actors
  BY ConstantsAssumption DEF AdmissionInv, Actors
<1>2. ASSUME NEW v, Conclude(Controller, v)
      PROVE  /\ pc' = [pc EXCEPT ![Controller] = "release"]
             /\ seen' = seen /\ verdict'[Controller] = v
             /\ \A b \in Actors \ {Controller} : verdict'[b] = verdict[b]
  BY <1>1, <1>2 DEF Conclude, TypeOK
<1>3. shared.uid \in Nat /\ sharedCache.uid \in Nat /\ seen[Controller] \in Nat
  BY <1>1, ConstantsAssumption DEF TypeOK, Objects
<1>4. CASE ReconcileShared
  <2>1. ASSUME NEW ready \in BOOLEAN, PatchReady(ready), sharedCache.phase = "live"
        PROVE  /\ shared'.uid = shared.uid /\ shared'.phase = shared.phase
               /\ shared'.ready => shared.phase # "absent"
    BY <1>1, <2>1 DEF PatchReady, AdmissionInv, Instance, TypeOK, Objects
  <2>2. /\ shared'.uid = shared.uid /\ shared'.phase = shared.phase
        /\ shared'.ready => shared.phase # "absent"
        /\ sharedCache.phase = "live"
    BY <1>4, <2>1 DEF ReconcileShared
  <2>3. UNCHANGED <<pc, seen, verdict, sharedCache, undeployJob, retries, life, consumers, allocVars>>
    BY <1>4 DEF ReconcileShared
  <2> QED
    BY <2>2, <2>3
    DEF AdmissionInv, Protected, Registered, Allocating, Draining, Instance, Aging
<1>5. CASE BeginDeletion
  <2>1. \A b \in Actors : pc'[b] = IF b = Controller THEN "getLease" ELSE pc[b]
    BY <1>1, <1>5 DEF BeginDeletion, TypeOK
  <2>2. seen'[Controller] = sharedCache.uid
    BY <1>1, <1>5 DEF BeginDeletion, TypeOK
  <2> QED
    BY <1>1, <1>3, <1>5, <2>1, <2>2
    DEF BeginDeletion, AdmissionInv, Protected, Registered, Allocating, Draining, Instance, Aging,
        sharedVars
<1>6. CASE CheckDeletion
  <2>1. CASE shared.uid = seen[Controller] /\ shared.phase = "deleting"
    <3>1. \A b \in Actors : pc'[b] = IF b = Controller THEN "count" ELSE pc[b]
      BY <1>1, <1>6, <2>1 DEF CheckDeletion, Continue, TypeOK
    <3> QED
      BY <1>1, <1>6, <2>1, <3>1
      DEF CheckDeletion, Continue, AdmissionInv, Protected, Registered, Allocating, Draining,
          Instance, Aging, sharedVars
  <2>2. CASE ~(shared.uid = seen[Controller] /\ shared.phase = "deleting")
    BY <1>1, <1>2, <1>6, <2>2, PassMoves DEF CheckDeletion
  <2> QED
    BY <2>1, <2>2
<1>7. CASE DrainConsumers
  <2>1. CASE Drained
    <3>1. \A e \in Envs : ~Allocating(e)
      BY <2>1 DEF Drained, AdmissionInv, Protected
    <3>2. \A b \in Actors : pc'[b] = IF b = Controller THEN "release" ELSE pc[b]
      BY <1>1, <1>2, <1>7, <2>1 DEF DrainConsumers, TypeOK
    <3>3. seen' = seen /\ \A b \in Actors \ {Controller} : verdict'[b] = verdict[b]
      BY <1>2, <1>7, <2>1 DEF DrainConsumers
    <3> QED
      BY <1>1, <1>7, <3>1, <3>2, <3>3
      DEF DrainConsumers, AdmissionInv, Protected, Registered, Allocating, Draining, Instance, Aging,
          sharedVars
  <2>2. CASE ~Drained
    <3>1. Conclude(Controller, "refused")
      BY <1>7, <2>2 DEF DrainConsumers
    <3> QED
      BY <1>1, <1>2, <1>7, <3>1, PassMoves DEF DrainConsumers
  <2> QED
    BY <2>1, <2>2
<1>8. CASE Teardown
  <2>1. Draining /\ shared.phase = "deleting" /\ pc[Controller] # "idle"
    BY <1>8 DEF Teardown, Draining, AdmissionInv, Aging
  <2>2. \A e \in Envs : ~Allocating(e)
    BY <2>1 DEF AdmissionInv, Protected
  <2>3. sharedCache.uid = shared.uid /\ sharedCache.phase # "live"
    BY <1>3, <2>1 DEF AdmissionInv, Aging
  <2>4. /\ \A b \in Actors : pc'[b] = IF b = Controller THEN "idle" ELSE pc[b]
        /\ \A b \in Actors \ {Controller} : verdict'[b] = verdict[b]
    BY <1>1, <1>8 DEF Teardown, End, TypeOK
  <2>5. /\ shared'.uid = shared.uid
        /\ shared'.phase # "live"
        /\ shared'.ready => shared.ready /\ shared'.phase # "absent"
    BY <1>1, <1>8, <2>1 DEF Teardown, RemoveFinalizer, TypeOK, Objects
  <2>6. undeployJob' # "none" => deployJob' # "running"
    BY <1>8 DEF Teardown, RemoveFinalizer, InstallFinished, AdmissionInv, Instance
  <2>7. UNCHANGED <<sharedCache, life, consumers, allocVars>>
    BY <1>8 DEF Teardown
  <2>8. \A e \in Envs : ~Allocating(e)'
    BY <1>1, <2>2, <2>4, <2>7 DEF Allocating
  <2>9. ~Draining' /\ pc'[Controller] = "idle"
    BY <1>1, <2>4 DEF Draining
  <2> QED
    BY <1>1, <2>1, <2>3, <2>4, <2>5, <2>6, <2>7, <2>8, <2>9
    DEF AdmissionInv, Protected, Registered, Instance, Aging
<1>9. CASE ExpireLease
  BY <1>9
  DEF ExpireLease, AdmissionInv, Protected, Registered, Allocating, Draining, Instance, Aging,
      sharedVars
<1>10. CASE SyncShared
  BY <1>3, <1>10
  DEF SyncShared, AdmissionInv, Protected, Registered, Allocating, Draining, Instance, Aging
<1>11. CASE CreateShared
  BY <1>1, <1>3, <1>11
  DEF CreateShared, AdmissionInv, Protected, Registered, Allocating, Draining, Instance, Aging
<1>12. CASE DeleteShared
  <2>1. shared'.uid = shared.uid /\ shared'.phase = "deleting" /\ shared'.ready = shared.ready
    BY <1>1, <1>12 DEF DeleteShared, TypeOK, Objects
  <2> QED
    BY <1>12, <2>1
    DEF DeleteShared, AdmissionInv, Protected, Registered, Allocating, Draining, Instance, Aging
<1>13. CASE FinishDeploy \/ FinishUndeploy
  BY <1>13
  DEF FinishDeploy, FinishUndeploy, AdmissionInv, Protected, Registered, Allocating, Draining,
      Instance, Aging
<1> QED
  BY <1>4, <1>5, <1>6, <1>7, <1>8, <1>9, <1>10, <1>11, <1>12, <1>13 DEF SharedStep, Delete

LEMMA AdmissionNext == AdmissionInv /\ [Next]_vars => AdmissionInv'
<1> SUFFICES ASSUME AdmissionInv, [Next]_vars PROVE AdmissionInv'
  OBVIOUS
<1>1. TypeOK'
  BY NextType DEF AdmissionInv
<1>2. CASE UNCHANGED vars
  BY <1>1, <1>2
  DEF vars, leaseVars, passVars, sharedVars, envVars, lifeVars, allocVars, AdmissionInv, Protected,
      Registered, Allocating, Held, Draining, Instance, Aging
<1> QED
  BY <1>1, <1>2, AdmissionActor, AdmissionEnv, AdmissionShared DEF Next

LEMMA AdmissionInvariant == Spec => []AdmissionInv
  BY AdmissionInit, AdmissionNext, PTL DEF Spec

\* As long as an environment has an allocation that it did not abandon the
\* component exists and no uninstall was started, whatever happens to leases
\* and labels.
THEOREM AllocationsAreServed == Spec => []NoOrphans
<1>1. AdmissionInv => NoOrphans
  BY DEF AdmissionInv, TypeOK, Protected, Allocating, Held, NoOrphans
<1> QED
  BY <1>1, AdmissionInvariant, PTL

\* Before an environment goes on to delete its namespace its allocation is
\* released, or abandoned for one of the reasons the code accepts (template,
\* provider or binding Secret gone, deprovision retries used up).  A cache that
\* does not know the component leaves nothing behind.
THEOREM AllocationsAreReleased == Spec => []NothingLeaked
<1>1. AdmissionInv => NothingLeaked
  BY DEF AdmissionInv, TypeOK, Protected, Allocating, Held, NothingLeaked
<1> QED
  BY <1>1, AdmissionInvariant, PTL

\* An install and an uninstall of one release never run at the same time.
THEOREM JobsDoNotRace == Spec => []NoRacingJobs
<1>1. AdmissionInv => NoRacingJobs
  BY DEF AdmissionInv, Instance, NoRacingJobs
<1> QED
  BY <1>1, AdmissionInvariant, PTL

-----------------------------------------------------------------------------
(***************************************************************************)
(* The lease excludes, as long as it outlives its holders.  The API server *)
(* deletes a Lease only for who knows that very Lease, so an actor that    *)
(* read an expired one cannot remove the one created since.                *)
(***************************************************************************)

LeaseInv ==
    /\ TypeOK
    /\ \A a \in Actors : pc[a] \in Critical => lease = "held" /\ holds[a]
    /\ \A a \in Actors : pc[a] = "deleteLease" /\ holds[a] => lease = "expired"
    /\ \A a \in Actors : holds[a] => lease # "absent"
    /\ lease = "held" => \A a, b \in Actors : holds[a] /\ holds[b] => a = b

LEMMA LeaseInit == Init => LeaseInv
  BY InitType DEF Init, LeaseInv, Critical

\* A step that leaves the lease alone; a pass becomes critical only from the
\* critical steps, and does not begin to delete the lease.
LEMMA LeaseKept ==
  ASSUME LeaseInv, TypeOK', UNCHANGED leaseVars,
         \A a \in Actors : pc'[a] \in Critical => pc[a] \in Critical,
         \A a \in Actors : pc'[a] = "deleteLease" => pc[a] = "deleteLease"
  PROVE  LeaseInv'
  BY DEF LeaseInv, leaseVars

LEMMA LeaseActor ==
  ASSUME "Overrun" \notin Disturbances, LeaseInv, TypeOK', NEW a \in Actors, ActorStep(a)
  PROVE  LeaseInv'
<1>1. TypeOK
  BY DEF LeaseInv
<1>2. ASSUME NEW s, Continue(a, s)
      PROVE  \A b \in Actors : pc'[b] = IF b = a THEN s ELSE pc[b]
  BY <1>1, <1>2 DEF Continue, TypeOK
<1>3. ASSUME End(a)
      PROVE  \A b \in Actors : pc'[b] = IF b = a THEN "idle" ELSE pc[b]
  BY <1>1, <1>3 DEF End, TypeOK
<1>4. ASSUME RemoveLease
      PROVE  lease' = "absent" /\ \A b \in Actors : ~holds'[b]
  BY <1>4 DEF RemoveLease
<1>5. ASSUME ForgetLease(a)
      PROVE  lease' = lease /\ \A b \in Actors : holds'[b] = IF b = a THEN FALSE ELSE holds[b]
  BY <1>1, <1>5 DEF ForgetLease, TypeOK
<1>6. CASE GetLease(a)
  <2>1. CASE lease = "expired" /\ Continue(a, "deleteLease") /\ UNCHANGED lease
             /\ holds' = [holds EXCEPT ![a] = TRUE]
    BY <1>1, <1>2, <2>1 DEF LeaseInv, Critical, TypeOK
  <2>2. CASE UNCHANGED leaseVars /\ (Continue(a, "createLease") \/ End(a))
    BY <1>2, <1>3, <2>2, LeaseKept DEF Critical
  <2> QED
    BY <1>6, <2>1, <2>2 DEF GetLease
<1>7. CASE DeleteExpiredLease(a)
  <2>1. CASE SameLease(a) /\ RemoveLease /\ Continue(a, "createLease")
    <3>1. \A b \in Actors : pc[b] \notin Critical
      BY <1>7, <2>1 DEF DeleteExpiredLease, SameLease, LeaseInv
    <3> QED
      BY <1>2, <1>4, <2>1, <3>1 DEF LeaseInv, Critical
  <2>2. CASE UNCHANGED leaseVars /\ (Continue(a, "createLease") \/ End(a))
    BY <1>2, <1>3, <2>2, LeaseKept DEF Critical
  <2> QED
    BY <1>1, <1>7, <2>1, <2>2, EndInErrorType DEF DeleteExpiredLease
<1>8. CASE CreateLease(a)
  <2>1. CASE lease = "absent" /\ lease' = "held" /\ holds' = [holds EXCEPT ![a] = TRUE]
             /\ Continue(a, "check")
    <3>1. \A b \in Actors : ~holds[b] /\ pc[b] \notin Critical
      BY <2>1 DEF LeaseInv
    <3>2. \A b \in Actors : holds'[b] <=> b = a
      BY <1>1, <2>1, <3>1 DEF TypeOK
    <3> QED
      BY <1>2, <2>1, <3>1, <3>2 DEF LeaseInv, Critical
  <2>2. CASE UNCHANGED leaseVars /\ End(a)
    BY <1>3, <2>2, LeaseKept DEF Critical
  <2> QED
    BY <1>8, <2>1, <2>2 DEF CreateLease
<1>9. CASE ReleaseLease(a)
  <2>1. \A b \in Actors : IF b = a THEN pc'[b] \in {"commit", "idle"} ELSE pc'[b] = pc[b]
    <3>1. Continue(a, "commit") \/ End(a)
      BY <1>1, <1>9, EndInErrorType DEF ReleaseLease, EndAs
    <3> QED
      BY <1>2, <1>3, <3>1
  <2>2. \A b \in Actors : pc'[b] \in Critical => b # a /\ pc[b] \in Critical
    BY <2>1 DEF Critical
  <2>3. \A b \in Actors : pc'[b] \notin Critical
    BY <1>9, <2>2 DEF ReleaseLease, LeaseInv, Critical
  <2>4. CASE RemoveLease
    BY <1>4, <2>3, <2>4 DEF LeaseInv
  <2>5. CASE ForgetLease(a)
    BY <1>5, <2>1, <2>3, <2>5 DEF LeaseInv
  <2> QED
    BY <1>9, <2>4, <2>5 DEF ReleaseLease
<1>10. CASE GiveUp(a)
  <2>1. \A b \in Actors : pc'[b] = IF b = a THEN "release" ELSE pc[b]
    BY <1>1, <1>10 DEF GiveUp, Conclude, TypeOK
  <2>2. pc[a] \in Critical /\ UNCHANGED leaseVars
    BY <1>10 DEF GiveUp
  <2> QED
    BY <2>1, <2>2, LeaseKept
<1>11. CASE Crash(a)
  BY <1>3, <1>5, <1>11 DEF Crash, LeaseInv, Critical
<1> QED
  BY <1>6, <1>7, <1>8, <1>9, <1>10, <1>11 DEF ActorStep, Locking

LEMMA LeaseEnv ==
  ASSUME LeaseInv, TypeOK', NEW e \in Envs, EnvStep(e)
  PROVE  LeaseInv'
<1>1. TypeOK /\ e \in Actors
  BY DEF LeaseInv, Actors
<1>2. CASE SubmissionFails(e)
  <2>1. End(e)
    BY <1>1, <1>2, EndInErrorType DEF SubmissionFails
  <2>2. /\ \A a \in Actors : pc'[a] = IF a = e THEN "idle" ELSE pc[a]
        /\ \A a \in Actors : holds'[a] = IF a = e THEN FALSE ELSE holds[a]
        /\ lease' = lease
    BY <1>1, <1>2, <2>1 DEF SubmissionFails, ForgetLease, End, TypeOK
  <2> QED
    BY <2>2 DEF LeaseInv, Critical
<1>3. CASE ~SubmissionFails(e)
  <2>1. UNCHANGED leaseVars
    BY <1>3 DEF EnvStep, Register, BeginRegistration, CheckShared, CountConsumers, LabelConsumer,
        RecheckShared, SubmitProvision, LabelDelayed, ProvisionFailed, SpecEdit, Deprovision,
        NamespaceGone, LateLabel, UserDelete
  <2>2. \/ UNCHANGED pc
        \/ \E s \in Steps : pc' = [pc EXCEPT ![e] = s] /\ s # "deleteLease"
                            /\ (s \in Critical => pc[e] \in Critical)
    BY <1>3 DEF EnvStep, Register, BeginRegistration, CheckShared, CountConsumers, LabelConsumer,
        RecheckShared, SubmitProvision, LabelDelayed, ProvisionFailed, SpecEdit, Deprovision,
        NamespaceGone, LateLabel, UserDelete, Continue, Conclude, End, EndAs, passVars, Steps,
        Critical
  <2>3. \A a \in Actors : /\ pc'[a] \in Critical => pc[a] \in Critical
                          /\ pc'[a] = "deleteLease" => pc[a] = "deleteLease"
    BY <1>1, <2>2 DEF TypeOK
  <2> QED
    BY <2>1, <2>3, LeaseKept
<1> QED
  BY <1>2, <1>3

LEMMA LeaseShared ==
  ASSUME "Overrun" \notin Disturbances, LeaseInv, TypeOK', SharedStep
  PROVE  LeaseInv'
<1>1. TypeOK /\ Controller \in Actors
  BY DEF LeaseInv, Actors
<1>2. CASE ExpireLease
  BY <1>2 DEF ExpireLease, LeaseInv, passVars
<1>3. CASE ~ExpireLease
  <2>1. UNCHANGED leaseVars
    BY <1>3 DEF SharedStep, ReconcileShared, Delete, BeginDeletion, CheckDeletion, DrainConsumers,
        Teardown, SyncShared, CreateShared, DeleteShared, FinishDeploy, FinishUndeploy
  <2>2. \/ UNCHANGED pc
        \/ \E s \in Steps : pc' = [pc EXCEPT ![Controller] = s] /\ s # "deleteLease"
                            /\ (s \in Critical => pc[Controller] \in Critical)
    BY <1>3 DEF SharedStep, ReconcileShared, Delete, BeginDeletion, CheckDeletion, DrainConsumers,
        Teardown, SyncShared, CreateShared, DeleteShared, FinishDeploy, FinishUndeploy,
        Continue, Conclude, End, passVars, Steps, Critical
  <2>3. \A a \in Actors : /\ pc'[a] \in Critical => pc[a] \in Critical
                          /\ pc'[a] = "deleteLease" => pc[a] = "deleteLease"
    BY <1>1, <2>2 DEF TypeOK
  <2> QED
    BY <2>1, <2>3, LeaseKept
<1> QED
  BY <1>2, <1>3

LEMMA LeaseNext ==
  ASSUME "Overrun" \notin Disturbances
  PROVE  LeaseInv /\ [Next]_vars => LeaseInv'
<1> SUFFICES ASSUME LeaseInv, [Next]_vars PROVE LeaseInv'
  OBVIOUS
<1>1. TypeOK'
  BY NextType DEF LeaseInv
<1>2. CASE UNCHANGED vars
  BY <1>1, <1>2, LeaseKept DEF vars, passVars
<1> QED
  BY <1>1, <1>2, LeaseActor, LeaseEnv, LeaseShared DEF Next

LEMMA LeaseInvariant ==
  ASSUME "Overrun" \notin Disturbances
  PROVE  Spec => []LeaseInv
<1>1. LeaseInv /\ [Next]_vars => LeaseInv'
  BY LeaseNext
<1> QED
  BY <1>1, LeaseInit, PTL DEF Spec

\* No two actors decide about the component at once, unless a lease expires
\* under its holder, whatever crashes and failed releases leave behind.
THEOREM LeaseExcludes ==
  ASSUME "Overrun" \notin Disturbances
  PROVE  Spec => []OneHolder
<1>1. LeaseInv => OneHolder
  BY DEF LeaseInv, OneHolder
<1> QED
  BY <1>1, LeaseInvariant, PTL

-----------------------------------------------------------------------------
(***************************************************************************)
(* The capacity, when neither a lease expires under its holder nor a label *)
(* arrives late: who is about to label counted under the lease, and the    *)
(* lease kept everybody else from labelling since.                         *)
(***************************************************************************)

CapacityInv ==
    /\ LeaseInv
    /\ late = {}
    /\ CapacityKept
    /\ \A e \in Envs : pc[e] = "label" => e \in consumers \/ HasRoom

LEMMA FewerConsumers ==
  ASSUME TypeOK, consumers' \subseteq consumers
  PROVE  (HasRoom => HasRoom') /\ (CapacityKept => CapacityKept')
<1>1. IsFiniteSet(consumers)
  BY ConstantsAssumption, FS_Subset DEF TypeOK
<1>2. IsFiniteSet(consumers')
  BY <1>1, FS_Subset
<1>3. Cardinality(consumers') <= Cardinality(consumers)
  BY <1>1, FS_Subset
<1>4. Cardinality(consumers) \in Nat /\ Cardinality(consumers') \in Nat
  BY <1>1, <1>2, FS_CardinalityType
<1> QED
  BY <1>3, <1>4, ConstantsAssumption DEF HasRoom, CapacityKept

LEMMA OneMoreConsumer ==
  ASSUME TypeOK, NEW e \in Envs, consumers' = consumers \cup {e},
         e \in consumers \/ HasRoom, CapacityKept
  PROVE  CapacityKept'
<1>1. CASE e \in consumers
  BY <1>1, FewerConsumers
<1>2. CASE e \notin consumers
  <2>1. IsFiniteSet(consumers)
    BY ConstantsAssumption, FS_Subset DEF TypeOK
  <2>2. Cardinality(consumers') = Cardinality(consumers) + 1
    BY <1>2, <2>1, FS_AddElement
  <2>3. Cardinality(consumers) \in Nat
    BY <2>1, FS_CardinalityType
  <2> QED
    BY <1>2, <2>2, <2>3, ConstantsAssumption DEF HasRoom, CapacityKept
<1> QED
  BY <1>1, <1>2

LEMMA CapacityInit == Init => CapacityInv
<1>1. Cardinality({}) = 0
  BY FS_EmptySet
<1> QED
  BY <1>1, LeaseInit, ConstantsAssumption DEF Init, CapacityInv, CapacityKept, Actors

\* A step that labels nobody, after which only who counted may label.
LEMMA CapacityStays ==
  ASSUME CapacityInv, LeaseInv', late' = {}, consumers' \subseteq consumers,
         \A e \in Envs : pc'[e] = "label" =>
             \/ pc[e] = "label" /\ (e \in consumers => e \in consumers')
             \/ e \in consumers' \/ HasRoom'
  PROVE  CapacityInv'
<1>1. (HasRoom => HasRoom') /\ CapacityKept'
  BY FewerConsumers DEF CapacityInv, LeaseInv
<1> QED
  BY <1>1 DEF CapacityInv

LEMMA CapacityNext ==
  ASSUME Disturbances = {}
  PROVE  CapacityInv /\ [Next]_vars => CapacityInv'
<1> SUFFICES ASSUME CapacityInv, [Next]_vars PROVE CapacityInv'
  OBVIOUS
<1>1. TypeOK /\ LeaseInv /\ LeaseInv'
  BY LeaseNext DEF CapacityInv, LeaseInv
<1>2. Envs \subseteq Actors
  BY DEF Actors
<1>3. CASE UNCHANGED vars
  BY <1>1, <1>3, CapacityStays DEF CapacityInv, vars, passVars, envVars, lifeVars
<1>4. ASSUME NEW a \in Actors, ActorStep(a)
      PROVE  CapacityInv'
  <2>1. UNCHANGED <<consumers, late>>
    BY <1>4 DEF ActorStep, Locking, GetLease, DeleteExpiredLease, CreateLease, ReleaseLease,
        GiveUp, Crash, envVars, lifeVars
  <2>2. \E s \in Steps \ {"label"} : pc' = [pc EXCEPT ![a] = s]
    BY <1>4 DEF ActorStep, Locking, GetLease, DeleteExpiredLease, CreateLease, ReleaseLease,
        GiveUp, Crash, Continue, Conclude, EndInError, EndAs, End, Steps
  <2> QED
    BY <1>1, <1>2, <2>1, <2>2, CapacityStays DEF CapacityInv, TypeOK
<1>5. ASSUME NEW e \in Envs, EnvStep(e)
      PROVE  CapacityInv'
  <2>1. CASE LabelConsumer(e)
    <3>1. CapacityKept'
      BY <1>1, <2>1, OneMoreConsumer DEF LabelConsumer, CapacityInv
    <3>2. \A f \in Envs : pc'[f] # "label"
      <4>1. \A f \in Envs : pc[f] = "label" => f = e
        BY <1>1, <1>2, <2>1 DEF LabelConsumer, LeaseInv, Critical
      <4> QED
        BY <1>1, <1>2, <2>1, <4>1 DEF LabelConsumer, Continue, TypeOK
    <3> QED
      BY <1>1, <2>1, <3>1, <3>2 DEF LabelConsumer, CapacityInv
  <2>2. CASE CountConsumers(e)
    <3>1. UNCHANGED <<consumers, late>>
      BY <2>2 DEF CountConsumers, envVars, lifeVars
    <3>2. \A f \in Envs : pc'[f] = "label" => pc[f] = "label" \/ f \in consumers \/ HasRoom
      BY <1>1, <1>2, <2>2 DEF CountConsumers, IsConsumer, Continue, Conclude, TypeOK
    <3>3. HasRoom => HasRoom'
      BY <1>1, <3>1, FewerConsumers
    <3> QED
      BY <1>1, <3>1, <3>2, <3>3, CapacityStays DEF CapacityInv
  <2>3. CASE NamespaceGone(e)
    BY <1>1, <1>2, <2>3, CapacityStays DEF NamespaceGone, CapacityInv, passVars
  <2>4. CASE ~(LabelConsumer(e) \/ CountConsumers(e) \/ NamespaceGone(e))
    <3>1. UNCHANGED <<consumers, late>>
      BY <1>5, <2>4 DEF EnvStep, Register, BeginRegistration, CheckShared, RecheckShared,
          SubmitProvision, LabelDelayed, SubmissionFails, ProvisionFailed, SpecEdit, Deprovision,
          LateLabel, UserDelete, CapacityInv, envVars, lifeVars
    <3>2. UNCHANGED pc \/ \E s \in Steps \ {"label"} : pc' = [pc EXCEPT ![e] = s]
      BY <1>5, <2>4 DEF EnvStep, Register, BeginRegistration, CheckShared, RecheckShared,
          SubmitProvision, LabelDelayed, SubmissionFails, ProvisionFailed, SpecEdit, Deprovision,
          LateLabel, UserDelete, Continue, Conclude, EndInError, EndAs, End, passVars, Steps
    <3> QED
      BY <1>1, <1>2, <3>1, <3>2, CapacityStays DEF CapacityInv, TypeOK
  <2> QED
    BY <2>1, <2>2, <2>3, <2>4
<1>6. CASE SharedStep
  <2>1. UNCHANGED <<consumers, late>>
    BY <1>6 DEF SharedStep, ReconcileShared, Delete, BeginDeletion, CheckDeletion, DrainConsumers,
        Teardown, ExpireLease, SyncShared, CreateShared, DeleteShared, FinishDeploy,
        FinishUndeploy, envVars, lifeVars
  <2>2. UNCHANGED pc \/ \E s \in Steps : pc' = [pc EXCEPT ![Controller] = s]
    BY <1>6 DEF SharedStep, ReconcileShared, Delete, BeginDeletion, CheckDeletion, DrainConsumers,
        Teardown, ExpireLease, SyncShared, CreateShared, DeleteShared, FinishDeploy,
        FinishUndeploy, Continue, Conclude, End, passVars, Steps
  <2>3. \A e \in Envs : pc'[e] = pc[e]
    BY <1>1, <1>2, <2>2, ConstantsAssumption DEF TypeOK
  <2> QED
    BY <1>1, <2>1, <2>3, CapacityStays DEF CapacityInv
<1> QED
  BY <1>3, <1>4, <1>5, <1>6 DEF Next

\* Without overruns and late labels there are never more consumers than
\* spec.maxConsumers, for any number of environments.
THEOREM LabelsAreCapped ==
  ASSUME Disturbances = {}
  PROVE  Spec => []CapacityKept
<1>1. CapacityInv /\ [Next]_vars => CapacityInv'
  BY CapacityNext
<1>2. CapacityInv => CapacityKept
  BY DEF CapacityInv
<1> QED
  BY <1>1, <1>2, CapacityInit, PTL DEF Spec

-----------------------------------------------------------------------------
(***************************************************************************)
(* Who is turned away, when no label arrives late.  A pass that found no   *)
(* room had no label itself, no other pass of the environment labels it    *)
(* until its spec changes, and the others leave only for good.             *)
(***************************************************************************)

TurnedAway(e) == verdict[e] = "full" \/ status[e] = "full"

AwayInv ==
    /\ TypeOK
    /\ late = {}
    /\ \A e \in Envs : pc[e] # "idle" => status[e] = "pending"
    /\ \A e \in Envs : verdict[e] = "full" => pc[e] = "release"
    /\ \A e \in Envs : TurnedAway(e) =>
          /\ e \notin consumers
          /\ MaxConsumers > 0
          /\ Cardinality(Served \ {e}) >= MaxConsumers

LEMMA AwayInit == Init => AwayInv
  BY InitType DEF Init, AwayInv, TurnedAway, Actors

\* A place that was taken stays taken.
LEMMA ServedGrows ==
  ASSUME TypeOK, TypeOK', Served \subseteq Served', NEW e \in Envs
  PROVE  Cardinality(Served \ {e}) >= MaxConsumers => Cardinality(Served' \ {e}) >= MaxConsumers
<1>1. IsFiniteSet(Served' \ {e})
  BY ConstantsAssumption, FS_Subset DEF TypeOK, Served
<1>2. Served \ {e} \subseteq Served' \ {e}
  OBVIOUS
<1>3. IsFiniteSet(Served \ {e}) /\ Cardinality(Served \ {e}) <= Cardinality(Served' \ {e})
  BY <1>1, <1>2, FS_Subset
<1>4. Cardinality(Served \ {e}) \in Nat /\ Cardinality(Served' \ {e}) \in Nat
  BY <1>1, <1>3, FS_CardinalityType
<1> QED
  BY <1>3, <1>4, ConstantsAssumption

\* A step after which nobody else has been turned away, and nobody who has
\* been is labelled.
LEMMA AwayKept ==
  ASSUME AwayInv, TypeOK', late' = {}, Served \subseteq Served',
         \A e \in Envs : pc'[e] # "idle" => status'[e] = "pending",
         \A e \in Envs : verdict'[e] = "full" => pc'[e] = "release",
         \A e \in Envs : TurnedAway(e)' =>
             TurnedAway(e) /\ (e \in consumers' => e \in consumers)
  PROVE  AwayInv'
<1>1. ASSUME NEW e \in Envs, TurnedAway(e)'
      PROVE  /\ e \notin consumers'
             /\ MaxConsumers > 0
             /\ Cardinality(Served' \ {e}) >= MaxConsumers
  BY <1>1, ServedGrows DEF AwayInv
<1> QED
  BY <1>1 DEF AwayInv

LEMMA AwayActor ==
  ASSUME AwayInv, TypeOK', NEW a \in Actors, ActorStep(a)
  PROVE  AwayInv'
<1>1. TypeOK /\ Envs \subseteq Actors /\ Controller \notin Envs
  BY ConstantsAssumption DEF AwayInv, Actors
<1>2. UNCHANGED lifeVars
  BY DEF ActorStep, Locking, GetLease, DeleteExpiredLease, CreateLease, ReleaseLease, GiveUp,
      Crash, envVars
<1>3. pc[a] # "idle"
  BY DEF ActorStep, Locking, GetLease, DeleteExpiredLease, CreateLease, ReleaseLease, GiveUp,
      Crash, Critical
<1>4. CASE End(a) /\ UNCHANGED status
  BY <1>1, <1>2, <1>4, AwayKept DEF End, AwayInv, TurnedAway, Served, lifeVars, TypeOK
<1>5. CASE EndInError(a)
  <2>1. End(a)
    BY <1>1, <1>5, EndInErrorType
  <2>2. \A e \in Envs : status'[e] = "full" => status[e] = "full"
    BY <1>1, <1>5 DEF EndInError, EndAs, Charged, TypeOK
  <2>3. \A e \in Envs \ {a} : status'[e] = status[e]
    BY <1>1, <1>5 DEF EndInError, EndAs, TypeOK
  <2> QED
    BY <1>1, <1>2, <2>1, <2>2, <2>3, AwayKept
    DEF End, AwayInv, TurnedAway, Served, lifeVars, TypeOK
<1>6. CASE verdict[a] = "full" /\ EndAs(a, {"full"})
  <2>1. \A e \in Envs \ {a} : status'[e] = status[e]
    BY <1>1, <1>6 DEF EndAs, TypeOK
  <2>2. \A e \in Envs : TurnedAway(e)' => TurnedAway(e)
    BY <1>1, <1>6, <2>1 DEF EndAs, End, TurnedAway, TypeOK
  <2> QED
    BY <1>1, <1>2, <1>6, <2>1, <2>2, AwayKept
    DEF EndAs, End, AwayInv, TurnedAway, Served, lifeVars, TypeOK
<1>7. CASE \E s \in Steps : Continue(a, s) /\ UNCHANGED status
                          /\ (s = "release" \/ pc[a] # "release" \/ verdict[a] # "full")
  BY <1>1, <1>2, <1>3, <1>7, AwayKept DEF Continue, AwayInv, TurnedAway, Served, lifeVars, TypeOK
<1>8. CASE GiveUp(a)
  <2>1. /\ \A e \in Envs : verdict'[e] = "full" => verdict[e] = "full"
        /\ \A e \in Envs : verdict'[e] = "full" => pc'[e] = "release"
        /\ \A e \in Envs : pc'[e] # "idle" => pc[e] # "idle"
    BY <1>1, <1>3, <1>8 DEF GiveUp, Conclude, AwayInv, TypeOK
  <2> QED
    BY <1>2, <1>8, <2>1, AwayKept DEF GiveUp, envVars, AwayInv, TurnedAway, Served, lifeVars
<1>9. CASE ~GiveUp(a)
  BY <1>4, <1>5, <1>6, <1>7, <1>9
  DEF ActorStep, Locking, GetLease, DeleteExpiredLease, CreateLease, ReleaseLease, Crash, envVars,
      Steps
<1> QED
  BY <1>8, <1>9

LEMMA AwayEnv ==
  ASSUME "LateWrite" \notin Disturbances, AwayInv, TypeOK', NEW f \in Envs, EnvStep(f)
  PROVE  AwayInv'
<1>1. TypeOK /\ f \in Actors /\ Envs \subseteq Actors /\ f # Controller
  BY ConstantsAssumption DEF AwayInv, Actors
<1> USE DEF envVars, lifeVars, allocVars
<1>2. CASE BeginRegistration(f) \/ CheckShared(f) \/ RecheckShared(f)
  BY <1>1, <1>2, AwayKept
  DEF BeginRegistration, CheckShared, RecheckShared, Continue, Conclude, AwayInv, TurnedAway, Served,
      TypeOK
<1>3. CASE CountConsumers(f)
  <2>1. UNCHANGED envVars
    BY <1>3 DEF CountConsumers
  <2>2. CASE IsConsumer(f) \/ HasRoom
    BY <1>1, <1>3, <2>2, AwayKept
    DEF CountConsumers, Continue, AwayInv, TurnedAway, Served, TypeOK
  <2>3. CASE ~IsConsumer(f) /\ ~HasRoom
    <3>1. f \notin consumers /\ MaxConsumers > 0 /\ ~(Cardinality(consumers) < MaxConsumers)
      BY <2>3, ConstantsAssumption DEF IsConsumer, HasRoom
    <3>2. consumers \subseteq Served \ {f} /\ IsFiniteSet(Served \ {f})
      BY <1>1, <3>1, ConstantsAssumption, FS_Subset DEF Served, TypeOK
    <3>3. /\ Cardinality(consumers) <= Cardinality(Served \ {f})
          /\ Cardinality(consumers) \in Nat /\ Cardinality(Served \ {f}) \in Nat
      BY <3>2, FS_Subset, FS_CardinalityType
    <3>4. Cardinality(Served \ {f}) >= MaxConsumers
      BY <3>1, <3>3, ConstantsAssumption
    <3>5. Served' = Served /\ UNCHANGED <<consumers, late, status>>
      BY <2>1 DEF Served
    <3>6. /\ pc' = [pc EXCEPT ![f] = "release"]
          /\ verdict' = [verdict EXCEPT ![f] = "full"]
      BY <1>3, <2>3 DEF CountConsumers, Conclude
    <3>7. pc[f] # "idle"
      BY <1>3 DEF CountConsumers
    <3> QED
      BY <1>1, <3>1, <3>4, <3>5, <3>6, <3>7 DEF AwayInv, TurnedAway, TypeOK
  <2> QED
    BY <2>2, <2>3
<1>4. CASE LabelConsumer(f)
  <2>1. pc[f] = "label" /\ ~TurnedAway(f)
    BY <1>1, <1>4 DEF LabelConsumer, AwayInv, TurnedAway
  <2> QED
    BY <1>1, <1>4, <2>1, AwayKept
    DEF LabelConsumer, Continue, AwayInv, TurnedAway, Served, TypeOK
<1>5. CASE SubmitProvision(f) \/ SubmissionFails(f)
  <2>1. End(f) /\ UNCHANGED <<life, consumers, late>>
    BY <1>1, <1>5, EndInErrorType DEF SubmitProvision, SubmissionFails, EndAs
  <2>2. \A e \in Envs : status'[e] = "full" => status[e] = "full"
    BY <1>1, <1>5 DEF SubmitProvision, SubmissionFails, EndInError, EndAs, Charged, TypeOK
  <2>3. \A e \in Envs \ {f} : status'[e] = status[e]
    BY <1>1, <1>5 DEF SubmitProvision, SubmissionFails, EndInError, EndAs, TypeOK
  <2> QED
    BY <1>1, <2>1, <2>2, <2>3, AwayKept DEF End, AwayInv, TurnedAway, Served, TypeOK
<1>6. CASE ProvisionFailed(f) \/ SpecEdit(f)
  <2>1. UNCHANGED <<pc, verdict, life, consumers, late>> /\ pc[f] = "idle"
    BY <1>6 DEF ProvisionFailed, SpecEdit, passVars
  <2>2. \A e \in Envs : status'[e] = "full" => status[e] = "full"
    BY <1>1, <1>6 DEF ProvisionFailed, SpecEdit, Charged, TypeOK
  <2>3. \A e \in Envs \ {f} : status'[e] = status[e]
    BY <1>1, <1>6 DEF ProvisionFailed, SpecEdit, TypeOK
  <2> QED
    BY <1>1, <2>1, <2>2, <2>3, AwayKept DEF AwayInv, TurnedAway, Served
<1>7. CASE Deprovision(f) \/ NamespaceGone(f) \/ UserDelete(f)
  <2>1. UNCHANGED <<pc, verdict, status>> /\ late' = {} /\ consumers' \subseteq consumers
    BY <1>7 DEF Deprovision, NamespaceGone, UserDelete, passVars, AwayInv
  <2>2. Served \subseteq Served'
    BY <1>1, <1>7 DEF Deprovision, NamespaceGone, UserDelete, Served, TypeOK
  <2> QED
    BY <2>1, <2>2, AwayKept DEF AwayInv, TurnedAway
<1>8. CASE LabelDelayed(f) \/ LateLabel(f)
  BY <1>8 DEF LabelDelayed, LateLabel, AwayInv
<1> QED
  BY <1>2, <1>3, <1>4, <1>5, <1>6, <1>7, <1>8 DEF EnvStep, Register

LEMMA AwayNext ==
  ASSUME "LateWrite" \notin Disturbances
  PROVE  AwayInv /\ [Next]_vars => AwayInv'
<1> SUFFICES ASSUME AwayInv, [Next]_vars PROVE AwayInv'
  OBVIOUS
<1>1. TypeOK /\ TypeOK' /\ Envs \subseteq Actors /\ Controller \notin Envs
  BY NextType, ConstantsAssumption DEF AwayInv, Actors
<1>2. CASE UNCHANGED vars
  BY <1>1, <1>2, AwayKept DEF vars, passVars, envVars, lifeVars, AwayInv, TurnedAway, Served
<1>3. CASE SharedStep
  <2>1. UNCHANGED envVars
    BY <1>3 DEF SharedStep, ReconcileShared, Delete, BeginDeletion, CheckDeletion, DrainConsumers,
        Teardown, ExpireLease, SyncShared, CreateShared, DeleteShared, FinishDeploy, FinishUndeploy
  <2>2. UNCHANGED pc \/ \E s : pc' = [pc EXCEPT ![Controller] = s]
    BY <1>3 DEF SharedStep, ReconcileShared, Delete, BeginDeletion, CheckDeletion, DrainConsumers,
        Teardown, ExpireLease, SyncShared, CreateShared, DeleteShared, FinishDeploy,
        FinishUndeploy, Continue, Conclude, End, passVars
  <2>3. UNCHANGED verdict \/ \E v : verdict' = [verdict EXCEPT ![Controller] = v]
    BY <1>3 DEF SharedStep, ReconcileShared, Delete, BeginDeletion, CheckDeletion, DrainConsumers,
        Teardown, ExpireLease, SyncShared, CreateShared, DeleteShared, FinishDeploy,
        FinishUndeploy, Continue, Conclude, End, passVars
  <2>4. \A e \in Envs : pc'[e] = pc[e] /\ verdict'[e] = verdict[e]
    BY <1>1, <2>2, <2>3 DEF TypeOK
  <2> QED
    BY <1>1, <2>1, <2>4, AwayKept DEF envVars, lifeVars, AwayInv, TurnedAway, Served
<1> QED
  BY <1>1, <1>2, <1>3, AwayActor, AwayEnv DEF Next

\* An environment that failed at capacity takes up no place itself, and so many
\* others have or had one to their end, however leases are lost, as long as no
\* label arrives late.
THEOREM OthersTookThePlaces ==
  ASSUME "LateWrite" \notin Disturbances
  PROVE  Spec => []TurnedAwayByOthers
<1>1. AwayInv /\ [Next]_vars => AwayInv'
  BY AwayNext
<1>2. AwayInv => TurnedAwayByOthers
  BY DEF AwayInv, TurnedAway, TurnedAwayByOthers
<1> QED
  BY <1>1, <1>2, AwayInit, PTL DEF Spec
=============================================================================
