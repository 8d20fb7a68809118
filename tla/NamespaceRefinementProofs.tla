--------------------- MODULE NamespaceRefinementProofs ---------------------
(***************************************************************************)
(* Three arguments about NamespaceBinding that rest on what the copies of  *)
(* an environment show of its lifecycle.                                   *)
(*                                                                         *)
(* BackInv: bindings are exclusive and backed by an owned namespace, and   *)
(* NamespaceBinding implements NamespaceAssignment, when nobody but the    *)
(* operator deletes or relabels its namespaces and no template error is    *)
(* reported.  It strengthens LockInv by the cleanup checkpoint and the     *)
(* namespaces.                                                             *)
(*                                                                         *)
(* LeaveInv: an environment deletes only its own namespace and has         *)
(* released it when it is gone, with no hypothesis at all.                 *)
(*                                                                         *)
(* CleanInv: it owes nothing then, and deletes only a namespace that is    *)
(* clean, whatever happens to the namespaces, without template errors.     *)
(***************************************************************************)
EXTENDS NamespaceBindingProofs

\* Nobody else deletes or takes over namespaces; templates are valid.
Orderly == Interference \cap {"TemplateError", "NamespaceDelete", "Relabel"} = {}

Backed(e, n) == n \in Names /\ ns[n] = [owner |-> e, terminating |-> FALSE]

BackedNext(e, n) == n \in Names /\ ns'[n] = [owner |-> e, terminating |-> FALSE]

\* The checkpoint as the current, or the next, pass reads it.
Seen(e) == IF pc[e] = "idle" THEN cached[e] ELSE original[e]

\* The lifecycle only moves on: copies are behind, in this order.
NotAfter(l, m) ==
    \/ l = "new"
    \/ l = "live" /\ m # "new"
    \/ l = "deleting" /\ m \in {"deleting", "gone"}
    \/ l = "gone" /\ m = "gone"

\* The binding is frozen once a copy shows the deletion.
Frozen(r, s) == r.life \in {"deleting", "gone"} => r.bound = s.bound /\ r.target = s.target

Lifecycle(e) ==
    /\ NotAfter(cached[e].life, env[e].life)
    /\ pc[e] # "idle" => NotAfter(original[e].life, cached[e].life)
    /\ pc[e] \in {"reconcile", "allocate", "create", "recheck", "work"} => original[e].life = "live"
    /\ pc[e] \in {"dispose", "cleanup", "deleteNamespace", "removeFinalizer"}
          => original[e].life = "deleting"
    /\ pc[e] = "patch" => original[e].life \in {"live", "deleting"}
    /\ Frozen(cached[e], env[e])
    /\ pc[e] # "idle" => Frozen(original[e], env[e])

Checkpoints(e) ==
    /\ cached[e].cleanup => env[e].cleanup
    /\ pc[e] # "idle" /\ original[e].cleanup => cached[e].cleanup
    /\ env[e].cleanup => cached[e].life \in {"deleting", "gone"} /\ env[e].target # None
    /\ env[e].cleanup /\ pc[e] # "idle" => original[e].life = "deleting"
    /\ pc[e] = "cleanup" => ~local[e].cleanup /\ local[e].target # None
    /\ pc[e] = "removeFinalizer" /\ original[e].bound => original[e].cleanup

Support(e) ==
    /\ env[e].target \in CandidateSet(e) \cup {None}
    /\ env[e].bound /\ ~Seen(e).cleanup => Backed(e, env[e].target)
    /\ pc[e] = "deleteNamespace" =>
          /\ local[e].cleanup
          /\ local[e].target \in Names
          /\ handle[e] => ns[local[e].target].owner = e

Patching(e) ==
    pc[e] = "patch" =>
        /\ local[e].target # original[e].target =>
              /\ original[e].life = "live" /\ ~original[e].bound
              /\ local[e].target \in CandidateSet(e)
              /\ Conditions(local[e]) = Conditions(original[e])
        /\ local[e].bound /\ ~original[e].bound =>
              original[e].life = "live" /\ Backed(e, local[e].target)
        /\ original[e].cleanup => local[e].cleanup
        /\ local[e].cleanup /\ ~original[e].cleanup =>
              /\ original[e].life = "deleting" /\ original[e].target # None
              /\ local[e].bound = original[e].bound
        /\ local[e].ready # original[e].ready =>
              /\ local[e].bound = original[e].bound
              /\ local[e].cleanup = original[e].cleanup
              /\ original[e].life = "deleting" => original[e].cleanup

BackedAt(e) == Lifecycle(e) /\ Checkpoints(e) /\ Support(e) /\ Patching(e)

BackInv == LockInv /\ \A e \in Envs : BackedAt(e)

-----------------------------------------------------------------------------
\* What a step of somebody else leaves of e's namespaces.
NamespacesKept(e) ==
    /\ \A n \in Names : Backed(e, n) => BackedNext(e, n)
    /\ pc[e] = "deleteNamespace" /\ handle'[e] =>
          handle[e] /\ ns'[local[e].target] = ns[local[e].target]

LEMMA WriteKeeps ==
  ASSUME LockInv, NEW e \in Envs, BackedAt(e), NEW n \in Names, NEW r, WriteNamespace(n, r),
         ns[n] # [owner |-> e, terminating |-> FALSE]
  PROVE  NamespacesKept(e)
  BY DEF LockInv, TypeOK, BackedAt, Support, WriteNamespace, NamespacesKept, Backed, BackedNext

LEMMA OthersKeep ==
  ASSUME LockInv, NEW e \in Envs, NEW f \in Envs, e # f, BackedAt(e), BackedAt(f), EnvStep(f)
  PROVE  NamespacesKept(e)
<1>1. CASE CreateNamespace(f) /\ ns' # ns
  <2>1. /\ local[f].target \in Names
        /\ WriteNamespace(local[f].target, [owner |-> f, terminating |-> FALSE])
        /\ ns[local[f].target] = Absent
    BY <1>1 DEF CreateNamespace, Missing, LockInv, LockedAt, Stages, TypeOK, Records, nsVars
  <2> DEFINE created == [owner |-> f, terminating |-> FALSE]
  <2>2. ns[local[f].target] # [owner |-> e, terminating |-> FALSE]
    BY <2>1, ConstantsAssumption DEF Absent
  <2>3. WriteNamespace(local[f].target, created)
    BY <2>1
  <2> HIDE DEF created
  <2> QED
    BY <2>1, <2>2, <2>3, WriteKeeps
<1>2. CASE DeleteNamespace(f) /\ Unmodified(f)
  <2> DEFINE terminated == [ns[local[f].target] EXCEPT !.terminating = TRUE]
  <2>1. /\ local[f].target \in Names
        /\ WriteNamespace(local[f].target, terminated)
        /\ ns[local[f].target].owner = f
    BY <1>2 DEF DeleteNamespace, Unmodified, BackedAt, Support
  <2>2. ns[local[f].target] # [owner |-> e, terminating |-> FALSE]
    BY <2>1
  <2> HIDE DEF terminated
  <2> QED
    BY <2>1, <2>2, WriteKeeps
<1>3. CASE UNCHANGED ns /\ handle'[e] = handle[e]
  BY <1>3 DEF NamespacesKept, Backed, BackedNext
<1>4. GetForDeletion(f) => UNCHANGED ns /\ handle'[e] = handle[e]
  BY DEF GetForDeletion, LockInv, TypeOK
<1>5. CreateNamespace(f) /\ ns' = ns => NamespacesKept(e)
  BY DEF CreateNamespace, WriteNamespace, NamespacesKept, Backed, BackedNext, nsVars, LockInv, TypeOK
<1> QED
  BY <1>1, <1>2, <1>3, <1>4, <1>5
  DEF EnvStep, Reconcile, nsVars, Begin, AddFinalizer, AllocateNamespace, GetNamespace,
      RecheckNamespace, SubmitWork, CleanupPending, CleanupDone, DeleteNamespace,
      RemoveFinalizer, PatchStatus, TemplateError, Expire, CleanupSkipped, Abort, SyncEnv,
      UserDelete, SpecEdit

LEMMA NamespaceStepsKeep ==
  ASSUME LockInv, Orderly, NEW e \in Envs, BackedAt(e), NEW n \in Names, NamespaceStep(n)
  PROVE  NamespacesKept(e)
<1>1. CASE SyncNamespace(n)
  BY <1>1 DEF SyncNamespace, NamespacesKept, Backed, BackedNext
<1>2. CASE FinishTermination(n)
  <2>1. ns[n] # [owner |-> e, terminating |-> FALSE]
    BY <1>2 DEF FinishTermination
  <2> QED
    BY <1>2, <2>1, WriteKeeps DEF FinishTermination
<1>3. CASE ForeignCreate(n)
  <2>1. ns[n] # [owner |-> e, terminating |-> FALSE]
    BY <1>3, ConstantsAssumption DEF ForeignCreate, Absent
  <2> DEFINE foreign == [owner |-> Foreign, terminating |-> FALSE]
  <2>2. WriteNamespace(n, foreign)
    BY <1>3 DEF ForeignCreate
  <2> HIDE DEF foreign
  <2> QED
    BY <2>1, <2>2, WriteKeeps
<1> QED
  BY <1>1, <1>2, <1>3 DEF NamespaceStep, NamespaceDelete, Relabel, Orderly

LEMMA BackedSame ==
  ASSUME LockInv, NEW e \in Envs, BackedAt(e), SameAt(e), NamespacesKept(e)
  PROVE  BackedAt(e)'
<1>1. Lifecycle(e)' /\ Checkpoints(e)'
  BY DEF BackedAt, SameAt, Lifecycle, Checkpoints, NotAfter, Frozen
<1>2. Support(e)'
  BY DEF BackedAt, SameAt, Support, Seen, NamespacesKept, Backed, BackedNext
<1>3. Patching(e)'
  BY DEF BackedAt, SameAt, Patching, NamespacesKept, Backed, BackedNext, Conditions
<1> QED
  BY <1>1, <1>2, <1>3 DEF BackedAt

-----------------------------------------------------------------------------
\* The steps of a pass before its patch.

LEMMA BackedContinue ==
  ASSUME LockInv, NEW e \in Envs, BackedAt(e), UNCHANGED <<envVars, ns>>,
         pc[e] \notin {"idle", "patch"}, NEW s \in Steps \ {"idle"}, Continue(e, s),
         s \in {"reconcile", "allocate", "create", "recheck", "work"} => original[e].life = "live",
         s \in {"dispose", "cleanup", "deleteNamespace", "removeFinalizer"}
             => original[e].life = "deleting",
         s = "patch" => original[e].life \in {"live", "deleting"},
         s = "cleanup" => ~local[e].cleanup /\ local[e].target # None,
         s = "removeFinalizer" => (local[e].bound => local[e].cleanup),
         s = "deleteNamespace" => /\ local[e].cleanup
                                  /\ local[e].target \in Names
                                  /\ ns[local[e].target].owner = e
  PROVE  BackedAt(e)'
<1>1. local[e] = original[e]
  BY DEF LockInv, LockedAt, Copies
<1>2. /\ pc'[e] = s /\ UNCHANGED <<original, local, env, cached, ns>>
  BY DEF Continue, Goto, LockInv, TypeOK, envVars
<1>3. Lifecycle(e)' /\ Checkpoints(e)' /\ Support(e)'
  BY <1>1, <1>2 DEF BackedAt, Lifecycle, Checkpoints, Support, Seen, NotAfter, Frozen, Backed, BackedNext
<1>4. Patching(e)'
  BY <1>1, <1>2 DEF Patching
<1> QED
  BY <1>3, <1>4 DEF BackedAt

LEMMA BackedPropose ==
  ASSUME LockInv, NEW e \in Envs, BackedAt(e), UNCHANGED envVars,
         pc[e] \notin {"idle", "patch"}, NEW r \in Records, Propose(e, r),
         \A n \in Names : Backed(e, n) => BackedNext(e, n),
         original[e].life \in {"live", "deleting"},
         r.target # local[e].target =>
            /\ original[e].life = "live" /\ ~local[e].bound
            /\ r.target \in CandidateSet(e)
            /\ Conditions(r) = Conditions(local[e]),
         r.bound /\ ~local[e].bound => original[e].life = "live" /\ BackedNext(e, r.target),
         local[e].cleanup => r.cleanup,
         r.cleanup /\ ~local[e].cleanup =>
            original[e].life = "deleting" /\ local[e].target # None /\ r.bound = local[e].bound,
         r.ready # local[e].ready =>
            /\ r.bound = local[e].bound
            /\ r.cleanup = local[e].cleanup
            /\ original[e].life = "deleting" => local[e].cleanup
  PROVE  BackedAt(e)'
<1>1. local[e] = original[e]
  BY DEF LockInv, LockedAt, Copies
<1>2. pc'[e] = "patch" /\ local'[e] = r /\ UNCHANGED <<original, env, cached>>
  BY DEF Propose, Goto, LockInv, TypeOK, envVars
<1>3. Lifecycle(e)' /\ Checkpoints(e)'
  BY <1>2 DEF BackedAt, Lifecycle, Checkpoints, NotAfter, Frozen
<1>4. Support(e)'
  BY <1>1, <1>2 DEF BackedAt, Support, Seen, Backed, BackedNext
<1>5. Patching(e)'
  BY <1>1, <1>2 DEF Patching, Conditions, Backed, BackedNext
<1> QED
  BY <1>3, <1>4, <1>5 DEF BackedAt

LEMMA BackedSetFailed ==
  ASSUME LockInv, NEW e \in Envs, BackedAt(e), UNCHANGED <<envVars, ns>>,
         pc[e] \notin {"idle", "patch"}, NEW x \in Readies, SetFailed(e, x),
         original[e].life \in {"live", "deleting"},
         original[e].life = "deleting" => local[e].cleanup
  PROVE  BackedAt(e)'
<1> DEFINE failed == [local[e] EXCEPT !.ready = x]
<1>1. /\ failed \in Records /\ failed.bound = local[e].bound /\ failed.cleanup = local[e].cleanup
      /\ failed.target = local[e].target
  BY DEF LockInv, TypeOK, Records
<1>2. Propose(e, failed)
  BY DEF SetFailed
<1>3. \A n \in Names : Backed(e, n) => BackedNext(e, n)
  BY DEF Backed, BackedNext
<1> HIDE DEF failed
<1> QED
  BY <1>1, <1>2, <1>3, BackedPropose

LEMMA BackedBind ==
  ASSUME LockInv, NEW e \in Envs, BackedAt(e), UNCHANGED envVars,
         pc[e] \notin {"idle", "patch"}, Propose(e, [local[e] EXCEPT !.bound = TRUE]),
         \A n \in Names : Backed(e, n) => BackedNext(e, n),
         original[e].life = "live", ~local[e].bound, BackedNext(e, local[e].target)
  PROVE  BackedAt(e)'
<1> DEFINE bound == [local[e] EXCEPT !.bound = TRUE]
<1>1. /\ bound \in Records /\ bound.ready = local[e].ready /\ bound.cleanup = local[e].cleanup
      /\ bound.target = local[e].target
  BY DEF LockInv, TypeOK, Records
<1>2. Propose(e, bound)
  OBVIOUS
<1>3. BackedNext(e, bound.target)
  BY <1>1
<1> HIDE DEF bound
<1> QED
  BY <1>1, <1>2, <1>3, BackedPropose

LEMMA BackedExamine ==
  ASSUME LockInv, NEW e \in Envs, BackedAt(e), UNCHANGED <<envVars, ns>>,
         pc[e] \in {"reconcile", "recheck"}, Examine(e)
  PROVE  BackedAt(e)'
<1>1. original[e].life = "live" /\ local[e].target # None
  BY DEF BackedAt, Lifecycle, LockInv, LockedAt, Stages
<1>2. local[e].target \in Names /\ ns[local[e].target] \in Namespaces
  BY <1>1 DEF LockInv, TypeOK, Records
<1>3. \A n \in Names : Backed(e, n) => BackedNext(e, n)
  BY DEF Backed, BackedNext
<1>4. Owned(e) /\ ~Terminating(e) => BackedNext(e, local[e].target)
  BY <1>2 DEF Owned, Terminating, BackedNext, Namespaces
<1> QED
  BY <1>1, <1>3, <1>4, BackedContinue, BackedSetFailed, BackedBind
  DEF Examine, UseNamespace, RejectNamespace, Steps, Readies

-----------------------------------------------------------------------------
\* The end of a pass, and the writes of others.

LEMMA BackedEnd ==
  ASSUME LockInv, NEW e \in Envs, BackedAt(e), End(e), UNCHANGED <<envVars, ns>>, pc[e] # "idle"
  PROVE  BackedAt(e)'
<1>1. pc'[e] = "idle" /\ UNCHANGED <<env, cached, ns>>
  BY DEF End, Goto, LockInv, TypeOK, envVars
<1> QED
  BY <1>1 DEF BackedAt, Lifecycle, Checkpoints, Support, Patching, Seen, NotAfter, Frozen, Backed

LEMMA BackedEndPersist ==
  ASSUME LockInv, NEW e \in Envs, BackedAt(e), End(e), UNCHANGED ns, pc[e] # "idle",
         NEW r \in Records, Persist(e, r),
         NotAfter(cached[e].life, r.life), Frozen(cached[e], r),
         cached[e].cleanup => r.cleanup,
         r.cleanup => cached[e].life \in {"deleting", "gone"} /\ r.target # None,
         r.target \in CandidateSet(e) \cup {None},
         r.bound /\ ~cached[e].cleanup => Backed(e, r.target)
  PROVE  BackedAt(e)'
<1>1. pc'[e] = "idle" /\ env'[e] = r /\ UNCHANGED <<cached, ns>>
  BY DEF End, Goto, Persist, LockInv, TypeOK
<1> QED
  BY <1>1 DEF BackedAt, Lifecycle, Checkpoints, Support, Patching, Seen, NotAfter, Frozen, Backed

\* Only the lifecycle moves on.
LEMMA BackedLife ==
  ASSUME LockInv, NEW e \in Envs, BackedAt(e), UNCHANGED <<ns, original, local>>,
         handle'[e] = handle[e],
         NEW r \in Records, Persist(e, r), NotAfter(env[e].life, r.life),
         r.bound = env[e].bound, r.target = env[e].target, r.cleanup = env[e].cleanup,
         UNCHANGED pc \/ (pc[e] = "reconcile" /\ Goto(e, "patch"))
  PROVE  BackedAt(e)'
<1>1. env'[e] = r /\ UNCHANGED <<cached, ns, original, local>>
  BY DEF Persist, LockInv, TypeOK
<1>2. CASE UNCHANGED pc
  BY <1>1, <1>2
  DEF BackedAt, Lifecycle, Checkpoints, Support, Patching, Seen, NotAfter, Frozen, Backed, Conditions
<1>3. CASE pc[e] = "reconcile" /\ Goto(e, "patch")
  <2>1. pc'[e] = "patch" /\ local[e] = original[e]
    BY <1>3 DEF Goto, LockInv, TypeOK, LockedAt, Copies
  <2> QED
    BY <1>1, <1>3, <2>1
    DEF BackedAt, Lifecycle, Checkpoints, Support, Patching, Seen, NotAfter, Frozen, Backed, Conditions
<1> QED
  BY <1>2, <1>3

\* What a status patch that is accepted can do to the record.
Accepted(e) == pc[e] = "patch" /\ (Locked(e) => ~outdated[e])

Assigns(e) ==
    /\ env[e].life = "live" /\ ~env[e].bound
    /\ Merged(e).target \in CandidateSet(e)
    /\ Merged(e).bound = env[e].bound /\ Merged(e).cleanup = env[e].cleanup

Binds(e) ==
    /\ env[e].life = "live" /\ ~env[e].bound
    /\ Merged(e).target = env[e].target /\ Merged(e).cleanup = env[e].cleanup
    /\ Merged(e).bound
    /\ Backed(e, env[e].target)

Checks(e) ==
    /\ env[e].life = "deleting" /\ env[e].target # None
    /\ cached[e].life \in {"deleting", "gone"}
    /\ Merged(e).target = env[e].target /\ Merged(e).bound = env[e].bound
    /\ Merged(e).cleanup

Repeats(e) ==
    /\ Merged(e).target = env[e].target /\ Merged(e).bound = env[e].bound
    /\ Merged(e).cleanup = env[e].cleanup

LEMMA AcceptedPatch ==
  ASSUME LockInv, NEW e \in Envs, BackedAt(e), Accepted(e)
  PROVE  /\ Merged(e).life = env[e].life
         /\ Assigns(e) \/ Binds(e) \/ Checks(e) \/ Repeats(e)
<1>0. /\ local[e] \in Records /\ env[e] \in Records /\ original[e] \in Records
      /\ cached[e] \in Records /\ Merged(e) \in Records
  BY MergedType DEF LockInv, TypeOK
<1>1. Merged(e).life = env[e].life
  BY <1>0 DEF Merged, Records
<1>2. CASE Locked(e)
  <2>1. env[e] = original[e]
    BY <1>2 DEF Accepted, LockInv, LockedAt, Copies
  <2>2. /\ Merged(e).target = local[e].target
        /\ Merged(e).bound = local[e].bound
        /\ Merged(e).cleanup = local[e].cleanup
    BY <1>0, <2>1 DEF Merged, Conditions, Records
  <2>3. CASE local[e].target # original[e].target
    <3>1. Assigns(e)
      BY <1>0, <2>1, <2>2, <2>3 DEF Assigns, BackedAt, Patching, Accepted, Conditions
    <3> QED
      BY <1>1, <3>1
  <2>4. CASE local[e].target = original[e].target /\ local[e].bound # original[e].bound
    <3>1. local[e].bound /\ ~original[e].bound
      BY <1>0, <2>4 DEF Accepted, LockInv, LockedAt, Proposal, Records
    <3>2. Binds(e)
      BY <1>0, <2>1, <2>2, <2>4, <3>1 DEF Binds, BackedAt, Patching, Accepted, Records
    <3> QED
      BY <1>1, <3>2
  <2>5. CASE local[e].target = original[e].target /\ local[e].bound = original[e].bound
    <3>1. local[e].cleanup /\ ~original[e].cleanup
      BY <1>0, <1>2, <2>5 DEF Locked, Accepted, BackedAt, Patching, Records
    <3>2. Checks(e)
      BY <1>0, <2>1, <2>2, <2>5, <3>1
      DEF Checks, BackedAt, Patching, Accepted, Records, Lifecycle, NotAfter
    <3> QED
      BY <1>1, <3>2
  <2> QED
    BY <2>3, <2>4, <2>5
<1>3. CASE ~Locked(e)
  <2>1. /\ local[e].target = original[e].target /\ local[e].bound = original[e].bound
        /\ local[e].cleanup = original[e].cleanup
    BY <1>3 DEF Locked
  <2>2. CASE local[e].ready = original[e].ready
    BY <1>0, <1>1, <2>1, <2>2 DEF Merged, Conditions, Repeats, Records
  <2>3. CASE local[e].ready # original[e].ready
    <3>1. original[e].bound /\ env[e].bound
      BY <2>3 DEF Accepted, LockInv, LockedAt, Proposal, Copies, Behind
    <3>2. original[e].cleanup = env[e].cleanup
      BY <1>0, <2>3 DEF Accepted, BackedAt, Patching, Checkpoints, Records
    <3>3. /\ Merged(e).target = env[e].target
          /\ Merged(e).bound = local[e].bound
          /\ Merged(e).cleanup = local[e].cleanup
      BY <1>0, <2>1, <2>3 DEF Merged, Conditions, Records
    <3>4. Repeats(e)
      BY <1>0, <2>1, <3>1, <3>2, <3>3 DEF Repeats, Records
    <3> QED
      BY <1>1, <3>4
  <2> QED
    BY <2>2, <2>3
<1> QED
  BY <1>2, <1>3

LEMMA BackedPatch ==
  ASSUME LockInv, NEW e \in Envs, BackedAt(e), PatchStatus(e)
  PROVE  BackedAt(e)'
<1>1. pc[e] = "patch" /\ End(e) /\ UNCHANGED ns
  BY DEF PatchStatus, nsVars
<1>2. CASE UNCHANGED envVars
  BY <1>1, <1>2, BackedEnd
<1>3. CASE Accepted(e) /\ Persist(e, Merged(e))
  <2> DEFINE r == Merged(e)
  <2>1. r \in Records /\ env[e] \in Records /\ cached[e] \in Records /\ original[e] \in Records
    BY MergedType DEF LockInv, TypeOK
  <2>2. r.life = env[e].life /\ (Assigns(e) \/ Binds(e) \/ Checks(e) \/ Repeats(e))
    BY <1>3, AcceptedPatch
  <2>3. NotAfter(cached[e].life, r.life)
    BY <2>2 DEF BackedAt, Lifecycle
  <2>4. Frozen(cached[e], r)
    BY <2>2 DEF Assigns, Binds, Checks, Repeats, BackedAt, Lifecycle, Frozen, NotAfter
  <2>5. cached[e].cleanup => r.cleanup
    BY <2>1, <2>2 DEF Assigns, Binds, Checks, Repeats, BackedAt, Checkpoints, Records
  <2>6. r.cleanup => cached[e].life \in {"deleting", "gone"} /\ r.target # None
    BY <2>1, <2>2 DEF Assigns, Binds, Checks, Repeats, BackedAt, Checkpoints, Lifecycle, NotAfter, Records
  <2>7. r.target \in CandidateSet(e) \cup {None}
    BY <2>2 DEF Assigns, Binds, Checks, Repeats, BackedAt, Support
  <2>8. r.bound /\ ~cached[e].cleanup => Backed(e, r.target)
    BY <1>1, <2>1, <2>2
    DEF Assigns, Binds, Checks, Repeats, BackedAt, Support, Checkpoints, Seen, Records
  <2> HIDE DEF r
  <2>9. Persist(e, r)
    BY <1>3 DEF r
  <2> QED
    BY <1>1, <2>1, <2>3, <2>4, <2>5, <2>6, <2>7, <2>8, <2>9, BackedEndPersist
<1> QED
  BY <1>1, <1>2, <1>3 DEF PatchStatus, Accepted

\* A write that only moves the lifecycle on ends a pass ...
LEMMA BackedEndLife ==
  ASSUME LockInv, NEW e \in Envs, BackedAt(e), End(e), UNCHANGED ns, pc[e] # "idle",
         NEW l \in Lives, NotAfter(env[e].life, l), Persist(e, [env[e] EXCEPT !.life = l])
  PROVE  BackedAt(e)'
<1> DEFINE r == [env[e] EXCEPT !.life = l]
<1>1. env[e] \in Records /\ original[e] \in Records /\ cached[e] \in Records
  BY DEF LockInv, TypeOK
<1>2. /\ r \in Records /\ r.life = l /\ r.bound = env[e].bound
      /\ r.target = env[e].target /\ r.cleanup = env[e].cleanup
  BY <1>1, LifeType DEF Records
<1>3. Persist(e, r)
  OBVIOUS
<1> HIDE DEF r
<1>4. NotAfter(cached[e].life, r.life) /\ Frozen(cached[e], r)
  BY <1>2 DEF BackedAt, Lifecycle, NotAfter, Frozen
<1>5. /\ cached[e].cleanup => r.cleanup
      /\ r.cleanup => cached[e].life \in {"deleting", "gone"} /\ r.target # None
      /\ r.target \in CandidateSet(e) \cup {None}
  BY <1>2 DEF BackedAt, Checkpoints, Support
<1>6. r.bound /\ ~cached[e].cleanup => Backed(e, r.target)
  BY <1>1, <1>2 DEF BackedAt, Checkpoints, Support, Seen, Records
<1> QED
  BY <1>2, <1>3, <1>4, <1>5, <1>6, BackedEndPersist

\* ... or strikes from outside.
LEMMA BackedOutside ==
  ASSUME LockInv, NEW e \in Envs, BackedAt(e), UNCHANGED <<nsVars, original, local>>,
         NEW l \in Lives, NotAfter(env[e].life, l), Persist(e, [env[e] EXCEPT !.life = l]),
         UNCHANGED pc \/ (pc[e] = "reconcile" /\ Goto(e, "patch"))
  PROVE  BackedAt(e)'
<1> DEFINE r == [env[e] EXCEPT !.life = l]
<1>1. env[e] \in Records
  BY DEF LockInv, TypeOK
<1>2. /\ r \in Records /\ r.life = l /\ r.bound = env[e].bound
      /\ r.target = env[e].target /\ r.cleanup = env[e].cleanup
  BY <1>1, LifeType DEF Records
<1>3. Persist(e, r) /\ UNCHANGED ns /\ handle'[e] = handle[e]
  BY DEF nsVars
<1> HIDE DEF r
<1> QED
  BY <1>2, <1>3, BackedLife

LEMMA BackedStep ==
  ASSUME LockInv, Orderly, NEW e \in Envs, BackedAt(e), EnvStep(e)
  PROVE  BackedAt(e)'
<1>0. /\ local[e] \in Records /\ env[e] \in Records /\ cached[e] \in Records
      /\ original[e] \in Records /\ LockedAt(e) /\ TypeOK
  BY DEF LockInv, TypeOK
<1>00. \A n \in Names : UNCHANGED ns => (Backed(e, n) => BackedNext(e, n))
  BY DEF Backed, BackedNext
<1>1. CASE Begin(e)
  BY <1>0, <1>1 DEF Begin, Goto, BackedAt, Lifecycle, Checkpoints, Support, Patching, Seen,
     NotAfter, Frozen, Backed, envVars, nsVars, TypeOK
<1>2. CASE AddFinalizer(e)
  <2>1. env[e].life = "new" => NotAfter(env[e].life, "live") /\ "live" \in Lives
    BY DEF NotAfter, Lives
  <2>2. pc[e] # "idle" /\ End(e) /\ UNCHANGED ns
    BY <1>2 DEF AddFinalizer, nsVars
  <2> QED
    BY <1>2, <2>1, <2>2, BackedEnd, BackedEndLife DEF AddFinalizer
<1>3. CASE RemoveFinalizer(e)
  <2>1. env[e].life = "deleting" => NotAfter(env[e].life, "gone") /\ "gone" \in Lives
    BY DEF NotAfter, Lives
  <2>2. pc[e] # "idle" /\ End(e) /\ UNCHANGED ns
    BY <1>3 DEF RemoveFinalizer, nsVars
  <2> QED
    BY <1>3, <2>1, <2>2, BackedEnd, BackedEndLife DEF RemoveFinalizer
<1>4. CASE Abort(e)
  BY <1>4, BackedEnd DEF Abort, nsVars
<1>5. CASE Expire(e)
  <2>0. original[e].life = "live"
    BY <1>5 DEF Expire, BackedAt, Lifecycle
  <2>1. CASE env[e].life = "live"
    <3>1. NotAfter(env[e].life, "deleting") /\ "deleting" \in Lives
      BY <2>1 DEF NotAfter, Lives
    <3> QED
      BY <1>5, <2>1, <3>1, BackedOutside DEF Expire
  <2>2. CASE env[e].life # "live"
    <3>1. Continue(e, "patch")
      BY <1>5, <2>2 DEF Expire, Continue
    <3> QED
      BY <1>5, <2>0, <2>2, <3>1, BackedContinue DEF Expire, Steps, nsVars
  <2> QED
    BY <2>1, <2>2
<1>6. CASE AllocateNamespace(e)
  <2>1. ~local[e].bound /\ original[e].life = "live"
    BY <1>0, <1>6 DEF AllocateNamespace, LockedAt, Stages, BackedAt, Lifecycle
  <2>2. ASSUME NEW i \in 1..Len(Candidates[e]), Propose(e, [local[e] EXCEPT !.target = Candidates[e][i]])
        PROVE  BackedAt(e)'
    <3> DEFINE moved == [local[e] EXCEPT !.target = Candidates[e][i]]
    <3>1. moved \in Records /\ moved.target \in CandidateSet(e)
      <4>1. Candidates[e][i] \in Names /\ Candidates[e][i] \in CandidateSet(e)
        BY ConstantsAssumption DEF CandidateSet
      <4> QED
        BY <1>0, <4>1, TargetType DEF Records
    <3>2. /\ moved.bound = local[e].bound /\ moved.ready = local[e].ready
          /\ moved.cleanup = local[e].cleanup /\ Conditions(moved) = Conditions(local[e])
      BY <1>0 DEF Records, Conditions
    <3>3. Propose(e, moved)
      BY <2>2
    <3> HIDE DEF moved
    <3> QED
      BY <1>00, <1>6, <2>1, <3>1, <3>2, <3>3, BackedPropose DEF AllocateNamespace, nsVars
  <2>3. ASSUME Continue(e, "patch") PROVE BackedAt(e)'
    BY <1>6, <2>1, <2>3, BackedContinue DEF AllocateNamespace, Steps, nsVars
  <2> QED
    BY <1>6, <2>2, <2>3 DEF AllocateNamespace
<1>7. CASE GetNamespace(e) \/ RecheckNamespace(e)
  <2>1. original[e].life = "live"
    BY <1>7 DEF GetNamespace, RecheckNamespace, BackedAt, Lifecycle
  <2> QED
    BY <1>7, <2>1, BackedExamine, BackedContinue DEF GetNamespace, RecheckNamespace, Steps, nsVars
<1>8. CASE CreateNamespace(e)
  <2>1. /\ original[e].life = "live" /\ ~local[e].bound /\ local[e].target \in Names
    BY <1>0, <1>8 DEF CreateNamespace, BackedAt, Lifecycle, LockedAt, Stages, Records
  <2>2. CASE Missing(e)
    <3>1. ns' = [ns EXCEPT ![local[e].target] = [owner |-> e, terminating |-> FALSE]]
      BY <1>8, <2>2 DEF CreateNamespace, WriteNamespace
    <3>2. BackedNext(e, local[e].target)
      BY <1>0, <2>1, <3>1 DEF BackedNext, TypeOK
    <3>3. \A n \in Names : Backed(e, n) => BackedNext(e, n)
      BY <1>0, <2>1, <3>1 DEF BackedNext, Backed, TypeOK
    <3> QED
      BY <1>8, <2>1, <2>2, <3>2, <3>3, BackedBind DEF CreateNamespace
  <2>3. CASE ~Missing(e)
    BY <1>8, <2>1, <2>3, BackedContinue DEF CreateNamespace, Steps, nsVars
  <2> QED
    BY <2>2, <2>3
<1>9. CASE SubmitWork(e)
  <2>1. original[e].life = "live"
    BY <1>9 DEF SubmitWork, BackedAt, Lifecycle
  <2> QED
    BY <1>9, <2>1, BackedSetFailed, BackedContinue DEF SubmitWork, Steps, Readies, nsVars
<1>10. CASE GetForDeletion(e)
  <2>0. original[e].life = "deleting" /\ local[e] = original[e]
    BY <1>0, <1>10 DEF GetForDeletion, BackedAt, Lifecycle, LockedAt, Copies
  <2>1. CASE Releasable(e)
    <3>1. local[e].bound => local[e].cleanup
      BY <1>0, <2>1 DEF Releasable, LockedAt, HasTarget, Records
    <3> QED
      BY <1>10, <2>0, <2>1, <3>1, BackedContinue DEF GetForDeletion, Steps
  <2>2. CASE ~Releasable(e) /\ ~Owned(e)
    <3>1. local[e].bound /\ env[e].bound /\ env[e].target = local[e].target
      BY <1>0, <1>10, <2>0, <2>2 DEF Releasable, GetForDeletion, LockedAt, Copies, Behind, Records
    <3>2. local[e].cleanup
      BY <1>0, <1>10, <2>0, <2>2, <3>1 DEF Owned, GetForDeletion, BackedAt, Support, Seen, Backed
    <3> QED
      BY <1>10, <2>0, <2>2, <3>2, BackedSetFailed DEF GetForDeletion, Readies
  <2>3. CASE ~Releasable(e) /\ Owned(e)
    <3>1. local[e].target \in Names
      BY <1>0, <2>3 DEF Releasable, Records
    <3>2. local[e].target # None
      BY <3>1, ConstantsAssumption
    <3>3. Continue(e, AfterCleanup(e))
      BY <1>10, <2>3 DEF GetForDeletion
    <3>4. CASE local[e].cleanup
      BY <1>10, <2>0, <2>3, <3>1, <3>3, <3>4, BackedContinue
      DEF GetForDeletion, AfterCleanup, Owned, Steps
    <3>5. CASE ~local[e].cleanup
      BY <1>10, <2>0, <2>3, <3>2, <3>3, <3>5, BackedContinue DEF GetForDeletion, AfterCleanup, Steps
    <3> QED
      BY <3>4, <3>5
  <2> QED
    BY <2>1, <2>2, <2>3
<1>11. CASE CleanupPending(e)
  <2>1. original[e].life = "deleting"
    BY <1>11 DEF CleanupPending, BackedAt, Lifecycle
  <2> QED
    BY <1>11, <2>1, BackedContinue DEF CleanupPending, Steps, nsVars
<1>12. CASE CleanupDone(e)
  <2> DEFINE cleaned == [local[e] EXCEPT !.cleanup = TRUE]
  <2>1. /\ cleaned \in Records /\ cleaned.bound = local[e].bound
        /\ cleaned.target = local[e].target /\ cleaned.ready = local[e].ready
        /\ cleaned.cleanup
    BY <1>0 DEF Records
  <2>2. Propose(e, cleaned) /\ pc[e] = "cleanup" /\ UNCHANGED <<envVars, ns>>
    BY <1>12 DEF CleanupDone, nsVars
  <2>3. original[e].life = "deleting" /\ local[e].target # None
    BY <2>2 DEF BackedAt, Lifecycle, Checkpoints
  <2> HIDE DEF cleaned
  <2> QED
    BY <1>00, <2>1, <2>2, <2>3, BackedPropose
<1>13. CASE DeleteNamespace(e)
  <2>0. /\ original[e].life = "deleting" /\ local[e].cleanup /\ local[e] = original[e]
        /\ pc[e] = "deleteNamespace" /\ UNCHANGED envVars
    BY <1>0, <1>13 DEF DeleteNamespace, BackedAt, Lifecycle, Support, LockedAt, Copies
  <2>1. CASE Unmodified(e)
    <3>1. pc'[e] = "removeFinalizer" /\ UNCHANGED <<env, cached, original, local>>
      BY <1>0, <1>13, <2>1 DEF DeleteNamespace, Continue, Goto, TypeOK, envVars
    <3>2. Seen(e)'.cleanup
      BY <2>0, <3>1 DEF Seen
    <3> QED
      BY <2>0, <3>1, <3>2 DEF BackedAt, Lifecycle, Checkpoints, Support, Patching, NotAfter, Frozen
  <2>2. CASE ~Unmodified(e)
    BY <1>13, <2>0, <2>2, BackedContinue DEF DeleteNamespace, Steps, nsVars
  <2> QED
    BY <2>1, <2>2
<1>14. CASE PatchStatus(e)
  BY <1>14, BackedPatch
<1>15. CASE SyncEnv(e)
  BY <1>0, <1>15 DEF SyncEnv, BackedAt, Lifecycle, Checkpoints, Support, Patching, Seen, NotAfter,
     Frozen, Backed, Conditions, workerVars, nsVars, TypeOK, Records, Lives
<1>16. CASE UserDelete(e)
  <2>1. PersistOutside(e, [env[e] EXCEPT !.life = IF env[e].life = "new" THEN "gone" ELSE "deleting"])
    BY <1>16 DEF UserDelete
  <2>2. env[e].life \in {"new", "live"}
    BY <1>16 DEF UserDelete
  <2>3. /\ NotAfter(env[e].life, IF env[e].life = "new" THEN "gone" ELSE "deleting")
        /\ (IF env[e].life = "new" THEN "gone" ELSE "deleting") \in Lives
    BY <2>2 DEF NotAfter, Lives
  <2> QED
    BY <1>16, <2>1, <2>3, BackedOutside DEF UserDelete, PersistOutside, nsVars
<1>17. CASE SpecEdit(e)
  <2>1. NotAfter(env[e].life, env[e].life)
    BY <1>0 DEF NotAfter, Records, Lives
  <2>2. Persist(e, env[e]) /\ UNCHANGED <<pc, ns, original, local>> /\ handle'[e] = handle[e]
    BY <1>17 DEF SpecEdit, PersistOutside, nsVars
  <2> QED
    BY <1>0, <2>1, <2>2, BackedLife
<1> QED
  BY <1>1, <1>2, <1>3, <1>4, <1>5, <1>6, <1>7, <1>8, <1>9, <1>10, <1>11, <1>12, <1>13, <1>14,
     <1>15, <1>16, <1>17 DEF EnvStep, Reconcile, TemplateError, CleanupSkipped, Orderly

-----------------------------------------------------------------------------
\* The invariant.

LEMMA BackedInit == Init => BackInv
<1> SUFFICES ASSUME Init PROVE BackInv
  OBVIOUS
<1>1. LockInv
  BY LockedInit
<1>2. ASSUME NEW e \in Envs PROVE BackedAt(e)
  BY DEF Init, BackedAt, Lifecycle, Checkpoints, Support, Patching, Seen, NotAfter, Frozen, Fresh
<1> QED
  BY <1>1, <1>2 DEF BackInv

LEMMA BackedAtNext ==
  ASSUME Orderly, BackInv, [Next]_vars
  PROVE  BackInv'
<1>1. LockInv'
  <2>1. "TemplateError" \notin Interference
    BY DEF Orderly
  <2> QED
    BY <2>1, LockedNext DEF BackInv
<1>2. ASSUME NEW e \in Envs PROVE BackedAt(e)'
  <2>0. LockInv /\ BackedAt(e) /\ TypeOK
    BY DEF BackInv, LockInv
  <2>1. CASE UNCHANGED vars
    BY <2>0, <2>1, BackedSame
    DEF SameAt, NamespacesKept, Backed, BackedNext, vars, envVars, workerVars, nsVars
  <2>2. ASSUME NEW n \in Names, NamespaceStep(n) PROVE BackedAt(e)'
    BY <2>0, <2>2, NamespaceSteps, NamespaceStepsKeep, BackedSame
  <2>3. ASSUME NEW f \in Envs, EnvStep(f), f # e PROVE BackedAt(e)'
    <3>1. BackedAt(f)
      BY DEF BackInv
    <3> QED
      BY <2>0, <2>3, <3>1, OtherSteps, OthersKeep, BackedSame
  <2>4. CASE EnvStep(e)
    BY <2>0, <2>4, BackedStep
  <2> QED
    BY <2>1, <2>2, <2>3, <2>4 DEF Next
<1> QED
  BY <1>1, <1>2 DEF BackInv

\* The inductive invariant behind ownership: what a record claims, persisted
\* or in a reconcile's hands, is supported by the owner of the namespace.
THEOREM BackInvariant ==
  ASSUME Orderly
  PROVE  Spec => []BackInv
<1>1. BackInv /\ [Next]_vars => BackInv'
  BY BackedAtNext
<1> QED
  BY <1>1, BackedInit, PTL DEF Spec

\* A bound environment owns its target until its cleanup checkpoint.
THEOREM BindingIsBacked ==
  ASSUME Orderly
  PROVE  Spec => []BindingBacked
<1>1. BackInv => BindingBacked
  <2> SUFFICES ASSUME BackInv, NEW e \in Envs, env[e].bound, ~env[e].cleanup
               PROVE  env[e].target # None /\ ns[env[e].target] = [owner |-> e, terminating |-> FALSE]
    BY DEF BindingBacked
  <2> QED
    BY DEF BackInv, LockInv, LockedAt, HasTarget, BackedAt, Support, Checkpoints, Seen, Backed
<1> QED
  BY <1>1, BackInvariant, PTL

\* Two environments never hold the same namespace, however many prefixes
\* their UIDs share.
THEOREM BindingIsExclusive ==
  ASSUME Orderly
  PROVE  Spec => []DistinctBinding
<1>1. BackInv => DistinctBinding
  <2> SUFFICES ASSUME BackInv, NEW e \in Envs, NEW f \in Envs, e # f,
                      env[e].bound, env[f].bound, Live(e), Live(f)
               PROVE  env[e].target # env[f].target
    BY DEF DistinctBinding
  <2>1. ASSUME NEW g \in Envs, env[g].bound, Live(g) PROVE Backed(g, env[g].target)
    BY <2>1 DEF BackInv, BackedAt, Lifecycle, NotAfter, Checkpoints, Support, Seen, Live
  <2>2. Backed(e, env[e].target) /\ Backed(f, env[f].target)
    BY <2>1
  <2> QED
    BY <2>2 DEF Backed
<1> QED
  BY <1>1, BackInvariant, PTL

-----------------------------------------------------------------------------
\* The refinement.

LEMMA RecordWrite ==
  ASSUME TypeOK, NEW e \in Envs, NEW r, Persist(e, r)
  PROVE  [f \in Envs |-> Assigned(env[f])]'
           = [[f \in Envs |-> Assigned(env[f])] EXCEPT ![e] = Assigned(r)]
  BY DEF TypeOK, Persist

LEMMA InitRefines == Init => Assignment!Init
  BY DEF Init, Fresh, Assigned, Assignment!Init, Assignment!Fresh

\* A write that changes the lifecycle only.
LEMMA LifeWrite ==
  ASSUME TypeOK, NEW e \in Envs, NEW l \in Lives, Persist(e, [env[e] EXCEPT !.life = l])
  PROVE  [f \in Envs |-> Assigned(env[f])]'
           = [[f \in Envs |-> Assigned(env[f])] EXCEPT ![e].life = l]
<1>1. env[e] \in Records
  BY DEF TypeOK
<1>2. Assigned([env[e] EXCEPT !.life = l]) = [Assigned(env[e]) EXCEPT !.life = l]
  BY <1>1 DEF Assigned, Records
<1>3. [f \in Envs |-> Assigned(env[f])]'
        = [[f \in Envs |-> Assigned(env[f])] EXCEPT ![e] = Assigned([env[e] EXCEPT !.life = l])]
  BY RecordWrite
<1> QED
  BY <1>2, <1>3

\* Records that differ in one condition (for any value: SMT keeps Booleans apart).
LEMMA BoundDiffers ==
  ASSUME NEW r, NEW s, NEW b, s.life = r.life, s.target = r.target,
         s.cleanup = r.cleanup, s.bound = b
  PROVE  Assigned(s) = [Assigned(r) EXCEPT !.bound = b]
  BY DEF Assigned

LEMMA CleanupDiffers ==
  ASSUME NEW r, NEW s, NEW b, s.life = r.life, s.target = r.target,
         s.bound = r.bound, s.cleanup = b
  PROVE  Assigned(s) = [Assigned(r) EXCEPT !.cleanup = b]
  BY DEF Assigned

\* An accepted status patch is Assign, Bind, Checkpoint or a stutter.
LEMMA PatchRefines ==
  ASSUME LockInv, NEW e \in Envs, BackedAt(e), Accepted(e), Persist(e, Merged(e))
  PROVE  \/ Assignment!Assign(e) \/ Assignment!Bind(e) \/ Assignment!Checkpoint(e)
         \/ UNCHANGED [f \in Envs |-> Assigned(env[f])]
<1> DEFINE record == [f \in Envs |-> Assigned(env[f])]
           merged == Assigned(Merged(e))
<1>0. TypeOK /\ env[e] \in Records /\ Merged(e) \in Records
  BY MergedType DEF LockInv, TypeOK
<1>1. record' = [record EXCEPT ![e] = merged]
  BY <1>0, RecordWrite
<1>2. Merged(e).life = env[e].life /\ (Assigns(e) \/ Binds(e) \/ Checks(e) \/ Repeats(e))
  BY AcceptedPatch
<1>3. /\ merged.life = env[e].life /\ merged.target = Merged(e).target
      /\ merged.bound = Merged(e).bound /\ merged.cleanup = Merged(e).cleanup
  BY <1>2 DEF Assigned
<1>4. CASE Assigns(e)
  <2>1. merged = [record[e] EXCEPT !.target = Merged(e).target]
    BY <1>2, <1>4 DEF Assigns, Assigned
  <2> QED
    BY <1>1, <1>4, <2>1 DEF Assigns, Assigned, Assignment!Assign
<1>5. CASE Binds(e)
  <2>1. Merged(e).bound = TRUE
    BY <1>0, <1>5 DEF Binds, Records
  <2>2. merged = [record[e] EXCEPT !.bound = TRUE]
    <3>1. record[e] = Assigned(env[e])
      OBVIOUS
    <3>2. Merged(e).target = env[e].target /\ Merged(e).cleanup = env[e].cleanup
      BY <1>5 DEF Binds
    <3>3. merged = [Assigned(env[e]) EXCEPT !.bound = TRUE]
      BY <1>2, <2>1, <3>2, BoundDiffers, Zenon
    <3> QED
      BY <3>1, <3>3
  <2>3. env[e].target # None
    BY <1>5, ConstantsAssumption DEF Binds, Backed
  <2> QED
    BY <1>1, <1>5, <2>2, <2>3 DEF Binds, Assigned, Assignment!Bind
<1>6. CASE Checks(e)
  <2>1. Merged(e).cleanup = TRUE
    BY <1>0, <1>6 DEF Checks, Records
  <2>2. merged = [record[e] EXCEPT !.cleanup = TRUE]
    <3>1. record[e] = Assigned(env[e])
      OBVIOUS
    <3>2. Merged(e).target = env[e].target /\ Merged(e).bound = env[e].bound
      BY <1>6 DEF Checks
    <3>3. merged = [Assigned(env[e]) EXCEPT !.cleanup = TRUE]
      BY <1>2, <2>1, <3>2, CleanupDiffers, Zenon
    <3> QED
      BY <3>1, <3>3
  <2> QED
    BY <1>1, <1>6, <2>2 DEF Checks, Assigned, Assignment!Checkpoint
<1>7. CASE Repeats(e)
  <2>1. merged = record[e]
    BY <1>2, <1>7 DEF Repeats, Assigned
  <2> QED
    BY <1>1, <2>1
<1> QED
  BY <1>2, <1>4, <1>5, <1>6, <1>7

LEMMA StepRefines ==
  ASSUME BackInv, NEW e \in Envs, EnvStep(e)
  PROVE  Assignment!Next \/ UNCHANGED Assignment!vars
<1>0. LockInv /\ BackedAt(e) /\ TypeOK /\ env[e] \in Records
  BY DEF BackInv, LockInv, TypeOK
<1>1. CASE UNCHANGED env
  BY <1>1 DEF Assignment!vars, Assigned
<1>2. CASE AddFinalizer(e) /\ env[e].life = "new"
  <2>1. Persist(e, [env[e] EXCEPT !.life = "live"]) /\ "live" \in Lives
    BY <1>2 DEF AddFinalizer, Lives
  <2>2. Assignment!Adopt(e)
    BY <1>0, <1>2, <2>1, LifeWrite DEF Assignment!Adopt, Assigned
  <2> QED
    BY <2>2 DEF Assignment!Next
<1>3. CASE Expire(e) /\ env[e].life = "live"
  <2>1. Persist(e, [env[e] EXCEPT !.life = "deleting"]) /\ "deleting" \in Lives
    BY <1>3 DEF Expire, Lives
  <2>2. Assignment!Delete(e)
    BY <1>0, <1>3, <2>1, LifeWrite DEF Assignment!Delete, Assigned
  <2> QED
    BY <2>2 DEF Assignment!Next
<1>4. CASE UserDelete(e)
  <2>1. CASE env[e].life = "new"
    <3>1. Persist(e, [env[e] EXCEPT !.life = "gone"]) /\ "gone" \in Lives
      BY <1>4, <2>1 DEF UserDelete, PersistOutside, Lives
    <3>2. Assignment!Delete(e)
      BY <1>0, <2>1, <3>1, LifeWrite DEF Assignment!Delete, Assigned
    <3> QED
      BY <3>2 DEF Assignment!Next
  <2>2. CASE env[e].life = "live"
    <3>1. Persist(e, [env[e] EXCEPT !.life = "deleting"]) /\ "deleting" \in Lives
      BY <1>4, <2>2 DEF UserDelete, PersistOutside, Lives
    <3>2. Assignment!Delete(e)
      BY <1>0, <2>2, <3>1, LifeWrite DEF Assignment!Delete, Assigned
    <3> QED
      BY <3>2 DEF Assignment!Next
  <2> QED
    BY <1>4, <2>1, <2>2 DEF UserDelete
<1>5. CASE RemoveFinalizer(e) /\ env[e].life = "deleting"
  <2>1. Persist(e, [env[e] EXCEPT !.life = "gone"]) /\ "gone" \in Lives
    BY <1>5 DEF RemoveFinalizer, Lives
  <2>2. env[e].bound => env[e].cleanup
    BY <1>0, <1>5 DEF RemoveFinalizer, BackedAt, Lifecycle, Checkpoints, Frozen
  <2>3. Assignment!Release(e)
    BY <1>0, <1>5, <2>1, <2>2, LifeWrite DEF Assignment!Release, Assigned
  <2> QED
    BY <2>3 DEF Assignment!Next
<1>6. CASE PatchStatus(e) /\ ~UNCHANGED env
  <2>1. Accepted(e) /\ Persist(e, Merged(e))
    BY <1>6 DEF PatchStatus, Accepted, envVars
  <2>2. \/ Assignment!Assign(e) \/ Assignment!Bind(e) \/ Assignment!Checkpoint(e)
        \/ UNCHANGED [f \in Envs |-> Assigned(env[f])]
    BY <1>0, <2>1, PatchRefines
  <2> QED
    BY <2>2 DEF Assignment!Next, Assignment!vars
<1>7. SpecEdit(e) => UNCHANGED env
  BY <1>0 DEF SpecEdit, PersistOutside, Persist, TypeOK
<1> QED
  BY <1>1, <1>2, <1>3, <1>4, <1>5, <1>6, <1>7
  DEF EnvStep, Reconcile, Begin, AddFinalizer, AllocateNamespace, GetNamespace, CreateNamespace,
      RecheckNamespace, SubmitWork, GetForDeletion, CleanupPending, CleanupDone, DeleteNamespace,
      RemoveFinalizer, TemplateError, Expire, CleanupSkipped, Abort, SyncEnv, envVars

\* NamespaceBinding implements NamespaceAssignment.
THEOREM BindingImplementsAssignment ==
  ASSUME Orderly
  PROVE  Spec => ImplementsAssignment
<1>1. BackInv /\ [Next]_vars => [Assignment!Next]_(Assignment!vars)
  <2> SUFFICES ASSUME BackInv, [Next]_vars
               PROVE  Assignment!Next \/ UNCHANGED Assignment!vars
    OBVIOUS
  <2>1. CASE UNCHANGED vars
    BY <2>1 DEF vars, envVars, Assignment!vars, Assigned
  <2>2. ASSUME NEW n \in Names, NamespaceStep(n) PROVE UNCHANGED Assignment!vars
    <3>1. UNCHANGED env
      BY <2>2 DEF NamespaceStep, SyncNamespace, FinishTermination, ForeignCreate, NamespaceDelete,
         Relabel, envVars
    <3> QED
      BY <3>1 DEF Assignment!vars, Assigned
  <2> QED
    BY <2>1, <2>2, StepRefines DEF Next
<1> QED
  BY <1>1, InitRefines, BackInvariant, PTL DEF Spec, ImplementsAssignment, Assignment!Spec

-----------------------------------------------------------------------------
(***************************************************************************)
(* What an environment that leaves has left behind, whatever anybody does  *)
(* to namespaces and templates.  A pass goes on only along the lifecycle   *)
(* that the copy it reads shows, and that copy is never younger than what  *)
(* is persisted; so no pass takes a namespace for an environment that is   *)
(* being deleted, and the target which is released is the one persisted.   *)
(***************************************************************************)

Leaving == {"deleting", "gone"}

LiveSteps == {"reconcile", "allocate", "create", "recheck", "work"}

LeaveSteps == {"dispose", "cleanup", "deleteNamespace", "removeFinalizer"}

\* The copies of e, and how far the lifecycle has come in each.
Aging(e) ==
    /\ ~lagging[e] => cached[e] = env[e]
    /\ pc[e] # "idle" /\ ~outdated[e] => original[e] = env[e]
    /\ pc[e] \notin {"idle", "patch"} => local[e] = original[e]
    /\ NotAfter(cached[e].life, env[e].life)
    /\ pc[e] # "idle" => NotAfter(original[e].life, cached[e].life)
    /\ env[e].life = "gone" => cached[e].life # "live"
    /\ env[e].life = "gone" /\ pc[e] # "idle" => original[e].life # "live"

\* A pass does what the lifecycle of its copy calls for.
Paths(e) ==
    /\ pc[e] = "adopt" => original[e].life = "new"
    /\ pc[e] \in LiveSteps => original[e].life = "live"
    /\ pc[e] \in LeaveSteps => original[e].life = "deleting"

\* The target is frozen once a copy shows the deletion.
Targets(e) ==
    /\ env[e].life = "new" => env[e].target = None
    /\ cached[e].life \in Leaving => cached[e].target = env[e].target
    /\ pc[e] # "idle" /\ original[e].life \in Leaving => original[e].target = env[e].target
    /\ pc[e] = "patch" /\ local[e].target # original[e].target => original[e].life = "live"

\* What the removal of the finalizer rests on, and leaves.
Releases(e) ==
    /\ pc[e] = "removeFinalizer" => ~Backed(e, local[e].target)
    /\ env[e].life = "gone" => ~Backed(e, env[e].target)

\* What the deletion of the namespace rests on.
Handles(e) ==
    pc[e] = "deleteNamespace" =>
        /\ local[e].target \in Names
        /\ handle[e] => ns[local[e].target].owner = e

LeaveAt(e) == Aging(e) /\ Paths(e) /\ Targets(e) /\ Releases(e) /\ Handles(e)

LeaveInv == TypeOK /\ \A e \in Envs : LeaveAt(e)

-----------------------------------------------------------------------------
\* The steps of a pass between its read and its end.
PassStep(e) ==
    \/ AllocateNamespace(e) \/ TemplateError(e) \/ GetNamespace(e) \/ CreateNamespace(e)
    \/ RecheckNamespace(e) \/ SubmitWork(e) \/ GetForDeletion(e) \/ CleanupPending(e)
    \/ CleanupDone(e) \/ CleanupSkipped(e) \/ DeleteNamespace(e)

\* A step takes no namespace for e.
TakesNone(e) == \A n \in Names : BackedNext(e, n) => Backed(e, n)

\* What such a step, towards s, may change.
Advances(e, s) ==
    /\ pc[e] \in LiveSteps \cup LeaveSteps
    /\ pc' = [pc EXCEPT ![e] = s]
    /\ s \in LiveSteps => pc[e] \in LiveSteps
    /\ s \in LeaveSteps => pc[e] \in LeaveSteps
    /\ UNCHANGED <<envVars, original, outdated>>
    /\ s # "patch" => UNCHANGED local
    /\ local'[e].target # local[e].target => pc[e] = "allocate"
    /\ local'[e].bound # local[e].bound => pc[e] \in {"reconcile", "create", "recheck"}
    /\ local'[e].cleanup # local[e].cleanup => CleanupDone(e) \/ CleanupSkipped(e)
    /\ pc[e] # "create" => TakesNone(e)
    /\ s = "removeFinalizer" => ~BackedNext(e, local[e].target)
    /\ s = "deleteNamespace" => local[e].target \in Names /\ ns'[local[e].target].owner = e

\* A decision that proposes nothing, or a new Ready condition, or the binding.
LEMMA ContinueAdvances ==
  ASSUME TypeOK, NEW e \in Envs, UNCHANGED envVars, pc[e] \in LiveSteps \cup LeaveSteps,
         NEW s \in LiveSteps \cup LeaveSteps \cup {"patch"}, Continue(e, s),
         s \in LiveSteps => pc[e] \in LiveSteps,
         s \in LeaveSteps => pc[e] \in LeaveSteps,
         pc[e] # "create" => TakesNone(e),
         s = "removeFinalizer" => ~BackedNext(e, local[e].target),
         s = "deleteNamespace" => local[e].target \in Names /\ ns'[local[e].target].owner = e
  PROVE  \E t \in LiveSteps \cup LeaveSteps \cup {"patch"} : Advances(e, t)
  BY DEF Continue, Goto, Advances

LEMMA ProposeAdvances ==
  ASSUME TypeOK, NEW e \in Envs, UNCHANGED envVars, pc[e] \in LiveSteps \cup LeaveSteps,
         NEW r \in Records, Propose(e, r),
         r.target # local[e].target => pc[e] = "allocate",
         r.bound # local[e].bound => pc[e] \in {"reconcile", "create", "recheck"},
         r.cleanup # local[e].cleanup => CleanupDone(e) \/ CleanupSkipped(e),
         pc[e] # "create" => TakesNone(e)
  PROVE  \E t \in LiveSteps \cup LeaveSteps \cup {"patch"} : Advances(e, t)
<1>1. local'[e] = r
  BY DEF Propose, TypeOK
<1>2. Advances(e, "patch")
  BY <1>1 DEF Propose, Goto, Advances, LiveSteps, LeaveSteps
<1> QED
  BY <1>2

LEMMA SetFailedAdvances ==
  ASSUME TypeOK, NEW e \in Envs, UNCHANGED envVars, pc[e] \in LiveSteps \cup LeaveSteps,
         NEW x \in Readies, SetFailed(e, x), TakesNone(e)
  PROVE  \E t \in LiveSteps \cup LeaveSteps \cup {"patch"} : Advances(e, t)
<1> DEFINE failed == [local[e] EXCEPT !.ready = x]
<1>1. /\ failed \in Records /\ failed.bound = local[e].bound /\ failed.cleanup = local[e].cleanup
      /\ failed.target = local[e].target
  BY DEF TypeOK, Records
<1>2. Propose(e, failed)
  BY DEF SetFailed
<1> HIDE DEF failed
<1> QED
  BY <1>1, <1>2, ProposeAdvances

LEMMA ExamineAdvances ==
  ASSUME TypeOK, NEW e \in Envs, UNCHANGED envVars, pc[e] \in {"reconcile", "recheck"},
         Examine(e), TakesNone(e)
  PROVE  \E t \in LiveSteps \cup LeaveSteps \cup {"patch"} : Advances(e, t)
<1>1. CASE Propose(e, [local[e] EXCEPT !.bound = TRUE])
  <2> DEFINE bound == [local[e] EXCEPT !.bound = TRUE]
  <2>1. /\ bound \in Records /\ bound.cleanup = local[e].cleanup
        /\ bound.target = local[e].target
    BY DEF TypeOK, Records
  <2>2. Propose(e, bound)
    BY <1>1
  <2> HIDE DEF bound
  <2> QED
    BY <2>1, <2>2, ProposeAdvances DEF LiveSteps
<1>2. CASE \E s \in {"patch", "work", "allocate"} : Continue(e, s)
  BY <1>2, ContinueAdvances DEF LiveSteps, LeaveSteps
<1>3. CASE SetFailed(e, "unmanaged")
  BY <1>3, SetFailedAdvances DEF LiveSteps, Readies
<1> QED
  BY <1>1, <1>2, <1>3 DEF Examine, UseNamespace, RejectNamespace

LEMMA PassAdvances ==
  ASSUME TypeOK, NEW e \in Envs, PassStep(e)
  PROVE  \E s \in LiveSteps \cup LeaveSteps \cup {"patch"} : Advances(e, s)
<1> DEFINE Goal == \E s \in LiveSteps \cup LeaveSteps \cup {"patch"} : Advances(e, s)
<1>0. local[e] \in Records /\ (UNCHANGED ns => TakesNone(e))
  BY DEF TypeOK, TakesNone, Backed, BackedNext
<1>1. CASE AllocateNamespace(e)
  <2>1. ASSUME NEW i \in 1..Len(Candidates[e]), Propose(e, [local[e] EXCEPT !.target = Candidates[e][i]])
        PROVE  Goal
    <3> DEFINE moved == [local[e] EXCEPT !.target = Candidates[e][i]]
    <3>1. /\ moved \in Records /\ moved.bound = local[e].bound
          /\ moved.cleanup = local[e].cleanup
      <4>1. Candidates[e][i] \in Names
        BY ConstantsAssumption
      <4> QED
        BY <1>0, <4>1, TargetType DEF Records
    <3>2. Propose(e, moved)
      BY <2>1
    <3> HIDE DEF moved
    <3> QED
      BY <1>0, <1>1, <3>1, <3>2, ProposeAdvances DEF AllocateNamespace, nsVars, LiveSteps
  <2>2. ASSUME Continue(e, "patch") PROVE Goal
    BY <1>0, <1>1, <2>2, ContinueAdvances DEF AllocateNamespace, nsVars, LiveSteps, LeaveSteps
  <2> QED
    BY <1>1, <2>1, <2>2 DEF AllocateNamespace
<1>2. CASE TemplateError(e)
  BY <1>0, <1>2, SetFailedAdvances DEF TemplateError, nsVars, LiveSteps, Readies
<1>3. CASE GetNamespace(e) \/ RecheckNamespace(e)
  <2>1. /\ UNCHANGED envVars /\ pc[e] \in {"reconcile", "recheck"} /\ TakesNone(e)
        /\ Examine(e) \/ \E s \in {"patch", "create"} : Continue(e, s)
    BY <1>0, <1>3 DEF GetNamespace, RecheckNamespace, nsVars
  <2> QED
    BY <2>1, ExamineAdvances, ContinueAdvances DEF LiveSteps, LeaveSteps
<1>4. CASE CreateNamespace(e)
  <2> DEFINE bound == [local[e] EXCEPT !.bound = TRUE]
  <2>1. /\ bound \in Records /\ bound.cleanup = local[e].cleanup
        /\ bound.target = local[e].target
    BY <1>0 DEF Records
  <2>2. Propose(e, bound) \/ Continue(e, "recheck")
    BY <1>4 DEF CreateNamespace
  <2> HIDE DEF bound
  <2> QED
    BY <1>4, <2>1, <2>2, ProposeAdvances, ContinueAdvances
    DEF CreateNamespace, LiveSteps, LeaveSteps
<1>5. CASE SubmitWork(e)
  BY <1>0, <1>5, SetFailedAdvances, ContinueAdvances
  DEF SubmitWork, nsVars, LiveSteps, LeaveSteps, Readies
<1>6. CASE GetForDeletion(e)
  <2>1. UNCHANGED envVars /\ UNCHANGED ns /\ TakesNone(e) /\ pc[e] \in LeaveSteps
    BY <1>0, <1>6 DEF GetForDeletion, LeaveSteps
  <2>2. CASE Releasable(e) /\ Continue(e, "removeFinalizer")
    <3>1. ~BackedNext(e, local[e].target)
      BY <2>1, <2>2, ConstantsAssumption DEF Releasable, Owned, Missing, Absent, BackedNext
    <3> QED
      BY <2>1, <2>2, <3>1, ContinueAdvances DEF LiveSteps, LeaveSteps
  <2>3. CASE SetFailed(e, "unmanaged")
    BY <2>1, <2>3, SetFailedAdvances DEF Readies
  <2>4. CASE ~Releasable(e) /\ Owned(e) /\ Continue(e, AfterCleanup(e))
    <3>1. local[e].target \in Names /\ ns'[local[e].target].owner = e
      BY <1>0, <2>1, <2>4 DEF Releasable, Owned, Records
    <3> QED
      BY <2>1, <2>4, <3>1, ContinueAdvances DEF AfterCleanup, LiveSteps, LeaveSteps
  <2> QED
    BY <1>6, <2>2, <2>3, <2>4 DEF GetForDeletion
<1>7. CASE CleanupPending(e)
  BY <1>0, <1>7, ContinueAdvances DEF CleanupPending, nsVars, LiveSteps, LeaveSteps
<1>8. CASE CleanupDone(e) \/ CleanupSkipped(e)
  <2> DEFINE cleaned == [local[e] EXCEPT !.cleanup = TRUE]
  <2>1. /\ cleaned \in Records /\ cleaned.bound = local[e].bound
        /\ cleaned.target = local[e].target
    BY <1>0 DEF Records
  <2>2. /\ Propose(e, cleaned) /\ pc[e] \in LeaveSteps /\ UNCHANGED envVars
        /\ TakesNone(e)
    BY <1>0, <1>8 DEF CleanupDone, CleanupSkipped, nsVars, LeaveSteps
  <2> HIDE DEF cleaned
  <2> QED
    BY <1>8, <2>1, <2>2, ProposeAdvances
<1>9. CASE DeleteNamespace(e)
  <2>1. UNCHANGED envVars /\ pc[e] \in LeaveSteps
    BY <1>9 DEF DeleteNamespace, LeaveSteps
  <2>2. CASE Unmodified(e)
    <3>1. /\ Continue(e, "removeFinalizer")
          /\ ns' = [ns EXCEPT ![local[e].target] = [ns[local[e].target] EXCEPT !.terminating = TRUE]]
      BY <1>9, <2>2 DEF DeleteNamespace, WriteNamespace
    <3>2. TakesNone(e) /\ ~BackedNext(e, local[e].target)
      BY <3>1 DEF TakesNone, Backed, BackedNext, TypeOK, Namespaces
    <3> QED
      BY <2>1, <3>1, <3>2, ContinueAdvances DEF LiveSteps, LeaveSteps
  <2>3. CASE ~Unmodified(e)
    <3>1. TakesNone(e) /\ UNCHANGED ns
      BY <1>0, <1>9, <2>3 DEF DeleteNamespace, nsVars
    <3>2. Missing(e) => ~BackedNext(e, local[e].target)
      BY <3>1, ConstantsAssumption DEF Missing, Absent, BackedNext
    <3> QED
      BY <1>9, <2>1, <2>3, <3>1, <3>2, ContinueAdvances DEF DeleteNamespace, LiveSteps, LeaveSteps
  <2> QED
    BY <2>2, <2>3
<1> QED
  BY <1>1, <1>2, <1>3, <1>4, <1>5, <1>6, <1>7, <1>8, <1>9 DEF PassStep

\* What a step of somebody else leaves alone, and what it may do to e's
\* namespaces.
Apart(e) ==
    /\ SameAt(e)
    /\ usage'[e] = usage[e]
    /\ TakesNone(e)
    /\ pc[e] = "deleteNamespace" /\ local[e].target \in Names /\ handle'[e] =>
          handle[e] /\ ns'[local[e].target] = ns[local[e].target]

LEMMA WriteApart ==
  ASSUME TypeOK, NEW e \in Envs, NEW n, NEW r, WriteNamespace(n, r), SameAt(e),
         usage'[e] = usage[e],
         n \in Names => r # [owner |-> e, terminating |-> FALSE]
  PROVE  Apart(e)
  BY DEF TypeOK, WriteNamespace, Apart, TakesNone, Backed, BackedNext

LEMMA UnwrittenApart ==
  ASSUME NEW e \in Envs, UNCHANGED ns, handle'[e] = handle[e], SameAt(e), usage'[e] = usage[e]
  PROVE  Apart(e)
  BY DEF Apart, TakesNone, Backed, BackedNext

LEMMA TerminatedDiffers ==
  ASSUME TypeOK, NEW n \in Names, NEW e
  PROVE  [ns[n] EXCEPT !.terminating = TRUE] # [owner |-> e, terminating |-> FALSE]
  BY DEF TypeOK, Namespaces

LEMMA OthersApart ==
  ASSUME TypeOK, NEW e \in Envs, NEW f \in Envs, e # f, EnvStep(f)
  PROVE  Apart(e)
<1>0. SameAt(e)
  BY OtherSteps
<1>1. usage'[e] = usage[e]
  BY DEF EnvStep, Reconcile, Begin, AddFinalizer, AllocateNamespace, GetNamespace,
     CreateNamespace, RecheckNamespace, SubmitWork, GetForDeletion, CleanupPending,
     CleanupDone, DeleteNamespace, RemoveFinalizer, PatchStatus, TemplateError, Expire,
     CleanupSkipped, Abort, SyncEnv, UserDelete, SpecEdit, TypeOK
<1>2. CASE CreateNamespace(f) /\ Missing(f)
  <2> DEFINE created == [owner |-> f, terminating |-> FALSE]
  <2>1. WriteNamespace(local[f].target, created) /\ created # [owner |-> e, terminating |-> FALSE]
    BY <1>2 DEF CreateNamespace
  <2> HIDE DEF created
  <2> QED
    BY <1>0, <1>1, <2>1, WriteApart
<1>3. CASE DeleteNamespace(f) /\ Unmodified(f)
  <2> DEFINE terminated == [ns[local[f].target] EXCEPT !.terminating = TRUE]
  <2>1. /\ WriteNamespace(local[f].target, terminated)
        /\ local[f].target \in Names => terminated # [owner |-> e, terminating |-> FALSE]
    BY <1>3, TerminatedDiffers DEF DeleteNamespace
  <2> HIDE DEF terminated
  <2> QED
    BY <1>0, <1>1, <2>1, WriteApart
<1>4. CASE UNCHANGED ns /\ handle'[e] = handle[e]
  BY <1>0, <1>1, <1>4, UnwrittenApart
<1>5. GetForDeletion(f) => UNCHANGED ns /\ handle'[e] = handle[e]
  BY DEF GetForDeletion, TypeOK
<1> QED
  BY <1>2, <1>3, <1>4, <1>5
  DEF EnvStep, Reconcile, nsVars, Begin, AddFinalizer, AllocateNamespace, GetNamespace,
      CreateNamespace, RecheckNamespace, SubmitWork, CleanupPending, CleanupDone,
      DeleteNamespace, RemoveFinalizer, PatchStatus, TemplateError, Expire, CleanupSkipped,
      Abort, SyncEnv, UserDelete, SpecEdit

LEMMA NamespaceStepsApart ==
  ASSUME TypeOK, NEW e \in Envs, NEW n \in Names, NamespaceStep(n)
  PROVE  Apart(e)
<1>0. SameAt(e) /\ usage'[e] = usage[e]
  BY NamespaceSteps DEF NamespaceStep, SyncNamespace, FinishTermination, ForeignCreate,
     NamespaceDelete, Relabel
<1>1. CASE SyncNamespace(n)
  BY <1>0, <1>1, UnwrittenApart DEF SyncNamespace
<1>2. ASSUME NEW r, WriteNamespace(n, r), r # [owner |-> e, terminating |-> FALSE]
      PROVE  Apart(e)
  BY <1>0, <1>2, WriteApart
<1>3. /\ Absent # [owner |-> e, terminating |-> FALSE]
      /\ [owner |-> Foreign, terminating |-> FALSE] # [owner |-> e, terminating |-> FALSE]
      /\ [ns[n] EXCEPT !.owner = Foreign] # [owner |-> e, terminating |-> FALSE]
  BY ConstantsAssumption DEF Absent, TypeOK, Namespaces
<1> QED
  BY <1>1, <1>2, <1>3, TerminatedDiffers
  DEF NamespaceStep, FinishTermination, ForeignCreate, NamespaceDelete, Relabel

-----------------------------------------------------------------------------
\* LeaveInv is inductive.

LEMMA LeaveSame ==
  ASSUME TypeOK, NEW e \in Envs, LeaveAt(e), Apart(e)
  PROVE  LeaveAt(e)'
<1>1. Aging(e)' /\ Paths(e)' /\ Targets(e)'
  BY DEF LeaveAt, Apart, SameAt, Aging, Paths, Targets, NotAfter
<1>2. Releases(e)'
  BY DEF LeaveAt, Apart, SameAt, Releases, TakesNone, Backed, BackedNext
<1>3. Handles(e)'
  BY DEF LeaveAt, Apart, SameAt, Handles
<1> QED
  BY <1>1, <1>2, <1>3 DEF LeaveAt

LEMMA LeavePass ==
  ASSUME TypeOK, NEW e \in Envs, LeaveAt(e), NEW s \in LiveSteps \cup LeaveSteps \cup {"patch"},
         Advances(e, s)
  PROVE  LeaveAt(e)'
<1>1. /\ pc[e] \notin {"idle", "patch", "adopt"} /\ pc'[e] = s /\ s \notin {"idle", "adopt"}
      /\ UNCHANGED <<env, cached, lagging, original, outdated>>
  BY DEF Advances, TypeOK, envVars, LiveSteps, LeaveSteps
<1>2. local[e] = original[e]
  BY <1>1 DEF LeaveAt, Aging
<1>3. Aging(e)'
  BY <1>1, <1>2 DEF LeaveAt, Aging, Advances, NotAfter
<1>4. Paths(e)'
  BY <1>1 DEF LeaveAt, Paths, Advances
<1>5. Targets(e)'
  BY <1>1, <1>2 DEF LeaveAt, Targets, Paths, Advances, LiveSteps
<1>6. Releases(e)'
  <2>1. s = "removeFinalizer" => ~Backed(e, local[e].target)'
    BY <1>1 DEF Advances, Backed, BackedNext
  <2>2. env[e].life = "gone" => TakesNone(e)
    BY <1>1 DEF Advances, LeaveAt, Aging, Paths, LiveSteps
  <2> QED
    BY <1>1, <2>1, <2>2 DEF LeaveAt, Releases, TakesNone, Backed, BackedNext
<1>7. Handles(e)'
  BY <1>1 DEF Advances, Handles
<1> QED
  BY <1>3, <1>4, <1>5, <1>6, <1>7 DEF LeaveAt

\* The end of a pass, without a write ...
LEMMA LeaveEnd ==
  ASSUME TypeOK, NEW e \in Envs, LeaveAt(e), End(e), UNCHANGED <<envVars, ns>>
  PROVE  LeaveAt(e)'
<1>1. pc'[e] = "idle" /\ UNCHANGED <<env, cached, lagging, ns>>
  BY DEF End, Goto, TypeOK, envVars
<1> QED
  BY <1>1 DEF LeaveAt, Aging, Paths, Targets, Releases, Handles, NotAfter, Backed, LiveSteps,
     LeaveSteps

\* ... or with one.
LEMMA LeaveEndPersist ==
  ASSUME TypeOK, NEW e \in Envs, LeaveAt(e), End(e), UNCHANGED ns,
         NEW r \in Records, Persist(e, r),
         NotAfter(cached[e].life, r.life),
         r.life = "gone" => cached[e].life # "live" /\ ~Backed(e, r.target),
         r.life = "new" => r.target = None,
         cached[e].life \in Leaving => r.target = env[e].target
  PROVE  LeaveAt(e)'
<1>1. pc'[e] = "idle" /\ env'[e] = r /\ lagging'[e] /\ UNCHANGED <<cached, ns>>
  BY DEF End, Goto, Persist, TypeOK
<1> QED
  BY <1>1 DEF LeaveAt, Aging, Paths, Targets, Releases, Handles, NotAfter, Backed, LiveSteps,
     LeaveSteps

\* Somebody else than the end of a pass writes e.
LEMMA LeaveOutside ==
  ASSUME TypeOK, NEW e \in Envs, LeaveAt(e), UNCHANGED <<ns, handle, original, local>>,
         NEW l \in Lives, Persist(e, [env[e] EXCEPT !.life = l]),
         NotAfter(env[e].life, l),
         l = "gone" => env[e].life \in {"new", "gone"},
         outdated'[e] \/ pc'[e] = "idle",
         UNCHANGED pc \/ (pc[e] = "reconcile" /\ Goto(e, "patch"))
  PROVE  LeaveAt(e)'
<1>1. /\ env'[e].life = l /\ env'[e].target = env[e].target /\ lagging'[e]
      /\ UNCHANGED <<cached, ns, handle, original, local>>
  BY DEF Persist, TypeOK, Records
<1>2. \/ pc'[e] = pc[e]
      \/ pc[e] = "reconcile" /\ pc'[e] = "patch" /\ local[e] = original[e]
  BY DEF Goto, TypeOK, LeaveAt, Aging
<1>3. Aging(e)'
  BY <1>1, <1>2 DEF LeaveAt, Aging, NotAfter
<1>4. Paths(e)' /\ Targets(e)'
  BY <1>1, <1>2 DEF LeaveAt, Aging, Paths, Targets, NotAfter, LiveSteps, LeaveSteps, Leaving
<1>5. Releases(e)' /\ Handles(e)'
  BY <1>1, <1>2, ConstantsAssumption DEF LeaveAt, Targets, Releases, Handles, Backed
<1> QED
  BY <1>3, <1>4, <1>5 DEF LeaveAt

LEMMA LeaveMerged ==
  ASSUME TypeOK, NEW e \in Envs, LeaveAt(e), pc[e] = "patch", Locked(e) => ~outdated[e]
  PROVE  /\ Merged(e).life = env[e].life
         /\ Merged(e).target = env[e].target \/ env[e].life = "live"
<1>1. local[e] \in Records /\ env[e] \in Records
  BY DEF TypeOK
<1>2. Merged(e).life = env[e].life
  BY <1>1 DEF Merged, Records
<1>3. CASE local[e].target = original[e].target
  BY <1>1, <1>2, <1>3 DEF Merged, Records
<1>4. CASE local[e].target # original[e].target
  BY <1>2, <1>4 DEF Locked, LeaveAt, Aging, Targets
<1> QED
  BY <1>3, <1>4

LEMMA LeaveStep ==
  ASSUME TypeOK, NEW e \in Envs, LeaveAt(e), EnvStep(e)
  PROVE  LeaveAt(e)'
<1>0. /\ local[e] \in Records /\ env[e] \in Records /\ cached[e] \in Records
      /\ original[e] \in Records
  BY DEF TypeOK
<1>1. CASE Begin(e)
  <2>1. /\ original'[e] = cached[e] /\ local'[e] = cached[e] /\ outdated'[e] = lagging[e]
        /\ UNCHANGED <<env, cached, lagging, ns>>
        /\ pc'[e] \in {"dispose", "adopt", "allocate", "reconcile"}
        /\ pc'[e] = "dispose" => cached[e].life = "deleting"
        /\ pc'[e] = "adopt" => cached[e].life = "new"
        /\ pc'[e] \in {"allocate", "reconcile"} => cached[e].life = "live"
    BY <1>1 DEF Begin, Goto, TypeOK, envVars, nsVars
  <2> QED
    BY <1>0, <2>1 DEF LeaveAt, Aging, Paths, Targets, Releases, Handles, NotAfter, Backed,
       LiveSteps, LeaveSteps, Records, Lives
<1>2. CASE AddFinalizer(e)
  <2> DEFINE r == [env[e] EXCEPT !.life = "live"]
  <2>1. r \in Records /\ r.life = "live" /\ r.target = env[e].target
    BY <1>0, LifeType DEF Records, Lives
  <2>2. End(e) /\ UNCHANGED ns /\ ((env[e].life = "new" /\ Persist(e, r)) \/ UNCHANGED envVars)
    BY <1>2 DEF AddFinalizer, nsVars
  <2>3. env[e].life = "new" => NotAfter(cached[e].life, "live") /\ cached[e].life \notin Leaving
    BY DEF LeaveAt, Aging, NotAfter, Leaving
  <2> HIDE DEF r
  <2> QED
    BY <2>1, <2>2, <2>3, LeaveEnd, LeaveEndPersist
<1>3. CASE RemoveFinalizer(e)
  <2> DEFINE r == [env[e] EXCEPT !.life = "gone"]
  <2>1. r \in Records /\ r.life = "gone" /\ r.target = env[e].target
    BY <1>0, LifeType DEF Records, Lives
  <2>2. End(e) /\ UNCHANGED ns /\ ((env[e].life = "deleting" /\ Persist(e, r)) \/ UNCHANGED envVars)
    BY <1>3 DEF RemoveFinalizer, nsVars
  <2>3. /\ NotAfter(cached[e].life, "gone") /\ cached[e].life # "live"
        /\ ~Backed(e, env[e].target)
    BY <1>0, <1>3 DEF RemoveFinalizer, LeaveAt, Aging, Paths, Targets, Releases, NotAfter,
       LeaveSteps, Leaving, Records, Lives
  <2> HIDE DEF r
  <2> QED
    BY <2>1, <2>2, <2>3, LeaveEnd, LeaveEndPersist
<1>4. CASE Abort(e)
  BY <1>4, LeaveEnd DEF Abort, nsVars
<1>5. CASE Expire(e)
  <2>1. CASE env[e].life = "live"
    <3>1. outdated'[e] /\ NotAfter(env[e].life, "deleting") /\ "deleting" \in Lives
      BY <1>5, <2>1 DEF Expire, TypeOK, NotAfter, Lives
    <3> QED
      BY <1>5, <2>1, <3>1, LeaveOutside DEF Expire, nsVars
  <2>2. CASE env[e].life # "live"
    <3>1. Continue(e, "patch") /\ UNCHANGED envVars /\ TakesNone(e) /\ pc[e] \in LiveSteps
      BY <1>5, <2>2 DEF Expire, Continue, nsVars, TakesNone, Backed, BackedNext, LiveSteps
    <3>2. \E s \in LiveSteps \cup LeaveSteps \cup {"patch"} : Advances(e, s)
      BY <3>1, ContinueAdvances DEF LiveSteps, LeaveSteps
    <3> QED
      BY <3>2, LeavePass
  <2> QED
    BY <2>1, <2>2
<1>6. CASE PassStep(e)
  BY <1>6, PassAdvances, LeavePass
<1>7. CASE PatchStatus(e)
  <2>1. pc[e] = "patch" /\ End(e) /\ UNCHANGED ns
    BY <1>7 DEF PatchStatus, nsVars
  <2>2. CASE UNCHANGED envVars
    BY <2>1, <2>2, LeaveEnd
  <2>3. CASE (Locked(e) => ~outdated[e]) /\ env[e].life # "gone" /\ Persist(e, Merged(e))
    <3> DEFINE r == Merged(e)
    <3>1. r \in Records /\ r.life = env[e].life /\ (r.target = env[e].target \/ env[e].life = "live")
      BY <2>1, <2>3, MergedType, LeaveMerged
    <3>2. Persist(e, r)
      BY <2>3
    <3>3. NotAfter(cached[e].life, env[e].life) /\ (env[e].life = "live" => cached[e].life \notin Leaving)
      BY DEF LeaveAt, Aging, NotAfter, Leaving
    <3> HIDE DEF r
    <3> QED
      BY <2>1, <2>3, <3>1, <3>2, <3>3, LeaveEndPersist DEF LeaveAt, Targets
  <2> QED
    BY <1>7, <2>2, <2>3 DEF PatchStatus
<1>8. CASE SyncEnv(e)
  <2>1. /\ cached'[e] = env[e] /\ ~lagging'[e]
        /\ UNCHANGED <<env, pc, original, local, outdated, ns, handle>>
    BY <1>8 DEF SyncEnv, TypeOK, workerVars, nsVars
  <2> QED
    BY <1>0, <2>1 DEF LeaveAt, Aging, Paths, Targets, Releases, Handles, NotAfter, Backed,
       Leaving, Records, Lives
<1>9. CASE UserDelete(e)
  <2>1. PersistOutside(e, [env[e] EXCEPT !.life = IF env[e].life = "new" THEN "gone" ELSE "deleting"])
    BY <1>9 DEF UserDelete
  <2>2. env[e].life \in {"new", "live"}
    BY <1>9 DEF UserDelete
  <2>3. /\ NotAfter(env[e].life, IF env[e].life = "new" THEN "gone" ELSE "deleting")
        /\ (IF env[e].life = "new" THEN "gone" ELSE "deleting") \in Lives
    BY <2>2 DEF NotAfter, Lives
  <2>4. outdated'[e] \/ pc'[e] = "idle"
    BY <2>1 DEF PersistOutside, TypeOK
  <2> QED
    BY <1>9, <2>1, <2>2, <2>3, <2>4, LeaveOutside DEF UserDelete, PersistOutside, nsVars
<1>10. CASE SpecEdit(e)
  <2>1. [env[e] EXCEPT !.life = env[e].life] = env[e] /\ NotAfter(env[e].life, env[e].life)
    BY <1>0 DEF NotAfter, Records, Lives
  <2>2. outdated'[e] \/ pc'[e] = "idle"
    BY <1>10 DEF SpecEdit, PersistOutside, TypeOK
  <2>3. env[e].life \in Lives /\ env[e].life # "gone"
    BY <1>0, <1>10 DEF SpecEdit, Records
  <2> QED
    BY <1>10, <2>1, <2>2, <2>3, LeaveOutside DEF SpecEdit, PersistOutside, nsVars
<1> QED
  BY <1>1, <1>2, <1>3, <1>4, <1>5, <1>6, <1>7, <1>8, <1>9, <1>10 DEF EnvStep, Reconcile, PassStep

LEMMA LeaveInit == Init => LeaveInv
<1> SUFFICES ASSUME Init PROVE LeaveInv
  OBVIOUS
<1>1. ASSUME NEW e \in Envs PROVE LeaveAt(e)
  BY ConstantsAssumption DEF Init, LeaveAt, Aging, Paths, Targets, Releases, Handles, NotAfter,
     Fresh, LiveSteps, LeaveSteps, Leaving
<1> QED
  BY <1>1, InitType DEF LeaveInv

LEMMA LeaveNext == LeaveInv /\ [Next]_vars => LeaveInv'
<1> SUFFICES ASSUME LeaveInv, [Next]_vars PROVE LeaveInv'
  OBVIOUS
<1>1. TypeOK'
  BY NextType DEF LeaveInv
<1>2. ASSUME NEW e \in Envs PROVE LeaveAt(e)'
  <2>0. TypeOK /\ LeaveAt(e)
    BY DEF LeaveInv
  <2>1. CASE UNCHANGED vars
    <3>1. UNCHANGED ns /\ handle'[e] = handle[e] /\ SameAt(e) /\ usage'[e] = usage[e]
      BY <2>1 DEF SameAt, vars, envVars, workerVars, nsVars
    <3> QED
      BY <2>0, <3>1, UnwrittenApart, LeaveSame
  <2>2. ASSUME NEW n \in Names, NamespaceStep(n) PROVE LeaveAt(e)'
    BY <2>0, <2>2, NamespaceStepsApart, LeaveSame
  <2>3. ASSUME NEW f \in Envs, EnvStep(f), f # e PROVE LeaveAt(e)'
    BY <2>0, <2>3, OthersApart, LeaveSame
  <2>4. CASE EnvStep(e)
    BY <2>0, <2>4, LeaveStep
  <2> QED
    BY <2>1, <2>2, <2>3, <2>4 DEF Next
<1> QED
  BY <1>1, <1>2 DEF LeaveInv

\* The inductive invariant behind a departure: the copies of an environment
\* age in order, and a copy that shows its deletion shows its last target.
THEOREM LeaveInvariant == Spec => []LeaveInv
  BY LeaveInit, LeaveNext, PTL DEF Spec

\* An environment that left did not leave its namespace behind: the target is
\* released by the deletion of the namespace, or was not the environment's.
\* Users, administrators, template errors and crashes may do what they like.
THEOREM TargetIsReleased == Spec => []TargetReleased
<1>1. LeaveInv => TargetReleased
  <2> SUFFICES ASSUME LeaveInv, NEW e \in Envs, env[e].life = "gone", env[e].target # None
               PROVE  ns[env[e].target] # [owner |-> e, terminating |-> FALSE]
    BY DEF TargetReleased
  <2>1. env[e].target \in Names
    BY DEF LeaveInv, TypeOK, Records
  <2> QED
    BY <2>1 DEF LeaveInv, LeaveAt, Releases, Backed
<1> QED
  BY <1>1, LeaveInvariant, PTL

\* The namespace that a step of a deletion changes is the one it read.
LEMMA DeletesWhatItRead ==
  ASSUME TypeOK, NEW e \in Envs, pc[e] = "deleteNamespace", pc'[e] = "removeFinalizer",
         [Next]_vars, NEW n \in Names, ns'[n] # ns[n]
  PROVE  handle[e] /\ n = local[e].target
<1>1. ASSUME SameAt(e) PROVE FALSE
  BY <1>1 DEF SameAt
<1>2. EnvStep(e)
  <2>1. ASSUME NEW f \in Envs, EnvStep(f), f # e PROVE FALSE
    BY <1>1, <2>1, OtherSteps
  <2>2. ASSUME NEW m \in Names, NamespaceStep(m) PROVE FALSE
    BY <1>1, <2>2, NamespaceSteps
  <2>3. CASE UNCHANGED vars
    BY <2>3 DEF vars, workerVars
  <2> QED
    BY <2>1, <2>2, <2>3 DEF Next
<1>3. DeleteNamespace(e)
  BY <1>2
  DEF EnvStep, Reconcile, Begin, AddFinalizer, AllocateNamespace, GetNamespace, CreateNamespace,
      RecheckNamespace, SubmitWork, GetForDeletion, CleanupPending, CleanupDone, RemoveFinalizer,
      PatchStatus, TemplateError, Expire, CleanupSkipped, Abort, SyncEnv, UserDelete, SpecEdit,
      PersistOutside, workerVars, nsVars
<1>4. Unmodified(e)
  BY <1>3 DEF DeleteNamespace, nsVars
<1>5. ns' = [ns EXCEPT ![local[e].target] = [ns[local[e].target] EXCEPT !.terminating = TRUE]]
  BY <1>3, <1>4 DEF DeleteNamespace, WriteNamespace
<1> QED
  BY <1>4, <1>5 DEF Unmodified, TypeOK

LEMMA DeletesTarget ==
  ASSUME LeaveInv, [Next]_vars, NEW e \in Envs, pc[e] = "deleteNamespace",
         pc'[e] = "removeFinalizer", NEW n \in Names, ns'[n] # ns[n]
  PROVE  ns[n].owner = e /\ env[e].target = n
<1>0. TypeOK /\ LeaveAt(e)
  BY DEF LeaveInv
<1>1. handle[e] /\ n = local[e].target
  BY <1>0, DeletesWhatItRead
<1>2. local[e] = original[e] /\ original[e].life \in Leaving
  BY <1>0 DEF LeaveAt, Aging, Paths, LeaveSteps, Leaving
<1> QED
  BY <1>0, <1>1, <1>2 DEF LeaveAt, Targets, Handles

\* A namespace that the operator deletes is the persisted target of the
\* environment that deletes it, and its own: the preconditions of Delete make
\* that true however namespaces are relabelled, deleted and created again
\* between the read and the call, and whatever becomes of the template.
THEOREM DeletesItsOwn ==
  Spec => [][\A e \in Envs : pc[e] = "deleteNamespace" =>
                \A n \in Names : pc'[e] = "removeFinalizer" /\ ns'[n] # ns[n] =>
                    ns[n].owner = e /\ env[e].target = n]_vars
<1>1. LeaveInv /\ [Next]_vars =>
        [\A e \in Envs : pc[e] = "deleteNamespace" =>
            \A n \in Names : pc'[e] = "removeFinalizer" /\ ns'[n] # ns[n] =>
                ns[n].owner = e /\ env[e].target = n]_vars
  BY DeletesTarget
<1> QED
  BY <1>1, LeaveInvariant, PTL DEF Spec

-----------------------------------------------------------------------------
(***************************************************************************)
(* Nor does it owe anything, unless a template error lets it skip the      *)
(* cleanup.  A cleanup checkpoint, persisted or in any copy, says that     *)
(* nothing was used since, because an environment that uses its namespace  *)
(* is live to the pass that does; and who deletes the namespace, or goes   *)
(* without, has read such a checkpoint or was never bound.  A checkpoint   *)
(* may even be lost: a patch made from an older copy replaces the whole    *)
(* list of conditions.  It is then earned again.                           *)
(***************************************************************************)

\* Some copy of e has the checkpoint.
Flagged(e) ==
    \/ env[e].cleanup
    \/ cached[e].cleanup
    \/ pc[e] # "idle" /\ original[e].cleanup
    \/ pc[e] = "patch" /\ local[e].cleanup

Flags(e) ==
    Flagged(e) =>
        /\ usage[e] # "used"
        /\ cached[e].life \in Leaving
        /\ pc[e] # "idle" => original[e].life = "deleting"

\* The binding is frozen with the target, and nothing is used without it.
Bindings(e) ==
    /\ usage[e] = "used" => env[e].bound
    /\ cached[e].life \in Leaving => cached[e].bound = env[e].bound
    /\ pc[e] # "idle" /\ original[e].life \in Leaving => original[e].bound = env[e].bound
    /\ pc[e] = "patch" /\ local[e].bound # original[e].bound => original[e].life = "live"

Deletions(e) ==
    /\ pc[e] = "removeFinalizer" => (local[e].bound => local[e].cleanup)
    /\ pc[e] = "deleteNamespace" => local[e].cleanup
    /\ env[e].life = "gone" => usage[e] # "used"

CleanAt(e) == Flags(e) /\ Bindings(e) /\ Deletions(e)

CleanInv == LockInv /\ LeaveInv /\ \A e \in Envs : CleanAt(e)

LEMMA CleanSame ==
  ASSUME LockInv, NEW e \in Envs, CleanAt(e), Apart(e)
  PROVE  CleanAt(e)'
<1>1. Flags(e)' /\ Bindings(e)'
  BY DEF CleanAt, Apart, SameAt, Flags, Flagged, Bindings
<1>2. Deletions(e)'
  BY DEF CleanAt, Apart, SameAt, Deletions
<1> QED
  BY <1>1, <1>2 DEF CleanAt

\* How a step of a pass uses the namespace, and where it may go.
LEMMA PassUsage ==
  ASSUME TypeOK, NEW e \in Envs, PassStep(e)
  PROVE  \/ usage'[e] = usage[e]
         \/ pc[e] = "work" /\ local'[e].cleanup = local[e].cleanup
         \/ CleanupDone(e) /\ usage'[e] = "cleaned"
<1>1. CASE SubmitWork(e)
  <2>1. /\ pc[e] = "work"
        /\ local' = local \/ local' = [local EXCEPT ![e] = [local[e] EXCEPT !.ready = "failed"]]
    BY <1>1 DEF SubmitWork, Continue, SetFailed, Propose
  <2> QED
    BY <2>1 DEF TypeOK, Records
<1>2. CASE CleanupDone(e)
  BY <1>2 DEF CleanupDone, TypeOK
<1>3. CASE UNCHANGED usage
  BY <1>3
<1> QED
  BY <1>1, <1>2, <1>3
  DEF PassStep, AllocateNamespace, TemplateError, GetNamespace, CreateNamespace,
      RecheckNamespace, GetForDeletion, CleanupPending, CleanupSkipped, DeleteNamespace

LEMMA PassLeaves ==
  ASSUME LockInv, NEW e \in Envs, CleanAt(e), PassStep(e)
  PROVE  /\ pc'[e] = "removeFinalizer" => (local[e].bound => local[e].cleanup)
         /\ pc'[e] = "deleteNamespace" => local[e].cleanup
<1>0. TypeOK /\ LockedAt(e) /\ local[e] \in Records
  BY DEF LockInv, TypeOK
<1>1. CASE GetForDeletion(e)
  <2>1. CASE Releasable(e) /\ pc'[e] = "removeFinalizer"
    BY <1>0, <2>1 DEF Releasable, LockedAt, HasTarget
  <2>2. CASE pc'[e] = AfterCleanup(e)
    BY <2>2 DEF AfterCleanup
  <2>3. CASE pc'[e] = "patch"
    BY <2>3
  <2> QED
    BY <1>0, <1>1, <2>1, <2>2, <2>3
    DEF GetForDeletion, Continue, SetFailed, Propose, Goto, TypeOK
<1>2. CASE DeleteNamespace(e)
  BY <1>0, <1>2 DEF DeleteNamespace, CleanAt, Deletions, Continue, Goto, TypeOK
<1>3. ASSUME ~GetForDeletion(e), ~DeleteNamespace(e)
      PROVE  pc'[e] \notin {"removeFinalizer", "deleteNamespace"}
  BY <1>0, <1>3
  DEF PassStep, AllocateNamespace, TemplateError, GetNamespace, CreateNamespace,
      RecheckNamespace, SubmitWork, CleanupPending, CleanupDone, CleanupSkipped, Examine,
      UseNamespace, RejectNamespace, SetFailed, Continue, Propose, Goto, TypeOK
<1> QED
  BY <1>1, <1>2, <1>3

LEMMA CleanPass ==
  ASSUME "TemplateError" \notin Interference, LockInv, NEW e \in Envs, LeaveAt(e), CleanAt(e),
         PassStep(e)
  PROVE  CleanAt(e)'
<1>0. /\ TypeOK /\ LockedAt(e) /\ local[e] \in Records /\ env[e] \in Records
      /\ original[e] \in Records /\ cached[e] \in Records
  BY DEF LockInv, TypeOK
<1>1. PICK s \in LiveSteps \cup LeaveSteps \cup {"patch"} : Advances(e, s)
  BY <1>0, PassAdvances
<1>2. /\ pc[e] \notin {"idle", "patch"} /\ pc'[e] = s /\ s # "idle"
      /\ UNCHANGED <<env, cached, original>>
      /\ s # "patch" => UNCHANGED local
  BY <1>0, <1>1 DEF Advances, TypeOK, envVars, LiveSteps, LeaveSteps
<1>3. local[e] = original[e]
  BY <1>2 DEF LeaveAt, Aging
<1>4. local'[e].cleanup = local[e].cleanup \/ CleanupDone(e)
  BY <1>1 DEF Advances, CleanupSkipped
<1>5. CleanupDone(e) => /\ pc[e] = "cleanup" /\ original[e].life = "deleting"
                        /\ cached[e].life \in Leaving
                        /\ usage'[e] # "used"
  <2>1. CleanupDone(e) => pc[e] = "cleanup" /\ original[e].life = "deleting"
    BY DEF CleanupDone, LeaveAt, Paths, LeaveSteps
  <2>2. original[e].life = "deleting" => cached[e].life \in Leaving /\ original[e].bound = env[e].bound
    BY <1>2 DEF LeaveAt, Aging, NotAfter, CleanAt, Bindings, Leaving
  <2>3. CleanupDone(e) => usage'[e] = IF local[e].bound THEN "cleaned" ELSE usage[e]
    BY <1>0 DEF CleanupDone, TypeOK
  <2> QED
    BY <1>3, <2>1, <2>2, <2>3 DEF CleanAt, Bindings
<1>6. usage'[e] = "used" => usage[e] = "used" \/ (pc[e] = "work" /\ local'[e].cleanup = local[e].cleanup)
  BY <1>0, PassUsage
<1>7. pc[e] = "work" => original[e].life = "live" /\ env[e].bound
  BY <1>0, <1>2, <1>3 DEF LeaveAt, Paths, LiveSteps, LockedAt, Stages, Copies, Behind
<1>8. Flags(e)'
  <2>1. CASE CleanupDone(e)
    BY <1>2, <1>5, <2>1 DEF Flags
  <2>2. CASE ~CleanupDone(e)
    <3>1. Flagged(e)' => Flagged(e)
      BY <1>2, <1>3, <1>4, <2>2 DEF Flagged
    <3> QED
      BY <1>2, <1>6, <1>7, <3>1 DEF Flags, CleanAt
  <2> QED
    BY <2>1, <2>2
<1>9. Bindings(e)'
  <2>1. pc'[e] = "patch" /\ local'[e].bound # original[e].bound => original[e].life = "live"
    BY <1>1, <1>3 DEF Advances, LeaveAt, Paths, LiveSteps
  <2> QED
    BY <1>2, <1>6, <1>7, <2>1 DEF Bindings, CleanAt
<1>10. Deletions(e)'
  <2>1. pc'[e] \in {"removeFinalizer", "deleteNamespace"} => local'[e] = local[e]
    BY <1>2
  <2>2. env[e].life = "gone" => pc[e] # "work"
    BY <1>2, <1>7 DEF LeaveAt, Aging
  <2> QED
    BY <1>2, <1>6, <2>1, <2>2, PassLeaves DEF Deletions, CleanAt
<1> QED
  BY <1>8, <1>9, <1>10 DEF CleanAt

LEMMA CleanEnd ==
  ASSUME TypeOK, NEW e \in Envs, CleanAt(e), End(e), UNCHANGED <<envVars, usage>>
  PROVE  CleanAt(e)'
<1>1. pc'[e] = "idle" /\ UNCHANGED <<env, cached, usage>>
  BY DEF End, Goto, TypeOK, envVars
<1> QED
  BY <1>1 DEF CleanAt, Flags, Flagged, Bindings, Deletions

LEMMA CleanEndPersist ==
  ASSUME TypeOK, NEW e \in Envs, CleanAt(e), End(e), UNCHANGED usage,
         NEW r \in Records, Persist(e, r),
         r.cleanup => Flagged(e),
         env[e].bound => r.bound,
         cached[e].life \in Leaving => r.bound = env[e].bound,
         r.life = "gone" => usage[e] # "used"
  PROVE  CleanAt(e)'
<1>1. pc'[e] = "idle" /\ env'[e] = r /\ UNCHANGED <<cached, usage>>
  BY DEF End, Goto, Persist, TypeOK
<1>2. Flagged(e)' => Flagged(e)
  BY <1>1 DEF Flagged
<1> QED
  BY <1>1, <1>2 DEF CleanAt, Flags, Bindings, Deletions

\* Somebody else than the end of a pass moves the lifecycle of e on.
LEMMA CleanOutside ==
  ASSUME LockInv, NEW e \in Envs, LeaveAt(e), CleanAt(e),
         UNCHANGED <<original, local, usage>>,
         NEW l \in Lives, Persist(e, [env[e] EXCEPT !.life = l]),
         l = "gone" => env[e].life = "new",
         UNCHANGED pc \/ (pc[e] = "reconcile" /\ Goto(e, "patch"))
  PROVE  CleanAt(e)'
<1>0. TypeOK /\ LockedAt(e)
  BY DEF LockInv
<1>1. /\ env'[e].life = l /\ env'[e].bound = env[e].bound /\ env'[e].cleanup = env[e].cleanup
      /\ UNCHANGED <<cached, original, local, usage>>
  BY <1>0 DEF Persist, TypeOK, Records
<1>2. \/ pc'[e] = pc[e]
      \/ pc[e] = "reconcile" /\ pc'[e] = "patch" /\ local[e] = original[e]
  BY <1>0 DEF Goto, TypeOK, LeaveAt, Aging
<1>3. Flagged(e)' => Flagged(e)
  BY <1>1, <1>2 DEF Flagged
<1>4. Flags(e)' /\ Bindings(e)'
  BY <1>1, <1>2, <1>3 DEF CleanAt, Flags, Bindings
<1>5. l = "gone" => usage[e] # "used"
  BY <1>0 DEF CleanAt, Bindings, LockedAt, HasTarget, LeaveAt, Targets
<1>6. Deletions(e)'
  BY <1>1, <1>2, <1>5 DEF CleanAt, Deletions
<1> QED
  BY <1>4, <1>6 DEF CleanAt

\* What a status patch that is accepted can do to the conditions.
LEMMA CleanMerged ==
  ASSUME LockInv, NEW e \in Envs, LeaveAt(e), CleanAt(e), pc[e] = "patch", Locked(e) => ~outdated[e]
  PROVE  /\ Merged(e).cleanup => Flagged(e)
         /\ cached[e].life \in Leaving => Merged(e).bound = env[e].bound
<1>0. /\ TypeOK /\ LockedAt(e) /\ local[e] \in Records /\ env[e] \in Records
      /\ original[e] \in Records
  BY DEF LockInv, TypeOK
<1>1. /\ Merged(e).cleanup \in {env[e].cleanup, local[e].cleanup}
      /\ \/ Merged(e).bound = env[e].bound
         \/ Merged(e).bound = local[e].bound /\ Conditions(local[e]) # Conditions(original[e])
  BY <1>0 DEF Merged, Records
<1>2. Merged(e).cleanup => Flagged(e)
  BY <1>1 DEF Flagged
<1>3. ASSUME cached[e].life \in Leaving, Conditions(local[e]) # Conditions(original[e])
      PROVE  local[e].bound = env[e].bound
  <2>1. CASE Locked(e)
    <3>1. original[e] = env[e]
      BY <2>1 DEF LeaveAt, Aging
    <3>2. original[e].life # "live"
      BY <1>3, <3>1 DEF LeaveAt, Aging, NotAfter, Leaving
    <3> QED
      BY <3>1, <3>2 DEF CleanAt, Bindings
  <2>2. CASE ~Locked(e)
    <3>1. local[e].bound = original[e].bound /\ local[e].ready # original[e].ready
      BY <1>3, <2>2 DEF Locked, Conditions
    <3>2. original[e].bound /\ env[e].bound
      BY <1>0, <3>1 DEF LockedAt, Proposal, Copies, Behind
    <3> QED
      BY <1>0, <3>1, <3>2 DEF Records
  <2> QED
    BY <2>1, <2>2
<1> QED
  BY <1>1, <1>2, <1>3

LEMMA CleanStep ==
  ASSUME "TemplateError" \notin Interference, LockInv, NEW e \in Envs, LeaveAt(e), CleanAt(e),
         EnvStep(e)
  PROVE  CleanAt(e)'
<1>0. /\ local[e] \in Records /\ env[e] \in Records /\ cached[e] \in Records
      /\ original[e] \in Records /\ TypeOK /\ LockedAt(e)
  BY DEF LockInv, TypeOK
<1>1. CASE Begin(e)
  <2>1. /\ pc[e] = "idle" /\ original'[e] = cached[e] /\ local'[e] = cached[e]
        /\ UNCHANGED <<env, cached, usage>>
        /\ pc'[e] \in {"dispose", "adopt", "allocate", "reconcile"}
        /\ cached[e].life # "gone"
        /\ cached[e].life = "deleting" <=> pc'[e] = "dispose"
    BY <1>0, <1>1 DEF Begin, Goto, TypeOK, envVars, nsVars
  <2>2. Flagged(e)' => Flagged(e)
    BY <2>1 DEF Flagged
  <2> QED
    BY <2>1, <2>2 DEF CleanAt, Flags, Bindings, Deletions, Leaving
<1>2. CASE AddFinalizer(e)
  <2> DEFINE r == [env[e] EXCEPT !.life = "live"]
  <2>1. /\ r \in Records /\ r.life = "live" /\ r.bound = env[e].bound
        /\ r.cleanup = env[e].cleanup
    BY <1>0, LifeType DEF Records, Lives
  <2>2. End(e) /\ UNCHANGED usage /\ (Persist(e, r) \/ UNCHANGED envVars)
    BY <1>2 DEF AddFinalizer
  <2>3. r.cleanup => Flagged(e)
    BY <2>1 DEF Flagged
  <2> HIDE DEF r
  <2> QED
    BY <1>0, <2>1, <2>2, <2>3, CleanEnd, CleanEndPersist
<1>3. CASE RemoveFinalizer(e)
  <2> DEFINE r == [env[e] EXCEPT !.life = "gone"]
  <2>1. /\ r \in Records /\ r.bound = env[e].bound /\ r.cleanup = env[e].cleanup
    BY <1>0, LifeType DEF Records, Lives
  <2>2. End(e) /\ UNCHANGED usage /\ (Persist(e, r) \/ UNCHANGED envVars)
    BY <1>3 DEF RemoveFinalizer
  <2>3. r.cleanup => Flagged(e)
    BY <2>1 DEF Flagged
  <2>4. usage[e] # "used"
    <3>1. /\ pc[e] = "removeFinalizer" /\ local[e] = original[e]
          /\ original[e].life \in Leaving
      BY <1>3 DEF RemoveFinalizer, LeaveAt, Aging, Paths, LeaveSteps, Leaving
    <3>2. env[e].bound => Flagged(e)
      BY <3>1 DEF CleanAt, Bindings, Deletions, Flagged
    <3> QED
      BY <3>2 DEF CleanAt, Bindings, Flags
  <2> HIDE DEF r
  <2> QED
    BY <1>0, <2>1, <2>2, <2>3, <2>4, CleanEnd, CleanEndPersist
<1>4. CASE Abort(e)
  BY <1>0, <1>4, CleanEnd DEF Abort
<1>5. CASE Expire(e)
  <2>0. UNCHANGED <<original, local, usage>> /\ pc[e] = "reconcile" /\ Goto(e, "patch")
    BY <1>5 DEF Expire, nsVars
  <2>1. CASE env[e].life = "live"
    BY <1>5, <2>0, <2>1, CleanOutside DEF Expire, Lives
  <2>2. CASE env[e].life # "live"
    <3>1. /\ pc'[e] = "patch" /\ local[e] = original[e] /\ original[e].life = "live"
          /\ UNCHANGED <<env, cached, original, local, usage>>
      BY <1>0, <1>5, <2>0, <2>2
      DEF Expire, Goto, TypeOK, envVars, LeaveAt, Aging, Paths, LiveSteps
    <3>2. Flagged(e)' => Flagged(e)
      BY <2>0, <3>1 DEF Flagged
    <3> QED
      BY <2>0, <3>1, <3>2 DEF CleanAt, Flags, Bindings, Deletions
  <2> QED
    BY <2>1, <2>2
<1>6. CASE PassStep(e)
  BY <1>6, CleanPass
<1>7. CASE PatchStatus(e)
  <2>1. pc[e] = "patch" /\ End(e) /\ UNCHANGED usage
    BY <1>7 DEF PatchStatus
  <2>2. CASE UNCHANGED envVars
    BY <1>0, <2>1, <2>2, CleanEnd
  <2>3. CASE (Locked(e) => ~outdated[e]) /\ env[e].life # "gone" /\ Persist(e, Merged(e))
    <3> DEFINE r == Merged(e)
    <3>1. /\ r \in Records /\ r.life = env[e].life
          /\ env[e].bound => r.bound
          /\ r.cleanup => Flagged(e)
          /\ cached[e].life \in Leaving => r.bound = env[e].bound
      BY <1>0, <2>1, <2>3, MergedType, LeaveMerged, LockedMerged, CleanMerged
    <3>2. Persist(e, r)
      BY <2>3
    <3> HIDE DEF r
    <3> QED
      BY <1>0, <2>1, <2>3, <3>1, <3>2, CleanEndPersist
  <2> QED
    BY <1>7, <2>2, <2>3 DEF PatchStatus
<1>8. CASE SyncEnv(e)
  <2>1. cached'[e] = env[e] /\ UNCHANGED <<env, pc, original, local, usage>>
    BY <1>0, <1>8 DEF SyncEnv, TypeOK, workerVars, nsVars
  <2>2. Flagged(e)' => Flagged(e)
    BY <2>1 DEF Flagged
  <2>3. cached[e].life \in Leaving => env[e].life \in Leaving
    BY DEF LeaveAt, Aging, NotAfter, Leaving
  <2> QED
    BY <2>1, <2>2, <2>3 DEF CleanAt, Flags, Bindings, Deletions
<1>9. CASE UserDelete(e)
  <2>1. Persist(e, [env[e] EXCEPT !.life = IF env[e].life = "new" THEN "gone" ELSE "deleting"])
    BY <1>9 DEF UserDelete, PersistOutside
  <2>2. UNCHANGED <<pc, original, local, usage>>
    BY <1>9 DEF UserDelete, PersistOutside
  <2>3. /\ (IF env[e].life = "new" THEN "gone" ELSE "deleting") \in Lives
        /\ (IF env[e].life = "new" THEN "gone" ELSE "deleting") = "gone" => env[e].life = "new"
    BY DEF Lives
  <2> QED
    BY <2>1, <2>2, <2>3, CleanOutside
<1>10. CASE SpecEdit(e)
  <2>1. UNCHANGED <<env, cached, pc, original, local, usage>>
    BY <1>0, <1>10 DEF SpecEdit, PersistOutside, Persist, TypeOK
  <2>2. Flagged(e)' => Flagged(e)
    BY <2>1 DEF Flagged
  <2> QED
    BY <2>1, <2>2 DEF CleanAt, Flags, Bindings, Deletions
<1> QED
  BY <1>1, <1>2, <1>3, <1>4, <1>5, <1>6, <1>7, <1>8, <1>9, <1>10 DEF EnvStep, Reconcile, PassStep

LEMMA CleanInit == Init => CleanInv
<1> SUFFICES ASSUME Init PROVE CleanInv
  OBVIOUS
<1>1. ASSUME NEW e \in Envs PROVE CleanAt(e)
  BY DEF Init, CleanAt, Flags, Flagged, Bindings, Deletions, Fresh, Leaving
<1> QED
  BY <1>1, LockedInit, LeaveInit DEF CleanInv

LEMMA CleanNext ==
  ASSUME "TemplateError" \notin Interference, CleanInv, [Next]_vars
  PROVE  CleanInv'
<1>1. LockInv' /\ LeaveInv'
  BY LockedNext, LeaveNext DEF CleanInv
<1>2. ASSUME NEW e \in Envs PROVE CleanAt(e)'
  <2>0. TypeOK /\ LockInv /\ LeaveAt(e) /\ CleanAt(e)
    BY DEF CleanInv, LeaveInv
  <2>1. CASE UNCHANGED vars
    <3>1. UNCHANGED ns /\ handle'[e] = handle[e] /\ SameAt(e) /\ usage'[e] = usage[e]
      BY <2>1 DEF SameAt, vars, envVars, workerVars, nsVars
    <3> QED
      BY <2>0, <3>1, UnwrittenApart, CleanSame
  <2>2. ASSUME NEW n \in Names, NamespaceStep(n) PROVE CleanAt(e)'
    BY <2>0, <2>2, NamespaceStepsApart, CleanSame
  <2>3. ASSUME NEW f \in Envs, EnvStep(f), f # e PROVE CleanAt(e)'
    BY <2>0, <2>3, OthersApart, CleanSame
  <2>4. CASE EnvStep(e)
    BY <2>0, <2>4, CleanStep
  <2> QED
    BY <2>1, <2>2, <2>3, <2>4 DEF Next
<1> QED
  BY <1>1, <1>2 DEF CleanInv

\* The inductive invariant behind the cleanup: who has a checkpoint in hand
\* knows that nothing was used since.
THEOREM CleanInvariant ==
  ASSUME "TemplateError" \notin Interference
  PROVE  Spec => []CleanInv
<1>1. CleanInv /\ [Next]_vars => CleanInv'
  BY CleanNext
<1> QED
  BY <1>1, CleanInit, PTL DEF Spec

\* An environment that left took its workloads and allocations with it,
\* whoever deletes or relabels its namespace in the meantime.
THEOREM NothingIsOwed ==
  ASSUME "TemplateError" \notin Interference
  PROVE  Spec => []NothingOwed
<1>1. CleanInv => NothingOwed
  BY DEF CleanInv, CleanAt, Deletions, NothingOwed
<1> QED
  BY <1>1, CleanInvariant, PTL

\* A namespace that the operator deletes, its own by DeletesItsOwn, holds
\* nothing that the environment still owes.
THEOREM DeletionsAreClean ==
  ASSUME "TemplateError" \notin Interference
  PROVE  Spec => DeletesOwnAndClean
<1>1. ASSUME CleanInv, [Next]_vars, NEW e \in Envs, pc[e] = "deleteNamespace",
             NEW n \in Names, pc'[e] = "removeFinalizer", ns'[n] # ns[n]
      PROVE  ns[n].owner = e /\ env[e].target = n /\ usage[e] # "used"
  <2>0. LeaveInv /\ LeaveAt(e) /\ CleanAt(e)
    BY <1>1 DEF CleanInv, LeaveInv
  <2>1. ns[n].owner = e /\ env[e].target = n
    BY <1>1, <2>0, DeletesTarget
  <2>2. Flagged(e)
    BY <1>1, <2>0 DEF CleanAt, Deletions, LeaveAt, Aging, Flagged
  <2> QED
    BY <2>0, <2>1, <2>2 DEF CleanAt, Flags
<1>2. CleanInv /\ [Next]_vars =>
        [\A e \in Envs : pc[e] = "deleteNamespace" =>
            \A n \in Names : pc'[e] = "removeFinalizer" /\ ns'[n] # ns[n] =>
                ns[n].owner = e /\ env[e].target = n /\ usage[e] # "used"]_vars
  BY <1>1
<1> QED
  BY <1>2, CleanInvariant, PTL DEF Spec, DeletesOwnAndClean

=============================================================================
