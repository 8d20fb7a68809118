----------------------- MODULE NamespaceBindingProofs -----------------------
(***************************************************************************)
(* Proofs about NamespaceBinding, for any number of environments, any      *)
(* candidates, any interference but the one each theorem excludes, and any *)
(* number of failures.                                                     *)
(***************************************************************************)
EXTENDS NamespaceBinding, TLAPS

-----------------------------------------------------------------------------
\* The operations that every step is made of keep the types.

LEMMA FreshType == Fresh \in Records
  BY ConstantsAssumption DEF Fresh, Records, Lives, Readies

LEMMA LifeType ==
  ASSUME NEW r \in Records, NEW l \in Lives
  PROVE  [r EXCEPT !.life = l] \in Records
  BY DEF Records

LEMMA TargetType ==
  ASSUME NEW r \in Records, NEW n \in Names \cup {None}
  PROVE  [r EXCEPT !.target = n] \in Records
  BY DEF Records

LEMMA ConditionsType ==
  ASSUME NEW r \in Records, NEW s \in Records
  PROVE  [r EXCEPT !.bound = s.bound, !.cleanup = s.cleanup, !.ready = s.ready] \in Records
  BY DEF Records

LEMMA NamespaceType ==
  ASSUME NEW r \in Namespaces
  PROVE  /\ [r EXCEPT !.terminating = TRUE] \in Namespaces
         /\ [r EXCEPT !.owner = Foreign] \in Namespaces
  BY DEF Namespaces

LEMMA EndType ==
  ASSUME TypeOK, NEW e \in Envs, End(e)
  PROVE  /\ pc' \in [Envs -> Steps]
         /\ original' \in [Envs -> Records]
         /\ local' \in [Envs -> Records]
         /\ outdated' \in [Envs -> BOOLEAN]
  BY FreshType DEF TypeOK, End, Goto, Steps

LEMMA PersistType ==
  ASSUME TypeOK, NEW e \in Envs, NEW r \in Records, Persist(e, r)
  PROVE  /\ env' \in [Envs -> Records]
         /\ cached' \in [Envs -> Records]
         /\ lagging' \in [Envs -> BOOLEAN]
  BY DEF TypeOK, Persist

LEMMA WriteNamespaceType ==
  ASSUME TypeOK, NEW n, NEW r, n \in Names => r \in Namespaces, WriteNamespace(n, r)
  PROVE  /\ ns' \in [Names -> Namespaces]
         /\ nsCache' \in [Names -> Namespaces]
         /\ handle' \in [Envs -> BOOLEAN]
  BY DEF TypeOK, WriteNamespace

LEMMA ContinueType ==
  ASSUME TypeOK, NEW e \in Envs, NEW s \in Steps, Continue(e, s)
  PROVE  /\ pc' \in [Envs -> Steps]
         /\ original' \in [Envs -> Records]
         /\ local' \in [Envs -> Records]
         /\ outdated' \in [Envs -> BOOLEAN]
  BY DEF TypeOK, Continue, Goto

LEMMA ProposeType ==
  ASSUME TypeOK, NEW e \in Envs, NEW r \in Records, Propose(e, r)
  PROVE  /\ pc' \in [Envs -> Steps]
         /\ original' \in [Envs -> Records]
         /\ local' \in [Envs -> Records]
         /\ outdated' \in [Envs -> BOOLEAN]
  BY DEF TypeOK, Propose, Goto, Steps

\* Every step a decision of the reconcile leads to is one of Continue, to a
\* step of the reconcile, and Propose, of a record.
Moves(e) ==
    \/ \E s \in Steps : Continue(e, s)
    \/ \E r \in Records : Propose(e, r)

LEMMA MovesType ==
  ASSUME TypeOK, NEW e \in Envs, Moves(e)
  PROVE  /\ pc' \in [Envs -> Steps]
         /\ original' \in [Envs -> Records]
         /\ local' \in [Envs -> Records]
         /\ outdated' \in [Envs -> BOOLEAN]
  BY ContinueType, ProposeType DEF Moves

LEMMA SetFailedMoves ==
  ASSUME TypeOK, NEW e \in Envs, NEW r \in Readies, SetFailed(e, r)
  PROVE  Moves(e)
<1>1. [local[e] EXCEPT !.ready = r] \in Records
  BY DEF TypeOK, Records
<1> QED
  BY <1>1 DEF SetFailed, Moves

LEMMA ExamineMoves ==
  ASSUME TypeOK, NEW e \in Envs, Examine(e)
  PROVE  Moves(e)
<1>1. CASE Continue(e, "patch") \/ Continue(e, "work") \/ Continue(e, "allocate")
  BY <1>1 DEF Moves, Steps
<1>2. CASE Propose(e, [local[e] EXCEPT !.bound = TRUE])
  <2>1. [local[e] EXCEPT !.bound = TRUE] \in Records
    BY DEF TypeOK, Records
  <2> QED
    BY <1>2, <2>1 DEF Moves
<1>3. CASE SetFailed(e, "unmanaged")
  BY <1>3, SetFailedMoves DEF Readies
<1> QED
  BY <1>1, <1>2, <1>3 DEF Examine, UseNamespace, RejectNamespace

-----------------------------------------------------------------------------
LEMMA InitType == Init => TypeOK
  BY FreshType DEF Init, TypeOK, Absent, Namespaces, Steps, Usages

LEMMA MergedType ==
  ASSUME TypeOK, NEW e \in Envs
  PROVE  Merged(e) \in Records
<1>1. env[e] \in Records /\ local[e] \in Records
  BY DEF TypeOK
<1>2. local[e].target \in Names \cup {None}
  BY <1>1 DEF Records
<1> QED
  BY <1>1, <1>2, ConditionsType, TargetType DEF Merged

LEMMA NextType == TypeOK /\ [Next]_vars => TypeOK'
<1> SUFFICES ASSUME TypeOK, [Next]_vars PROVE TypeOK'
  OBVIOUS
<1> USE DEF envVars, workerVars, nsVars
<1>1. ASSUME NEW e \in Envs, EnvStep(e) PROVE TypeOK'
  <2>1. CASE Begin(e)
    BY <2>1 DEF TypeOK, Begin, Goto, Steps, Records, Lives
  <2>2. CASE AddFinalizer(e)
    <3>1. [env[e] EXCEPT !.life = "live"] \in Records
      BY LifeType DEF TypeOK, Lives
    <3> QED
      BY <2>2, <3>1, EndType, PersistType DEF AddFinalizer, TypeOK
  <2>3. CASE AllocateNamespace(e)
    <3>1. ASSUME NEW i \in 1..Len(Candidates[e])
          PROVE [local[e] EXCEPT !.target = Candidates[e][i]] \in Records
      <4>1. Candidates[e][i] \in Names
        BY ConstantsAssumption
      <4> QED
        BY <4>1, TargetType DEF TypeOK
    <3>2. Moves(e)
      BY <2>3, <3>1 DEF AllocateNamespace, Moves, Steps
    <3> QED
      BY <2>3, <3>2, MovesType DEF AllocateNamespace, TypeOK
  <2>4. CASE TemplateError(e)
    BY <2>4, SetFailedMoves, MovesType DEF TemplateError, TypeOK, Readies
  <2>5. CASE Expire(e)
    <3>1. [env[e] EXCEPT !.life = "deleting"] \in Records
      BY LifeType DEF TypeOK, Lives
    <3>2. outdated' \in [Envs -> BOOLEAN]
      BY <2>5 DEF Expire, TypeOK
    <3> QED
      BY <2>5, <3>1, <3>2, PersistType DEF Expire, TypeOK, Goto, Steps
  <2>6. CASE GetNamespace(e)
    <3>1. Moves(e)
      BY <2>6, ExamineMoves DEF GetNamespace, Moves, Steps
    <3> QED
      BY <2>6, <3>1, MovesType DEF GetNamespace, TypeOK
  <2>7. CASE CreateNamespace(e)
    <3>1. [local[e] EXCEPT !.bound = TRUE] \in Records
      BY DEF TypeOK, Records
    <3>2. Moves(e)
      BY <2>7, <3>1 DEF CreateNamespace, Moves, Steps
    <3>3. [owner |-> e, terminating |-> FALSE] \in Namespaces
      BY DEF Namespaces
    <3>4. /\ ns' \in [Names -> Namespaces]
          /\ nsCache' \in [Names -> Namespaces]
          /\ handle' \in [Envs -> BOOLEAN]
      BY <2>7, <3>3, WriteNamespaceType DEF CreateNamespace, TypeOK
    <3> QED
      BY <2>7, <3>2, <3>4, MovesType DEF CreateNamespace, TypeOK
  <2>8. CASE RecheckNamespace(e)
    <3>1. Moves(e)
      BY <2>8, ExamineMoves DEF RecheckNamespace, Moves, Steps
    <3> QED
      BY <2>8, <3>1, MovesType DEF RecheckNamespace, TypeOK
  <2>9. CASE SubmitWork(e)
    <3>1. Moves(e)
      BY <2>9, SetFailedMoves DEF SubmitWork, Moves, Steps, Readies
    <3>2. usage' \in [Envs -> Usages]
      BY <2>9 DEF SubmitWork, TypeOK, Usages
    <3> QED
      BY <2>9, <3>1, <3>2, MovesType DEF SubmitWork, TypeOK
  <2>10. CASE GetForDeletion(e)
    <3>1. Moves(e)
      BY <2>10, SetFailedMoves DEF GetForDeletion, AfterCleanup, Moves, Steps, Readies
    <3>2. handle' \in [Envs -> BOOLEAN]
      BY <2>10 DEF GetForDeletion, TypeOK
    <3> QED
      BY <2>10, <3>1, <3>2, MovesType DEF GetForDeletion, TypeOK
  <2>11. CASE CleanupPending(e)
    BY <2>11, ContinueType DEF CleanupPending, TypeOK, Steps
  <2>12. CASE CleanupDone(e) \/ CleanupSkipped(e)
    <3>1. [local[e] EXCEPT !.cleanup = TRUE] \in Records
      BY DEF TypeOK, Records
    <3>2. usage' \in [Envs -> Usages]
      BY <2>12 DEF CleanupDone, CleanupSkipped, TypeOK, Usages
    <3> QED
      BY <2>12, <3>1, <3>2, ProposeType DEF CleanupDone, CleanupSkipped, TypeOK
  <2>13. CASE DeleteNamespace(e)
    <3>1. Moves(e)
      BY <2>13 DEF DeleteNamespace, Moves, Steps
    <3>2. local[e].target \in Names =>
            [ns[local[e].target] EXCEPT !.terminating = TRUE] \in Namespaces
      BY NamespaceType DEF TypeOK
    <3>3. /\ ns' \in [Names -> Namespaces]
          /\ nsCache' \in [Names -> Namespaces]
          /\ handle' \in [Envs -> BOOLEAN]
      BY <2>13, <3>2, WriteNamespaceType DEF DeleteNamespace, TypeOK
    <3> QED
      BY <2>13, <3>1, <3>3, MovesType DEF DeleteNamespace, TypeOK
  <2>14. CASE RemoveFinalizer(e)
    <3>1. [env[e] EXCEPT !.life = "gone"] \in Records
      BY LifeType DEF TypeOK, Lives
    <3> QED
      BY <2>14, <3>1, EndType, PersistType DEF RemoveFinalizer, TypeOK
  <2>15. CASE PatchStatus(e)
    BY <2>15, EndType, PersistType, MergedType DEF PatchStatus, TypeOK
  <2>16. CASE Abort(e)
    BY <2>16, EndType DEF Abort, TypeOK
  <2>17. CASE SyncEnv(e)
    BY <2>17 DEF SyncEnv, TypeOK
  <2>18. CASE UserDelete(e) \/ SpecEdit(e)
    <3>1. [env[e] EXCEPT !.life = IF @ = "new" THEN "gone" ELSE "deleting"] \in Records
      BY LifeType DEF TypeOK, Lives
    <3>2. env[e] \in Records
      BY DEF TypeOK
    <3> QED
      BY <2>18, <3>1, <3>2, PersistType DEF UserDelete, SpecEdit, PersistOutside, TypeOK
  <2> QED
    BY <1>1, <2>1, <2>2, <2>3, <2>4, <2>5, <2>6, <2>7, <2>8, <2>9, <2>10, <2>11, <2>12,
       <2>13, <2>14, <2>15, <2>16, <2>17, <2>18 DEF EnvStep, Reconcile
<1>2. ASSUME NEW n \in Names, NamespaceStep(n) PROVE TypeOK'
  <2>1. CASE SyncNamespace(n)
    BY <2>1 DEF SyncNamespace, TypeOK
  <2>2. ASSUME NEW r \in Namespaces, WriteNamespace(n, r),
               UNCHANGED <<envVars, workerVars, usage, failures>>
        PROVE TypeOK'
    BY <2>2, WriteNamespaceType DEF TypeOK
  <2>3. /\ Absent \in Namespaces
        /\ [owner |-> Foreign, terminating |-> FALSE] \in Namespaces
        /\ [ns[n] EXCEPT !.terminating = TRUE] \in Namespaces
        /\ [ns[n] EXCEPT !.owner = Foreign] \in Namespaces
    BY NamespaceType DEF TypeOK, Absent, Namespaces
  <2> QED
    BY <1>2, <2>1, <2>2, <2>3
    DEF NamespaceStep, FinishTermination, ForeignCreate, NamespaceDelete, Relabel
<1>3. CASE UNCHANGED vars
  BY <1>3 DEF vars, TypeOK
<1> QED
  BY <1>1, <1>2, <1>3 DEF Next

\* Every reachable state is well-typed, for all values of the constants.
THEOREM TypeCorrect == Spec => []TypeOK
  BY InitType, NextType, PTL DEF Spec

-----------------------------------------------------------------------------
(***************************************************************************)
(* The binding is locked, unless a template error strikes a stale copy.    *)
(* What carries the argument: a copy that is bound is bound to what the    *)
(* API server has, and whoever proposes a target, or a Ready condition,    *)
(* holds a copy that cannot take a persisted binding back.                 *)
(***************************************************************************)

\* r is an earlier copy of s, as far as the binding goes.
Behind(r, s) == r.bound => s.bound /\ s.target = r.target

Copies(e) ==
    /\ ~lagging[e] => cached[e] = env[e]
    /\ pc[e] # "idle" /\ ~outdated[e] => original[e] = env[e]
    /\ pc[e] \notin {"idle", "patch"} => local[e] = original[e]
    /\ Behind(cached[e], env[e])
    /\ pc[e] # "idle" => Behind(original[e], env[e])

HasTarget(e) ==
    /\ env[e].bound => env[e].target # None
    /\ cached[e].bound => cached[e].target # None
    /\ local[e].bound => local[e].target # None

Stages(e) ==
    /\ pc[e] = "work" => local[e].bound
    /\ pc[e] \in {"allocate", "create", "recheck"} => ~local[e].bound
    /\ pc[e] \in {"reconcile", "create", "recheck"} => local[e].target # None

Proposal(e) ==
    pc[e] = "patch" =>
        /\ original[e].bound => local[e].bound /\ local[e].target = original[e].target
        /\ local[e].ready # original[e].ready => original[e].bound

LockedAt(e) == Copies(e) /\ HasTarget(e) /\ Stages(e) /\ Proposal(e)

LockInv == TypeOK /\ \A e \in Envs : LockedAt(e)

\* What a step of another environment leaves alone.
SameAt(e) ==
    /\ env'[e] = env[e] /\ cached'[e] = cached[e] /\ lagging'[e] = lagging[e]
    /\ pc'[e] = pc[e] /\ original'[e] = original[e]
    /\ local'[e] = local[e] /\ outdated'[e] = outdated[e]

LEMMA OtherSteps ==
  ASSUME TypeOK, NEW e \in Envs, NEW f \in Envs, EnvStep(f), e # f
  PROVE  SameAt(e)
<1> USE DEF envVars, workerVars, nsVars, TypeOK, SameAt, Goto, End, Persist, Continue, Propose
<1>1. CASE Begin(f) \/ AddFinalizer(f) \/ Expire(f) \/ RemoveFinalizer(f) \/ Abort(f)
  BY <1>1 DEF Begin, AddFinalizer, Expire, RemoveFinalizer, Abort
<1>2. CASE AllocateNamespace(f) \/ TemplateError(f)
  BY <1>2 DEF AllocateNamespace, TemplateError, SetFailed
<1>3. CASE GetNamespace(f) \/ RecheckNamespace(f)
  BY <1>3 DEF GetNamespace, RecheckNamespace, Examine, UseNamespace, RejectNamespace, SetFailed
<1>4. CASE CreateNamespace(f) \/ SubmitWork(f)
  BY <1>4 DEF CreateNamespace, SubmitWork, SetFailed
<1>5. CASE GetForDeletion(f) \/ DeleteNamespace(f)
  BY <1>5 DEF GetForDeletion, DeleteNamespace, SetFailed
<1>6. CASE CleanupPending(f) \/ CleanupDone(f) \/ CleanupSkipped(f)
  BY <1>6 DEF CleanupPending, CleanupDone, CleanupSkipped
<1>7. CASE PatchStatus(f)
  BY <1>7 DEF PatchStatus
<1>8. CASE SyncEnv(f) \/ UserDelete(f) \/ SpecEdit(f)
  BY <1>8 DEF SyncEnv, UserDelete, SpecEdit, PersistOutside
<1> QED
  BY <1>1, <1>2, <1>3, <1>4, <1>5, <1>6, <1>7, <1>8 DEF EnvStep, Reconcile

LEMMA NamespaceSteps ==
  ASSUME NEW e \in Envs, NEW n \in Names, NamespaceStep(n) \/ UNCHANGED vars
  PROVE  SameAt(e)
  BY DEF NamespaceStep, SyncNamespace, FinishTermination, ForeignCreate, NamespaceDelete,
         Relabel, SameAt, vars, envVars, workerVars

LEMMA LockedSame ==
  ASSUME NEW e \in Envs, LockedAt(e), SameAt(e)
  PROVE  LockedAt(e)'
  BY DEF LockedAt, SameAt, Copies, HasTarget, Stages, Proposal, Behind

\* A persisted binding survives the step.
Kept(e) == env[e].bound => env'[e].bound /\ env'[e].target = env[e].target

\* A decision of a reconcile only moves its pc ...
LEMMA LockedContinue ==
  ASSUME TypeOK, NEW e \in Envs, LockedAt(e), UNCHANGED envVars,
         pc[e] \notin {"idle", "patch"}, NEW s \in Steps \ {"idle"}, Continue(e, s),
         s = "work" => local[e].bound,
         s \in {"allocate", "create", "recheck"} => ~local[e].bound,
         s \in {"reconcile", "create", "recheck"} => local[e].target # None
  PROVE  LockedAt(e)' /\ Kept(e)
  BY DEF LockedAt, Copies, HasTarget, Stages, Proposal, Behind, Kept, TypeOK,
         Continue, Goto, envVars

\* ... or proposes a status that respects the copy it was derived from.
LEMMA LockedPropose ==
  ASSUME TypeOK, NEW e \in Envs, LockedAt(e), UNCHANGED envVars,
         pc[e] \notin {"idle", "patch"}, NEW r \in Records, Propose(e, r),
         local[e].bound => r.bound /\ r.target = local[e].target,
         r.bound => r.target # None,
         r.ready # local[e].ready => local[e].bound
  PROVE  LockedAt(e)' /\ Kept(e)
  BY DEF LockedAt, Copies, HasTarget, Stages, Proposal, Behind, Kept, TypeOK,
         Propose, Goto, envVars

LEMMA LockedSetFailed ==
  ASSUME TypeOK, NEW e \in Envs, LockedAt(e), UNCHANGED envVars,
         pc[e] \notin {"idle", "patch"}, NEW r \in Readies, SetFailed(e, r), local[e].bound
  PROVE  LockedAt(e)' /\ Kept(e)
<1> DEFINE failed == [local[e] EXCEPT !.ready = r]
<1>1. failed \in Records /\ failed.bound /\ failed.target = local[e].target
  BY DEF TypeOK, Records
<1>2. local[e].target # None
  BY DEF LockedAt, HasTarget
<1>3. Propose(e, failed)
  BY DEF SetFailed
<1> HIDE DEF failed
<1> QED
  BY <1>1, <1>2, <1>3, LockedPropose

LEMMA LockedBind ==
  ASSUME TypeOK, NEW e \in Envs, LockedAt(e), UNCHANGED envVars,
         pc[e] \notin {"idle", "patch"}, Propose(e, [local[e] EXCEPT !.bound = TRUE]),
         local[e].target # None
  PROVE  LockedAt(e)' /\ Kept(e)
<1> DEFINE bound == [local[e] EXCEPT !.bound = TRUE]
<1>1. bound \in Records /\ bound.bound /\ bound.target = local[e].target /\ bound.ready = local[e].ready
  BY DEF TypeOK, Records
<1>2. Propose(e, bound)
  OBVIOUS
<1> HIDE DEF bound
<1> QED
  BY <1>1, <1>2, LockedPropose

LEMMA LockedExamine ==
  ASSUME TypeOK, NEW e \in Envs, LockedAt(e), UNCHANGED envVars,
         pc[e] \notin {"idle", "patch"}, local[e].target # None, Examine(e)
  PROVE  LockedAt(e)' /\ Kept(e)
  BY LockedContinue, LockedBind, LockedSetFailed
  DEF Examine, UseNamespace, RejectNamespace, Steps, Readies

\* The end of a pass, with or without a write that respects the binding.
LEMMA LockedEnd ==
  ASSUME TypeOK, NEW e \in Envs, LockedAt(e), End(e),
         \/ UNCHANGED envVars
         \/ \E r \in Records :
               /\ Persist(e, r)
               /\ env[e].bound => r.bound /\ r.target = env[e].target
               /\ r.bound => r.target # None
  PROVE  LockedAt(e)' /\ Kept(e)
  BY DEF LockedAt, Copies, HasTarget, Stages, Proposal, Behind, Kept, TypeOK,
         End, Goto, Persist, Fresh, envVars

LEMMA LockedLife ==
  ASSUME TypeOK, NEW e \in Envs, LockedAt(e), NEW l \in Lives
  PROVE  /\ [env[e] EXCEPT !.life = l] \in Records
         /\ [env[e] EXCEPT !.life = l].bound = env[e].bound
         /\ [env[e] EXCEPT !.life = l].target = env[e].target
         /\ env[e].bound => env[e].target # None
<1>1. env[e] \in Records
  BY DEF TypeOK
<1> QED
  BY <1>1, LifeType DEF Records, LockedAt, HasTarget

LEMMA LockedMerged ==
  ASSUME TypeOK, NEW e \in Envs, LockedAt(e), pc[e] = "patch", Locked(e) => ~outdated[e]
  PROVE  /\ env[e].bound => Merged(e).bound /\ Merged(e).target = env[e].target
         /\ Merged(e).bound => Merged(e).target # None
<1>1. local[e] \in Records /\ env[e] \in Records /\ original[e] \in Records
  BY DEF TypeOK
<1> QED
  BY <1>1 DEF Locked, Merged, Conditions, LockedAt, Copies, Behind, HasTarget, Proposal, Records

\* Steps in which somebody else than the end of a pass writes e.
LEMMA LockedOutside ==
  ASSUME TypeOK, NEW e \in Envs, LockedAt(e), NEW r \in Records, Persist(e, r),
         r.bound = env[e].bound, r.target = env[e].target,
         outdated'[e] \/ pc'[e] = "idle",
         \/ UNCHANGED <<pc, original, local>>
         \/ pc[e] = "reconcile" /\ Goto(e, "patch") /\ UNCHANGED <<original, local>>
  PROVE  LockedAt(e)' /\ Kept(e)
  BY DEF LockedAt, Copies, HasTarget, Stages, Proposal, Behind, Kept, TypeOK,
         Goto, Persist, envVars

LEMMA LockedStep ==
  ASSUME TypeOK, "TemplateError" \notin Interference,
         NEW e \in Envs, LockedAt(e), EnvStep(e)
  PROVE  LockedAt(e)' /\ Kept(e)
<1>0. local[e] \in Records /\ env[e] \in Records /\ cached[e] \in Records /\ original[e] \in Records
  BY DEF TypeOK
<1>1. CASE Begin(e)
  BY <1>1 DEF Begin, LockedAt, Copies, HasTarget, Stages, Proposal, Behind, Kept, TypeOK,
              Goto, envVars
<1>2. CASE AddFinalizer(e)
  BY <1>2, LockedEnd, LockedLife DEF AddFinalizer, Lives
<1>3. CASE RemoveFinalizer(e)
  BY <1>3, LockedEnd, LockedLife DEF RemoveFinalizer, Lives
<1>4. CASE Abort(e)
  BY <1>4, LockedEnd DEF Abort
<1>5. CASE Expire(e)
  <2>1. CASE env[e].life = "live"
    <3>1. outdated'[e]
      BY <1>5, <2>1 DEF Expire, TypeOK
    <3> QED
      BY <1>5, <2>1, <3>1, LockedOutside, LockedLife DEF Expire, Lives
  <2>2. CASE env[e].life # "live"
    <3>1. Continue(e, "patch")
      BY <1>5, <2>2 DEF Expire, Continue
    <3> QED
      BY <1>5, <2>2, <3>1, LockedContinue DEF Expire, Steps
  <2> QED
    BY <2>1, <2>2
<1>6. CASE AllocateNamespace(e)
  <2>1. ~local[e].bound
    BY <1>6 DEF AllocateNamespace, LockedAt, Stages
  <2>2. ASSUME NEW i \in 1..Len(Candidates[e]), Propose(e, [local[e] EXCEPT !.target = Candidates[e][i]])
        PROVE  LockedAt(e)' /\ Kept(e)
    <3> DEFINE moved == [local[e] EXCEPT !.target = Candidates[e][i]]
    <3>1. moved \in Records
      BY <1>0, ConstantsAssumption, TargetType
    <3>2. ~moved.bound /\ moved.ready = local[e].ready
      BY <1>0, <2>1 DEF Records
    <3>3. Propose(e, moved)
      BY <2>2
    <3> HIDE DEF moved
    <3> QED
      BY <1>6, <2>1, <3>1, <3>2, <3>3, LockedPropose DEF AllocateNamespace
  <2>3. ASSUME Continue(e, "patch") PROVE LockedAt(e)' /\ Kept(e)
    BY <1>6, <2>3, LockedContinue DEF AllocateNamespace, Steps
  <2> QED
    BY <1>6, <2>2, <2>3 DEF AllocateNamespace
<1>7. CASE GetNamespace(e) \/ RecheckNamespace(e)
  <2>1. local[e].target # None
    BY <1>7 DEF GetNamespace, RecheckNamespace, LockedAt, Stages
  <2> QED
    BY <1>7, <2>1, LockedExamine, LockedContinue DEF GetNamespace, RecheckNamespace, Steps
<1>8. CASE CreateNamespace(e)
  <2>1. local[e].target # None /\ ~local[e].bound
    BY <1>8 DEF CreateNamespace, LockedAt, Stages
  <2> QED
    BY <1>8, <2>1, LockedBind, LockedContinue DEF CreateNamespace, Steps
<1>9. CASE SubmitWork(e)
  <2>1. local[e].bound
    BY <1>9 DEF SubmitWork, LockedAt, Stages
  <2> QED
    BY <1>9, <2>1, LockedSetFailed, LockedContinue DEF SubmitWork, Steps, Readies
<1>10. CASE GetForDeletion(e)
  <2>1. ~Releasable(e) /\ ~Owned(e) => local[e].bound
    BY <1>0 DEF Releasable, Records
  <2> QED
    BY <1>10, <2>1, LockedSetFailed, LockedContinue
    DEF GetForDeletion, AfterCleanup, Steps, Readies
<1>11. CASE CleanupPending(e)
  BY <1>11, LockedContinue DEF CleanupPending, Steps
<1>12. CASE CleanupDone(e) \/ CleanupSkipped(e)
  <2> DEFINE cleaned == [local[e] EXCEPT !.cleanup = TRUE]
  <2>1. /\ cleaned \in Records /\ cleaned.bound = local[e].bound
        /\ cleaned.target = local[e].target /\ cleaned.ready = local[e].ready
    BY <1>0 DEF Records
  <2>2. Propose(e, cleaned) /\ pc[e] = "cleanup" /\ UNCHANGED envVars
    BY <1>12 DEF CleanupDone, CleanupSkipped
  <2>3. local[e].bound => local[e].target # None
    BY DEF LockedAt, HasTarget
  <2> HIDE DEF cleaned
  <2> QED
    BY <2>1, <2>2, <2>3, LockedPropose
<1>13. CASE DeleteNamespace(e)
  BY <1>13, LockedContinue DEF DeleteNamespace, Steps
<1>14. CASE PatchStatus(e)
  BY <1>14, LockedEnd, LockedMerged, MergedType DEF PatchStatus
<1>15. CASE SyncEnv(e)
  BY <1>15 DEF SyncEnv, LockedAt, Copies, HasTarget, Stages, Proposal, Behind, Kept, TypeOK,
               workerVars
<1>16. CASE UserDelete(e) \/ SpecEdit(e)
  <2>1. outdated'[e] \/ pc'[e] = "idle"
    BY <1>16 DEF UserDelete, SpecEdit, PersistOutside, TypeOK
  <2>2. env[e].bound = env[e].bound /\ env[e] \in Records
    BY <1>0
  <2> QED
    BY <1>16, <2>1, <2>2, LockedOutside, LockedLife
    DEF UserDelete, SpecEdit, PersistOutside, Lives
<1> QED
  BY <1>1, <1>2, <1>3, <1>4, <1>5, <1>6, <1>7, <1>8, <1>9, <1>10, <1>11, <1>12, <1>13, <1>14,
     <1>15, <1>16 DEF EnvStep, Reconcile, TemplateError

LEMMA LockedInit == Init => LockInv
  BY InitType DEF Init, LockInv, LockedAt, Copies, HasTarget, Stages, Proposal, Behind, Fresh

\* Every step keeps the invariant, and every persisted binding.
LEMMA LockedNext ==
  ASSUME "TemplateError" \notin Interference, LockInv, [Next]_vars
  PROVE  LockInv' /\ \A e \in Envs : Kept(e)
<1>1. TypeOK'
  BY NextType DEF LockInv
<1>2. ASSUME NEW e \in Envs PROVE LockedAt(e)' /\ Kept(e)
  <2>0. TypeOK /\ LockedAt(e)
    BY DEF LockInv
  <2>1. ASSUME SameAt(e) PROVE LockedAt(e)' /\ Kept(e)
    BY <2>0, <2>1, LockedSame DEF SameAt, Kept
  <2>2. CASE UNCHANGED vars
    BY <2>1, <2>2 DEF SameAt, vars, envVars, workerVars
  <2>3. ASSUME NEW n \in Names, NamespaceStep(n) PROVE LockedAt(e)' /\ Kept(e)
    BY <2>1, <2>3, NamespaceSteps
  <2>4. ASSUME NEW f \in Envs, EnvStep(f) PROVE LockedAt(e)' /\ Kept(e)
    BY <2>0, <2>1, <2>4, OtherSteps, LockedStep
  <2> QED
    BY <2>2, <2>3, <2>4 DEF Next
<1> QED
  BY <1>1, <1>2 DEF LockInv

\* The inductive invariant behind the lock: what is persisted of a binding
\* agrees with what a reconcile that may still write has read.
THEOREM LockInvariant ==
  ASSUME "TemplateError" \notin Interference
  PROVE  Spec => []LockInv
<1>1. LockInv /\ [Next]_vars => LockInv'
  BY LockedNext
<1> QED
  BY <1>1, LockedInit, PTL DEF Spec

\* A persisted NamespaceBound and its target never change again, for any
\* number of environments, stale copies, crashes and interfering clients, as
\* long as no template error is reported (setFailed on a stale copy).
THEOREM BindingStays ==
  ASSUME "TemplateError" \notin Interference
  PROVE  Spec => AssignmentLocked
<1>1. LockInv /\ [Next]_vars =>
        [\A e \in Envs : env[e].bound => env'[e].bound /\ env'[e].target = env[e].target]_vars
  BY LockedNext DEF Kept
<1> QED
  BY <1>1, LockInvariant, PTL DEF Spec, AssignmentLocked

\* Workloads are submitted only while the API server holds the binding the
\* reconcile believes in, under the same condition.
THEOREM WorkNeedsBinding ==
  ASSUME "TemplateError" \notin Interference
  PROVE  Spec => []WorkUnderBinding
<1>1. LockInv => WorkUnderBinding
  BY DEF LockInv, LockedAt, Copies, Stages, Behind, WorkUnderBinding
<1> QED
  BY <1>1, LockInvariant, PTL
=============================================================================
