----------------------------- MODULE EnvDeploy -----------------------------
(***************************************************************************)
(* The deployment of one environment whose namespace is bound: a reconcile *)
(* reads the environment from the cache, forgets its components when the   *)
(* spec has changed, works on the first level that is not ready (submits   *)
(* Jobs, observes them, checks readiness), and writes the status back with *)
(* a merge patch that carries only the fields it changed.                  *)
(*                                                                         *)
(* The Jobs' protocol is JobControl's; here a call of Submit or Observe is *)
(* one step on the live Job, and "seen" says whether the cache shows it.   *)
(* Level is what DependencyGraph computes.  How a shared component comes   *)
(* to be allocated is SharedAdmission's: here it is an outcome.            *)
(***************************************************************************)
EXTENDS Integers

CONSTANTS Components,
          DependsOn,     \* the dependencies of a component
          Level,         \* its deployment level
          Shared,        \* the components with a sharedComponentRef
          Provisioned,   \* those of them whose provider has a provision script
          Content,       \* the rendered options of the plain components, by edit
          SeesOwnWrites, \* does every pass start from a cache with the last patch?
          MaxRetries,    \* maxDeployRetries
          MaxEdits,      \* bound on spec edits
          MaxFailures    \* bound on crashes and API errors

ASSUME ConstantsAssumption ==
    /\ DependsOn \in [Components -> SUBSET Components]
    /\ Level \in [Components -> Nat]
    /\ \A c \in Components : \A d \in DependsOn[c] : Level[d] < Level[c]
    /\ Provisioned \subseteq Shared /\ Shared \subseteq Components
    /\ SeesOwnWrites \in BOOLEAN
    /\ MaxRetries \in Nat \ {0, 1}
    /\ MaxEdits \in Nat /\ MaxFailures \in Nat
    /\ DOMAIN Content = 0..MaxEdits
    /\ \A e \in 0..MaxEdits : Content[e] \in Nat

VARIABLES
    edit,       \* the generation of the spec
    status,     \* the persisted status
    cache,      \* the informer cache's copy of both
    pc,         \* where the pass stands
    read,       \* the copy the pass read
    local,      \* the status it works on
    todo,       \* components the current step has not handled yet
    job,        \* the Job of each component
    installed,  \* the content each component's last successful Job installed
    failures    \* crashes and API errors so far

passVars == <<pc, read, local, todo>>
vars == <<edit, status, cache, passVars, job, installed, failures>>

Plain == Components \ Shared

\* Components that run a Job.
JobBacked == Plain \cup Provisioned

Nothing == -1

Contents == {Content[e] : e \in 0..MaxEdits} \cup {0}

Ended == {"succeeded", "failed"}

Statuses ==
    [observed : -1..MaxEdits,
     phase : {"", "Deploying", "Ready", "Failed"},
     comps : [Components ->
        [phase : {"none", "Pending", "Submitting", "Deploying", "Ready", "Failed"},
         retries : 0..MaxRetries]]]

Copies == [edit : 0..MaxEdits, status : Statuses]

Jobs == [content : Contents, attempt : 0..MaxRetries, seen : BOOLEAN,
         state : {"absent", "running", "deleting"} \cup Ended]

NoComponents == [c \in Components |-> [phase |-> "none", retries |-> 0]]

NewStatus == [observed |-> Nothing, phase |-> "", comps |-> NoComponents]

NoJob == [content |-> 0, attempt |-> 0, seen |-> TRUE, state |-> "absent"]

TypeOK ==
    /\ edit \in 0..MaxEdits
    /\ status \in Statuses
    /\ cache \in Copies /\ read \in Copies
    /\ pc \in {"idle", "submit", "observe", "check", "patch"}
    /\ local \in Statuses
    /\ todo \subseteq Components
    /\ job \in [Components -> Jobs]
    /\ installed \in [Components -> Contents \cup {Nothing}]
    /\ failures \in 0..MaxFailures

NoRead == [edit |-> 0, status |-> NewStatus]

Init ==
    /\ edit = 0
    /\ status = NewStatus
    /\ cache = NoRead
    /\ pc = "idle" /\ read = NoRead /\ local = NewStatus /\ todo = {}
    /\ job = [c \in Components |-> NoJob]
    /\ installed = [c \in Components |-> Nothing]
    /\ failures = 0

Fail == failures < MaxFailures /\ failures' = failures + 1

-----------------------------------------------------------------------------
\* The Jobs, as the deployer and the provisioner see them.

\* What a component's Job should install; a provision Job's options depend on
\* neither the spec nor the attempt.
WantedContent(c, e) == IF c \in Shared THEN 0 ELSE Content[e]
WantedAttempt(c) == IF c \in Shared THEN 0 ELSE local.comps[c].retries

Matches(c) ==
    job[c].content = WantedContent(c, read.edit) /\ job[c].attempt = WantedAttempt(c)

Replaceable(c) ==
    \/ job[c].state = "failed"
    \/ job[c].state = "succeeded" /\ ~Matches(c)

\* Submit: create the missing Job, delete one that has ended and is not
\* wanted, leave everything else alone, as well as what the cache hides.
SubmitJob(c) ==
    IF job[c].seen /\ job[c].state = "absent"
    THEN job' = [job EXCEPT ![c] =
            [content |-> WantedContent(c, read.edit), attempt |-> WantedAttempt(c),
             seen |-> FALSE, state |-> "running"]]
    ELSE IF job[c].seen /\ Replaceable(c)
    THEN job' = [job EXCEPT ![c].state = "deleting", ![c].seen = FALSE]
    ELSE UNCHANGED job

\* Observe: an end is reported when the cached and the live Job agree.
Verdicts(c) ==
    IF ~job[c].seen THEN {"pending", "running"}
    ELSE IF job[c].state = "running" THEN {"running"}
    ELSE IF job[c].state \in Ended /\ Matches(c) THEN {job[c].state}
    ELSE {"pending"}

-----------------------------------------------------------------------------
\* The status a pass works on.

\* Mutant: the phase starts over, the components do not.
KeepComponents(r) ==
    IF r.status.observed = r.edit THEN r.status
    ELSE [observed |-> r.edit, phase |-> "", comps |-> r.status.comps]

\* The components are forgotten when the spec has changed.
Reset(r) ==
    IF r.status.observed = r.edit THEN r.status
    ELSE [observed |-> r.edit, phase |-> "", comps |-> NoComponents]

\* Component c of status s moves to phase p.
SetPhase(s, c, p) == [s EXCEPT !.comps[c].phase = p]

\* It is ready and its failures are forgotten.
SetReady(s, c) == [s EXCEPT !.comps[c] = [phase |-> "Ready", retries |-> 0]]

\* Mutant: one attempt too many.
ExhaustedLate(c) == local.comps[c].retries >= MaxRetries

Exhausted(c) == local.comps[c].retries + 1 >= MaxRetries

\* Mutant: the failure is not counted.
NotCounted(k) == k

Counted(k) == k + 1

\* recordRuntimeFailure, and what its callers do when it says "exhausted".
Charged(c) ==
    [local EXCEPT !.comps[c] =
        [phase |-> IF Exhausted(c) THEN "Failed" ELSE "Pending", retries |-> Counted(@.retries)]]

GiveUp(s) == [s EXCEPT !.phase = "Failed"]

-----------------------------------------------------------------------------
\* The pass.

\* The pass goes on at step p with status s and components cs to handle.
Continue(p, s, cs) == pc' = p /\ local' = s /\ todo' = cs

\* The pass ends.
EndPass == pc' = "idle" /\ read' = NoRead /\ local' = NewStatus /\ todo' = {}

Unready(s) == {c \in Components : s.comps[c].phase # "Ready"}

\* Mutant: everything that is not ready, whatever it depends on.
AllUnready(s) == Unready(s)

\* The components of the first level that is not ready, without the ready ones.
Frontier(s) == {c \in Unready(s) : \A d \in Unready(s) : Level[c] <= Level[d]}

In(s, phases) == {c \in Frontier(s) : s.comps[c].phase \in phases}

\* Mutant: a failed environment tries again.
NeverGivenUp(s) == FALSE

GivenUp(s) == s.phase = "Failed"

\* The worker takes the environment up; the cache may lack its last patch.
Read ==
    /\ pc = "idle"
    /\ SeesOwnWrites => cache.status = status
    /\ read' = cache

\* The plan of the pass: nothing, or one step on the first pending level.
Begin ==
    /\ Read
    /\ LET s == Reset(cache)
           d == [s EXCEPT !.phase = "Deploying"]
           needDeploy == In(s, {"none", "Pending"})
           submitting == In(s, {"Submitting"})
       IN  \/ GivenUp(s) /\ Continue("patch", s, {})
           \/ /\ ~GivenUp(s) /\ Unready(s) = {}
              /\ Continue("patch", [s EXCEPT !.phase = "Ready"], {})
           \/ /\ ~GivenUp(s) /\ needDeploy # {}
              /\ Continue("submit", d, needDeploy)
           \/ /\ ~GivenUp(s) /\ needDeploy = {} /\ submitting # {}
              /\ Continue("observe", d, submitting)
           \/ /\ ~GivenUp(s) /\ Unready(s) # {} /\ needDeploy = {} /\ submitting = {}
              /\ Continue("check", d, In(s, {"Deploying"}))
    /\ UNCHANGED <<edit, status, cache, job, installed, failures>>

\* The template is missing or invalid, or an API call fails, before the plan;
\* the spec change that was noticed is written all the same.
BeginFails ==
    /\ Read /\ Fail
    /\ \/ Continue("patch", Reset(cache), {})
       \/ Continue("patch", GiveUp(Reset(cache)), {})
    /\ UNCHANGED <<edit, status, cache, job, installed>>

\* Submissions of a level run concurrently: any order, and a crash may come
\* between two of them.
Submit(c) ==
    /\ pc = "submit" /\ c \in todo
    /\ \/ /\ c \in JobBacked
          /\ SubmitJob(c)
          /\ Continue(pc, SetPhase(local, c, "Submitting"), todo \ {c})
       \/ /\ c \in Shared \ Provisioned
          /\ Continue(pc, SetReady(local, c), todo \ {c})
          /\ UNCHANGED job
    /\ UNCHANGED <<edit, status, cache, read, installed, failures>>

\* A submission is refused for now: the lease is taken, the shared component is
\* not ready, or the values of a plain component name one whose binding Secret
\* is missing (errSharedNotReady).  Nothing is charged, and it may go on for ever.
SubmitRefused(c) ==
    /\ pc = "submit" /\ c \in todo
    /\ Continue(pc, local, todo \ {c})
    /\ UNCHANGED <<edit, status, cache, read, job, installed, failures>>

\* A submission returns an error: at capacity, where the environment gives up
\* at once, or any other, which is charged.
SubmitFails(c) ==
    /\ pc = "submit" /\ c \in todo
    /\ \/ /\ c \in Shared
          /\ Continue(pc, GiveUp(SetPhase(local, c, "Failed")), todo \ {c})
          /\ UNCHANGED failures
       \/ Fail /\ Continue(pc, Charged(c), todo \ {c})
    /\ UNCHANGED <<edit, status, cache, read, job, installed>>

\* The outcomes are gathered.  When the environment is at capacity, those of
\* the components after the one that is are lost, but for the shared ones
\* that succeeded.
SubmitEnd ==
    /\ pc = "submit" /\ todo = {}
    /\ LET before == Reset(read).comps
           droppable == {c \in In(Reset(read), {"none", "Pending"}) :
                          c \in Plain \/ local.comps[c].retries > before[c].retries}
       IN  IF GivenUp(local)
           THEN \E dropped \in SUBSET droppable :
                   Continue("patch",
                      [local EXCEPT !.comps = [c \in Components |->
                          IF c \in dropped THEN before[c] ELSE @[c]]], {})
           ELSE IF \E c \in Frontier(local) : local.comps[c].phase = "Failed"
                      /\ before[c].phase # "Failed"
           THEN Continue("patch", GiveUp(local), {})
           ELSE Continue("patch", local, {})
    /\ UNCHANGED <<edit, status, cache, read, job, installed, failures>>

\* A success makes a plain component wait for readiness and a provisioned one
\* ready; a failure is charged, and ends the pass if it was a plain
\* component's last.
Observe(c) ==
    /\ pc = "observe" /\ c \in todo
    /\ \E v \in Verdicts(c) :
          \/ v = "pending" /\ Continue(pc, SetPhase(local, c, "Pending"), todo \ {c})
          \/ v = "running" /\ Continue(pc, local, todo \ {c})
          \/ /\ v = "succeeded"
             /\ Continue(pc, IF c \in Shared THEN SetReady(local, c)
                             ELSE SetPhase(local, c, "Deploying"), todo \ {c})
          \/ /\ v = "failed" /\ ~Exhausted(c)
             /\ Continue(pc, Charged(c), todo \ {c})
          \/ /\ v = "failed" /\ Exhausted(c)
             /\ IF c \in Shared THEN Continue(pc, GiveUp(Charged(c)), todo \ {c})
                                ELSE Continue("patch", GiveUp(Charged(c)), {})
    /\ UNCHANGED <<edit, status, cache, read, job, installed, failures>>

\* A component that is being deployed lacks what its options are made from: a
\* binding Secret, the shared component or its provider is missing.  The error
\* ends the pass; nothing is charged, and it may go on for ever.
ObserveRefused(c) ==
    /\ pc = "observe" /\ c \in todo
    /\ Continue("patch", local, {})
    /\ UNCHANGED <<edit, status, cache, read, job, installed, failures>>

\* Readiness is checked in the same pass when nothing is left to wait for.
ObserveEnd ==
    /\ pc = "observe" /\ todo = {}
    /\ IF \A c \in In(read.status, {"Submitting"}) : local.comps[c].phase \in {"Deploying", "Ready"}
       THEN Continue("check", local, In(read.status, {"Deploying"}))
       ELSE Continue("patch", local, {})
    /\ UNCHANGED <<edit, status, cache, read, job, installed, failures>>

\* The component is found ready, or has waited too long, which is charged.
Check(c) ==
    /\ pc = "check" /\ c \in todo
    /\ \/ /\ installed[c] # Nothing
          /\ Continue(pc, SetReady(local, c), todo \ {c})
       \/ ~Exhausted(c) /\ Continue(pc, Charged(c), todo \ {c})
       \/ Exhausted(c) /\ Continue("patch", GiveUp(Charged(c)), {})
    /\ UNCHANGED <<edit, status, cache, read, job, installed, failures>>

\* The component is not ready, or everything was checked.
CheckOn ==
    /\ pc = "check"
    /\ \/ \E c \in todo : Continue(pc, local, todo \ {c})
       \/ todo = {} /\ Continue("patch", local, {})
    /\ UNCHANGED <<edit, status, cache, read, job, installed, failures>>

\* An API error in the middle: what was found so far is written.
StepFails ==
    /\ pc \in {"observe", "check"} /\ todo # {}
    /\ Fail
    /\ Continue("patch", local, {})
    /\ UNCHANGED <<edit, status, cache, read, job, installed>>

\* A merge patch against the copy that was read: the list of components is
\* one field, and a field that did not change is not sent.
Merged ==
    [f \in DOMAIN status |->
        IF local[f] = read.status[f] THEN status[f] ELSE local[f]]

Patch ==
    /\ pc = "patch"
    /\ status' = Merged
    /\ EndPass
    /\ UNCHANGED <<edit, cache, job, installed, failures>>

\* The operator crashes within a pass, or the patch fails.
Abort ==
    /\ pc # "idle" /\ Fail
    /\ EndPass
    /\ UNCHANGED <<edit, status, cache, job, installed>>

-----------------------------------------------------------------------------
\* Everybody else.

SpecEdit ==
    /\ edit < MaxEdits
    /\ edit' = edit + 1
    /\ UNCHANGED <<status, cache, passVars, job, installed, failures>>

SyncEnv ==
    /\ cache # [edit |-> edit, status |-> status]
    /\ cache' = [edit |-> edit, status |-> status]
    /\ UNCHANGED <<edit, status, passVars, job, installed, failures>>

SyncJob(c) ==
    /\ ~job[c].seen
    /\ job' = [job EXCEPT ![c].seen = TRUE]
    /\ UNCHANGED <<edit, status, cache, passVars, installed, failures>>

\* A Job ends; one that succeeds has installed its content.
FinishJob(c, state) ==
    /\ job[c].state = "running"
    /\ job' = [job EXCEPT ![c].state = state, ![c].seen = FALSE]
    /\ installed' = IF state = "succeeded" THEN [installed EXCEPT ![c] = job[c].content]
                    ELSE installed
    /\ UNCHANGED <<edit, status, cache, passVars, failures>>

\* A deleted Job is gone.
JobGone(c) ==
    /\ job[c].state = "deleting"
    /\ job' = [job EXCEPT ![c] = [NoJob EXCEPT !.seen = FALSE]]
    /\ UNCHANGED <<edit, status, cache, passVars, installed, failures>>

-----------------------------------------------------------------------------
Refusal == \E c \in Components : SubmitRefused(c) \/ ObserveRefused(c)

Pass ==
    \/ Refusal \/ Begin \/ SubmitEnd \/ ObserveEnd \/ CheckOn \/ Patch
    \/ \E c \in Components : Submit(c) \/ SubmitFails(c) \/ Observe(c) \/ Check(c)

Next ==
    \/ Pass \/ BeginFails \/ StepFails \/ Abort
    \/ SpecEdit \/ SyncEnv
    \/ \E c \in Components :
          SyncJob(c) \/ JobGone(c) \/ \E state \in Ended : FinishJob(c, state)

Spec == Init /\ [][Next]_vars

-----------------------------------------------------------------------------
\* Safety.

JobCreated(c) == job[c].state = "absent" /\ job'[c].state = "running"

JobDeleted(c) == job[c].state # "deleting" /\ job'[c].state = "deleting"

\* A component's Job starts only when everything the component depends on was
\* installed from the same generation of the spec that the Job is made from:
\* a dependency left over from the generation before does not count.
DependenciesFirst ==
    [][\A c \in Components : JobCreated(c) =>
          \A d \in DependsOn[c] \cap JobBacked :
             installed[d] = WantedContent(d, read.edit)]_vars

\* An environment that says it is ready for the current spec has all its
\* components installed from it.
ReadyIsInstalled ==
    status.phase = "Ready" /\ status.observed = edit =>
        \A c \in JobBacked : installed[c] = WantedContent(c, edit)

\* An environment that failed stays failed, and starts or deletes no Job,
\* until its spec changes.
FailedIsFinal ==
    [][status.phase = "Failed" /\ status.observed = edit =>
          /\ edit' # edit \/ status'.phase = "Failed"
          /\ \A c \in Components : ~JobCreated(c) /\ ~JobDeleted(c)]_vars

-----------------------------------------------------------------------------
\* Liveness: the pass goes on, the requeue brings the worker back, the watch
\* delivers, Jobs end and do not fail for ever (as in JobControl, a failed
\* Job may be replaced without a charge), and a readiness check is not
\* inconclusive for ever (its timeout sees to that).
Fairness ==
    /\ WF_vars(Pass) /\ WF_vars(SyncEnv)
    /\ \A c \in JobBacked :
          /\ WF_vars(SyncJob(c) \/ JobGone(c))
          /\ SF_vars(FinishJob(c, "succeeded"))
    /\ \A c \in Plain : SF_vars(Check(c))

FairSpec == Spec /\ Fairness

Settled == status.observed = edit /\ status.phase \in {"Ready", "Failed"}

\* Once the spec stops changing the environment becomes ready or fails, and
\* stays so, unless its components are refused again and again: as long as a
\* shared component is not ready, or a binding Secret is missing, the
\* environment stays Deploying.
EventuallySettled == []<><<Refusal>>_vars \/ <>[]Settled
=============================================================================
