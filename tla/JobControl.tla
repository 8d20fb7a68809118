----------------------------- MODULE JobControl -----------------------------
(***************************************************************************)
(* Submit and Observe of one Job, by name, as the deployer and the         *)
(* provisioner implement them, and the loop of a component around them: a  *)
(* pending component submits, a submitting one observes, a deploying one   *)
(* is checked; a failed Job, a failed submission and a readiness timeout   *)
(* are charged to one counter of retries.  Jobs are read from a stale      *)
(* cache first and live before anything is concluded from one that ended.  *)
(*                                                                         *)
(* Several owners may want a Job of the same name: shared releases and     *)
(* provision Jobs live in one namespace and are named after objects of     *)
(* any namespace.                                                          *)
(***************************************************************************)
EXTENDS Integers

CONSTANTS Owners,      \* who submits a Job of this name
          Versioned,   \* a deployer's Jobs: the payload numbers the attempt, and
                       \* readiness is checked after them (not the provisioner's)
          MaxRetries,  \* maxDeployRetries
          MaxEdits,    \* bound on spec edits
          Uids,        \* identities of Jobs, reused when nobody remembers them
          MaxFailures  \* bound on crashes, failed requests and deletions by others

ASSUME ConstantsAssumption ==
    /\ Versioned \in BOOLEAN
    /\ Uids \subseteq Nat \ {0}
    /\ MaxRetries \in Nat \ {0}
    /\ MaxEdits \in Nat /\ MaxFailures \in Nat

VARIABLES
    job,       \* the Job in the API server
    cache,     \* the informer cache's copy
    pc,        \* where an owner's call stands
    read,      \* the cached copy the call read
    phase,     \* the component's phase
    retries,   \* the component's DeployRetries
    edits,     \* the generation of the component's spec
    lastRun,   \* the payload of the last Job that was started
    failed,    \* what failed of each owner since its spec last changed: Jobs,
               \* submissions and readiness checks, counted up to MaxRetries
    failures   \* crashes, failed requests and deletions by others so far

jobVars   == <<job, cache, lastRun>>
ownerVars == <<phase, retries, edits>>
vars == <<jobVars, pc, read, ownerVars, failed, failures>>

Payloads == [owner : Owners, edit : 0..MaxEdits, attempt : 0..MaxRetries]

NoPayload == [owner |-> "none"]

Ended == {"succeeded", "failed"}

NoUid == 0

Jobs == [uid : Uids \cup {NoUid}, payload : Payloads \cup {NoPayload},
         state : {"absent", "running"} \cup Ended, deleting : BOOLEAN]

NoJob == [uid |-> NoUid, payload |-> NoPayload, state |-> "absent", deleting |-> FALSE]

Phases == {"pending", "submitting", "deploying", "ready", "failed"}

TypeOK ==
    /\ job \in Jobs /\ cache \in Jobs
    /\ pc \in [Owners -> {"idle", "observe", "submit", "delete", "create"}]
    /\ read \in [Owners -> Jobs]
    /\ phase \in [Owners -> Phases]
    /\ retries \in [Owners -> 0..MaxRetries]
    /\ edits \in [Owners -> 0..MaxEdits]
    /\ lastRun \in Payloads \cup {NoPayload}
    /\ failed \in [Owners -> 0..MaxRetries]
    /\ failures \in 0..MaxFailures

Init ==
    /\ job = NoJob /\ cache = NoJob
    /\ pc = [o \in Owners |-> "idle"]
    /\ read = [o \in Owners |-> NoJob]
    /\ phase = [o \in Owners |-> "pending"]
    /\ retries = [o \in Owners |-> 0]
    /\ edits = [o \in Owners |-> 0]
    /\ lastRun = NoPayload
    /\ failed = [o \in Owners |-> 0]
    /\ failures = 0

-----------------------------------------------------------------------------
\* The options of o's next Job; the provisioner's do not number the attempt.
Wanted(o) ==
    [owner |-> o, edit |-> edits[o], attempt |-> IF Versioned THEN retries[o] ELSE 0]

Matches(o, j) == j.payload = Wanted(o)

\* The call goes on at step s, with the copy it read.
Continue(o, s) ==
    /\ pc' = [pc EXCEPT ![o] = s]
    /\ read' = [read EXCEPT ![o] = cache]
    /\ UNCHANGED ownerVars

\* The call ends and the component is in phase p.
Return(o, p) ==
    /\ pc' = [pc EXCEPT ![o] = "idle"]
    /\ read' = [read EXCEPT ![o] = NoJob]
    /\ phase' = [phase EXCEPT ![o] = p]

\* Mutant: one attempt too many.
ExhaustedLate(o) == retries[o] > MaxRetries

Exhausted(o) == retries[o] + 1 >= MaxRetries

\* recordRuntimeFailure.
Charge(o) ==
    /\ Return(o, IF Exhausted(o) THEN "failed" ELSE "pending")
    /\ retries' = [retries EXCEPT ![o] = @ + 1]
    /\ UNCHANGED edits

\* Something of o failed (a history; the code counts what it charges).
OneMore(o) == IF failed[o] < MaxRetries THEN failed[o] + 1 ELSE failed[o]

\* The API server marks the Job; its Pods go first (foreground).
MarkDeleted == job' = [job EXCEPT !.deleting = TRUE] /\ UNCHANGED <<cache, lastRun>>

-----------------------------------------------------------------------------
\* observe.

\* The cached copy is missing, being deleted, or somebody else's: pending.
ObserveNothing(o) ==
    /\ pc[o] = "idle" /\ phase[o] = "submitting"
    /\ \/ cache.state = "absent"
       \/ cache.deleting
       \/ cache.state \in Ended /\ ~Matches(o, cache)
    /\ Return(o, "pending")
    /\ UNCHANGED <<jobVars, retries, edits, failed, failures>>

\* Mutant: what the cache shows is what is reported.
Believed(o) == read[o].state \in Ended

\* The live Job is the one that was read, and ended as it did.
Confirmed(o) ==
    /\ job.state = read[o].state
    /\ job.uid = read[o].uid
    /\ ~job.deleting
    /\ Matches(o, job)

\* The cached copy ended (one that runs changes nothing): look at the live Job.
ObserveEnded(o) ==
    /\ pc[o] = "idle" /\ phase[o] = "submitting"
    /\ cache.state \in Ended /\ ~cache.deleting /\ Matches(o, cache)
    /\ Continue(o, "observe")
    /\ UNCHANGED <<jobVars, failed, failures>>

\* The component is ready, and its failures are forgotten.
BecomeReady(o) ==
    /\ Return(o, "ready")
    /\ retries' = [retries EXCEPT ![o] = 0]
    /\ UNCHANGED edits

\* The verdict: success, a failure that is charged, or back to pending.
ObserveLive(o) ==
    /\ pc[o] = "observe"
    /\ \/ /\ Confirmed(o) /\ read[o].state = "succeeded"
          /\ \/ Versioned /\ Return(o, "deploying") /\ UNCHANGED <<retries, edits>>
             \/ ~Versioned /\ BecomeReady(o)
       \/ Confirmed(o) /\ read[o].state = "failed" /\ Charge(o)
       \/ ~Confirmed(o) /\ Return(o, "pending") /\ UNCHANGED <<retries, edits>>
    /\ UNCHANGED <<jobVars, failed, failures>>

-----------------------------------------------------------------------------
\* submit.

\* Mutant: a Job that ended is replaced.
KeepRunning(o, j) == j.deleting \/ j.state = "running"

\* A Job that is not to be replaced: it runs, goes, or succeeded as wanted.
Keep(o, j) ==
    \/ j.deleting
    \/ j.state = "running"
    \/ j.state = "succeeded" /\ Matches(o, j)

\* The cached copy decides whether to keep, replace or create.
Submit(o) ==
    /\ pc[o] = "idle" /\ phase[o] = "pending"
    /\ \/ cache.state = "absent" /\ Continue(o, "create")
       \/ /\ cache.state # "absent" /\ Keep(o, cache)
          /\ Return(o, "submitting") /\ UNCHANGED <<retries, edits>>
       \/ cache.state # "absent" /\ ~Keep(o, cache) /\ Continue(o, "submit")
    /\ UNCHANGED <<jobVars, failed, failures>>

\* Before it is replaced, the Job is read live.
SubmitLive(o) ==
    /\ pc[o] = "submit"
    /\ IF job.state = "absent" \/ job.uid # read[o].uid \/ Keep(o, job)
       THEN Return(o, "submitting") /\ UNCHANGED <<retries, edits>>
       ELSE pc' = [pc EXCEPT ![o] = "delete"] /\ UNCHANGED <<read, ownerVars>>
    /\ UNCHANGED <<jobVars, failed, failures>>

\* Mutant: Delete without preconditions.
DeleteByName(o) == job.state # "absent"

\* The UID precondition of Delete.
SameJob(o) == job.state # "absent" /\ job.uid = read[o].uid

DeleteJob(o) ==
    /\ pc[o] = "delete"
    /\ IF SameJob(o) THEN MarkDeleted ELSE UNCHANGED jobVars
    /\ Return(o, "submitting")
    /\ UNCHANGED <<retries, edits, failed, failures>>

\* A UID no copy has.
Fresh == Uids \ ({job.uid, cache.uid} \cup {read[o].uid : o \in Owners})

StartJob(o) ==
    /\ \E u \in Fresh :
          /\ \A v \in Fresh : u <= v
          /\ job' = [uid |-> u, payload |-> Wanted(o), state |-> "running", deleting |-> FALSE]
    /\ lastRun' = Wanted(o)
    /\ UNCHANGED cache

\* Create; a Job that exists by now is somebody's, and is observed next.
CreateJob(o) ==
    /\ pc[o] = "create"
    /\ IF job.state = "absent" THEN StartJob(o) ELSE UNCHANGED jobVars
    /\ Return(o, "submitting")
    /\ UNCHANGED <<retries, edits, failed, failures>>

\* What a request that got no answer has done: nothing, or its work.
Unanswered(o) ==
    \/ UNCHANGED jobVars
    \/ pc[o] = "delete" /\ SameJob(o) /\ MarkDeleted
    \/ pc[o] = "create" /\ job.state = "absent" /\ StartJob(o)

Fail == failures < MaxFailures /\ failures' = failures + 1

\* Submit fails, at a request or before the first one (no values for its
\* options): the error is charged like a failed Job.
SubmitFails(o) ==
    /\ \/ pc[o] = "idle" /\ phase[o] = "pending"
       \/ pc[o] \in {"submit", "delete", "create"}
    /\ Fail
    /\ Unanswered(o)
    /\ Charge(o)
    /\ failed' = [failed EXCEPT ![o] = OneMore(o)]

-----------------------------------------------------------------------------
\* checkReadiness, of a deployed release.

CheckReady(o) ==
    /\ pc[o] = "idle" /\ phase[o] = "deploying"
    /\ BecomeReady(o)
    /\ UNCHANGED <<jobVars, failed, failures>>

\* It was not ready in time: charged, and submitted again.
ReadinessTimeout(o) ==
    /\ pc[o] = "idle" /\ phase[o] = "deploying"
    /\ Charge(o)
    /\ failed' = [failed EXCEPT ![o] = OneMore(o)]
    /\ UNCHANGED <<jobVars, failures>>

-----------------------------------------------------------------------------
\* Everybody else.

FinishJob(state) ==
    /\ job.state = "running"
    /\ ~job.deleting
    /\ job' = [job EXCEPT !.state = state]
    /\ failed' = [o \in Owners |->
          IF state = "failed" /\ job.payload.owner = o /\ job.payload.edit = edits[o]
          THEN OneMore(o) ELSE failed[o]]
    /\ UNCHANGED <<cache, lastRun, pc, read, ownerVars, failures>>

\* The Job and its Pods are gone.
JobGone ==
    /\ job.deleting
    /\ job' = NoJob
    /\ UNCHANGED <<cache, lastRun, pc, read, ownerVars, failed, failures>>

\* An administrator deletes the Job.
OtherDelete ==
    /\ Fail
    /\ job.state # "absent" /\ ~job.deleting
    /\ MarkDeleted
    /\ UNCHANGED <<pc, read, ownerVars, failed>>

SyncJob ==
    /\ cache # job
    /\ cache' = job
    /\ UNCHANGED <<job, lastRun, pc, read, ownerVars, failed, failures>>

\* The spec changes: the components are forgotten and start over.
Edit(o) ==
    /\ pc[o] = "idle"
    /\ edits[o] < MaxEdits
    /\ edits' = [edits EXCEPT ![o] = @ + 1]
    /\ phase' = [phase EXCEPT ![o] = "pending"]
    /\ retries' = [retries EXCEPT ![o] = 0]
    /\ failed' = [failed EXCEPT ![o] = 0]
    /\ UNCHANGED <<jobVars, pc, read, failures>>

\* The operator crashes within a call, or a request of Observe fails: the
\* status is as it was, and nothing is charged.
Crash(o) ==
    /\ pc[o] # "idle"
    /\ Fail
    /\ Unanswered(o)
    /\ Return(o, phase[o])
    /\ UNCHANGED <<retries, edits, failed>>

-----------------------------------------------------------------------------
Call(o) ==
    \/ ObserveNothing(o) \/ ObserveEnded(o) \/ ObserveLive(o)
    \/ Submit(o) \/ SubmitLive(o) \/ DeleteJob(o) \/ CreateJob(o)

Check(o) == CheckReady(o) \/ ReadinessTimeout(o)

Next ==
    \/ \E o \in Owners : Call(o) \/ Check(o) \/ SubmitFails(o) \/ Edit(o) \/ Crash(o)
    \/ \E state \in Ended : FinishJob(state)
    \/ JobGone \/ OtherDelete \/ SyncJob

Spec == Init /\ [][Next]_vars

-----------------------------------------------------------------------------
\* Safety.

\* A running Job is never deleted by the operator: helm is not killed in the
\* middle, however the Jobs of this name follow each other.
RunningJobKept ==
    [][\A o \in Owners : pc[o] = "delete" /\ pc'[o] = "idle" /\ job'.deleting /\ ~job.deleting
          => job.state \in Ended]_vars

\* A component goes on from its Job, to the readiness check or to ready, only
\* when its own options were the last to run, even if another owner replaces
\* the Job under the observation.
ReadyIsCurrent ==
    [][\A o \in Owners : phase[o] = "submitting" /\ phase'[o] \in {"deploying", "ready"}
          => lastRun = Wanted(o)]_vars

\* A failure is charged once, so that no component fails for good before so
\* many of its Jobs, its submissions and its readiness checks have failed
\* since its spec last changed; a failed Job that the cache goes on showing is
\* no second failure.
ChargedOnce == \A o \in Owners : phase[o] = "failed" => failed[o] >= MaxRetries

-----------------------------------------------------------------------------
\* Liveness, for a single owner: its worker comes back to a component that is
\* pending, submitting or deploying, the watch delivers, Jobs end, and they do
\* not fail for ever (a failed Job may be replaced without a charge when the
\* cache has not shown it in time, so the retries alone do not bound the Jobs).
Fairness ==
    /\ \A o \in Owners : WF_vars(Call(o)) /\ WF_vars(Check(o))
    /\ SF_vars(FinishJob("succeeded")) /\ WF_vars(JobGone) /\ WF_vars(SyncJob)

FairSpec == Spec /\ Fairness

\* A component settles: a Job that succeeded is kept and recognised, not
\* submitted over and over, and a release that never gets ready fails.
Settles ==
    \A o \in Owners :
        phase[o] \in {"pending", "submitting", "deploying"} ~> phase[o] \in {"ready", "failed"}
=============================================================================
