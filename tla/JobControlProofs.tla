-------------------------- MODULE JobControlProofs --------------------------
(***************************************************************************)
(* Proofs about JobControl, for any number of owners of one Job name, any  *)
(* number of edits, retries and failures.                                  *)
(***************************************************************************)
EXTENDS JobControl, TLAPS

-----------------------------------------------------------------------------
\* Types, and the phases in which a call may stand.

\* A component that did not fail for good has a retry left; Edit happens
\* between calls only, so a call ends in the phase it began in.
Progress(o) ==
    /\ pc[o] = "observe" => phase[o] = "submitting"
    /\ pc[o] \in {"submit", "delete", "create"} => phase[o] = "pending"
    /\ phase[o] # "failed" => retries[o] < MaxRetries
    /\ phase[o] = "failed" => retries[o] = MaxRetries

TypeInv == TypeOK /\ \A o \in Owners : Progress(o)

\* What is there has an identity and a payload of the past or the present.
Identity ==
    /\ job.state = "absent" <=> job.uid = NoUid
    /\ job.state # "absent" =>
          /\ job.payload \in Payloads
          /\ job.payload = lastRun
          /\ job.payload.edit <= edits[job.payload.owner]

\* j is an earlier copy of k.
Behind(j, k) ==
    /\ j.state = k.state \/ j.state = "running"
    /\ j.deleting => k.deleting

\* The copies of a Job age: the one that was read is behind the cache, the
\* cache is behind the API server, and no later Job is taken for the same.
Aging ==
    /\ job.uid # NoUid /\ cache.uid = job.uid => Behind(cache, job)
    /\ \A o \in Owners :
          job.uid # NoUid /\ read[o].uid = job.uid
            => cache.uid = job.uid /\ Behind(read[o], cache)

\* The Job there has ended, and is not what o waits for.
Unwanted(o) ==
    \/ job.state = "failed"
    \/ job.state = "succeeded" /\ ~Matches(o, job)

\* A call deletes a Job that has ended, unless it succeeded as wanted.
Ending(o) == pc[o] = "delete" /\ SameJob(o) => Unwanted(o)

\* The Job there is the last of o's present spec, and failed.
FailedJob(o) ==
    /\ job.state = "failed" /\ ~job.deleting
    /\ job.payload.owner = o /\ job.payload.edit = edits[o]

\* The failure was charged: the cache shows it, and the call of o that is
\* under way, if any, is about to replace the Job.
Charged(o) ==
    /\ phase[o] = "pending"
    /\ cache.uid = job.uid /\ cache.state = "failed" /\ ~cache.deleting
    /\ pc[o] \in {"idle", "submit", "delete"}
    /\ pc[o] # "idle" => read[o].uid = job.uid

Counted(o) ==
    /\ retries[o] <= failed[o]
    /\ FailedJob(o) => retries[o] < failed[o] \/ phase[o] = "failed" \/ Charged(o)

JobInv ==
    /\ TypeInv
    /\ Identity
    /\ Aging
    /\ \A o \in Owners : Ending(o) /\ Counted(o)

-----------------------------------------------------------------------------
\* How a call goes on and ends, owner by owner.

LEMMA Continues ==
  ASSUME TypeOK, NEW o \in Owners, NEW s, Continue(o, s)
  PROVE  /\ \A p \in Owners : pc'[p] = IF p = o THEN s ELSE pc[p]
         /\ \A p \in Owners : read'[p] = IF p = o THEN cache ELSE read[p]
         /\ UNCHANGED <<phase, retries, edits>>
  BY DEF TypeOK, Continue, ownerVars

LEMMA Returns ==
  ASSUME TypeOK, NEW o \in Owners, NEW f, Return(o, f)
  PROVE  /\ \A p \in Owners : pc'[p] = IF p = o THEN "idle" ELSE pc[p]
         /\ \A p \in Owners : read'[p] = IF p = o THEN NoJob ELSE read[p]
         /\ \A p \in Owners : phase'[p] = IF p = o THEN f ELSE phase[p]
  BY DEF TypeOK, Return

LEMMA Charges ==
  ASSUME TypeInv, NEW o \in Owners, phase[o] # "failed", Charge(o)
  PROVE  /\ Return(o, phase'[o])
         /\ phase'[o] = IF retries'[o] = MaxRetries THEN "failed" ELSE "pending"
         /\ \A p \in Owners : retries'[p] = IF p = o THEN retries[p] + 1 ELSE retries[p]
         /\ retries'[o] \in 1..MaxRetries
         /\ retries' \in [Owners -> 0..MaxRetries]
         /\ UNCHANGED edits
<1>1. retries[o] \in 0..MaxRetries /\ retries[o] < MaxRetries /\ MaxRetries \in Nat
  BY ConstantsAssumption DEF TypeInv, TypeOK, Progress
<1>2. Exhausted(o) <=> retries[o] + 1 = MaxRetries
  BY <1>1 DEF Exhausted
<1>3. retries' = [retries EXCEPT ![o] = retries[o] + 1] /\ UNCHANGED edits
  BY DEF Charge
<1>4. retries'[o] = retries[o] + 1
  BY <1>3 DEF TypeInv, TypeOK
<1>5. phase'[o] = IF Exhausted(o) THEN "failed" ELSE "pending"
  BY Returns DEF Charge, TypeInv
<1>6. Return(o, phase'[o])
  BY <1>5 DEF Charge
<1>7. retries[o] + 1 \in 0..MaxRetries
  BY <1>1
<1> QED
  BY <1>1, <1>2, <1>3, <1>4, <1>5, <1>6, <1>7 DEF TypeInv, TypeOK

LEMMA JobTypes ==
  ASSUME TypeOK
  PROVE  /\ NoJob \in Jobs
         /\ [job EXCEPT !.deleting = TRUE] \in Jobs
         /\ \A s \in Ended : [job EXCEPT !.state = s] \in Jobs
         /\ \A o \in Owners : Wanted(o) \in Payloads
<1>1. NoJob \in Jobs
  BY DEF Jobs, NoJob
<1>2. [job EXCEPT !.deleting = TRUE] \in Jobs
  BY DEF TypeOK, Jobs
<1>3. \A s \in Ended : [job EXCEPT !.state = s] \in Jobs
  BY DEF TypeOK, Jobs
<1>4. ASSUME NEW o \in Owners
      PROVE  Wanted(o) \in Payloads
  <2>1. 0 \in 0..MaxRetries /\ retries[o] \in 0..MaxRetries /\ edits[o] \in 0..MaxEdits
    BY ConstantsAssumption DEF TypeOK
  <2> QED
    BY <2>1 DEF Wanted, Payloads
<1> QED
  BY <1>1, <1>2, <1>3, <1>4

-----------------------------------------------------------------------------
\* Types are kept.

\* The steps of one owner leave the others alone.
OwnerStep(o) == Call(o) \/ Check(o) \/ SubmitFails(o) \/ Edit(o) \/ Crash(o)

LEMMA OthersAlone ==
  ASSUME TypeOK, NEW o \in Owners, OwnerStep(o), NEW p \in Owners \ {o}
  PROVE  pc'[p] = pc[p] /\ phase'[p] = phase[p]
<1> USE DEF jobVars, ownerVars
<1>1. CASE \E f : Return(o, f)
  BY <1>1, Returns
<1>2. CASE \E s : Continue(o, s)
  BY <1>2, Continues
<1>3. CASE Edit(o) \/ (pc' = [pc EXCEPT ![o] = "delete"] /\ UNCHANGED phase)
  BY <1>3 DEF Edit, TypeOK
<1>4. SubmitLive(o) => (\E f : Return(o, f)) \/ (pc' = [pc EXCEPT ![o] = "delete"] /\ UNCHANGED phase)
  BY DEF SubmitLive
<1> QED
  BY <1>1, <1>2, <1>3, <1>4
  DEF OwnerStep, Call, Check, SubmitFails, Crash, ObserveNothing, ObserveEnded, ObserveLive, BecomeReady,
      Charge, Submit, DeleteJob, CreateJob, CheckReady, ReadinessTimeout

LEMMA TypeInit == Init => TypeInv
  BY ConstantsAssumption DEF Init, TypeInv, TypeOK, Progress, Jobs, NoJob, Phases

\* A call that ends in phase f, the retries being consistent with it.
LEMMA ReturnType ==
  ASSUME TypeInv, NEW o \in Owners, NEW f \in Phases, Return(o, f),
         job' \in Jobs, UNCHANGED cache, lastRun' \in Payloads \cup {NoPayload},
         retries' \in [Owners -> 0..MaxRetries], UNCHANGED <<edits, failed>>,
         failures' \in 0..MaxFailures,
         \A p \in Owners \ {o} : retries'[p] = retries[p],
         f # "failed" => retries'[o] < MaxRetries,
         f = "failed" => retries'[o] = MaxRetries
  PROVE  TypeInv'
<1>1. TypeOK'
  BY JobTypes DEF TypeInv, TypeOK, Return
<1>2. \A p \in Owners : Progress(p)'
  BY Returns DEF TypeInv, Progress
<1> QED
  BY <1>1, <1>2 DEF TypeInv

\* A charge, with whatever it does to the Job.
LEMMA ChargeType ==
  ASSUME TypeInv, NEW o \in Owners, phase[o] # "failed", Charge(o),
         job' \in Jobs, UNCHANGED cache, lastRun' \in Payloads \cup {NoPayload},
         failed' \in [Owners -> 0..MaxRetries], failures' \in 0..MaxFailures
  PROVE  TypeInv'
<1>1. TypeOK' /\ TypeOK
  BY Charges, JobTypes DEF TypeInv, TypeOK, Return, Phases
<1>2. \A p \in Owners : Progress(p)'
  BY <1>1, Charges, Returns, ConstantsAssumption DEF TypeInv, Progress, TypeOK
<1> QED
  BY <1>1, <1>2 DEF TypeInv

LEMMA FailTypes ==
  ASSUME TypeOK, NEW o \in Owners
  PROVE  /\ OneMore(o) \in 0..MaxRetries
         /\ Fail => failures' \in 0..MaxFailures
         /\ Unanswered(o) => job' \in Jobs /\ UNCHANGED cache /\ lastRun' \in Payloads \cup {NoPayload}
<1>1. OneMore(o) \in 0..MaxRetries
  BY ConstantsAssumption DEF TypeOK, OneMore
<1>2. Fail => failures' \in 0..MaxFailures
  BY ConstantsAssumption DEF TypeOK, Fail
<1>3. ASSUME StartJob(o)
      PROVE  job' \in Jobs /\ UNCHANGED cache /\ lastRun' \in Payloads \cup {NoPayload}
  <2>1. ASSUME NEW u \in Fresh
        PROVE  [uid |-> u, payload |-> Wanted(o), state |-> "running", deleting |-> FALSE] \in Jobs
    BY JobTypes DEF Jobs, Fresh
  <2> QED
    BY <1>3, <2>1, JobTypes DEF StartJob
<1> QED
  BY <1>1, <1>2, <1>3, JobTypes DEF Unanswered, MarkDeleted, TypeOK, jobVars

LEMMA CallType ==
  ASSUME TypeInv, NEW o \in Owners, Call(o)
  PROVE  TypeInv'
<1> USE DEF jobVars, ownerVars
<1>1. /\ TypeOK /\ Progress(o) /\ Wanted(o) \in Payloads
      /\ "pending" \in Phases /\ "submitting" \in Phases /\ "deploying" \in Phases
      /\ "ready" \in Phases /\ "failed" \in Phases
  BY JobTypes DEF TypeInv, Phases
<1>2. ASSUME Return(o, phase'[o]), phase'[o] \in {"pending", "submitting", "deploying"}, phase[o] # "failed",
             job' \in Jobs, lastRun' \in Payloads \cup {NoPayload},
             UNCHANGED <<cache, retries, edits, failed, failures>>
      PROVE  TypeInv'
  BY <1>1, <1>2, ReturnType DEF Progress, TypeInv, TypeOK
<1>3. ASSUME NEW f, Return(o, f)
      PROVE  phase'[o] = f
  BY <1>1, <1>3, Returns
<1>4. CASE ObserveNothing(o)
  BY <1>1, <1>2, <1>3, <1>4 DEF ObserveNothing, TypeInv, TypeOK
<1>5. CASE ObserveEnded(o)
  BY <1>1, <1>5, Continues DEF ObserveEnded, Continue, TypeInv, TypeOK, Progress
<1>6. CASE ObserveLive(o)
  <2>1. phase[o] = "submitting"
    BY <1>1, <1>6 DEF ObserveLive, Progress
  <2>2. CASE BecomeReady(o)
    <3> USE DEF BecomeReady
    <3>1. retries' \in [Owners -> 0..MaxRetries] /\ retries'[o] < MaxRetries
      BY <1>1, <2>2, ConstantsAssumption DEF TypeOK
    <3>2. \A p \in Owners \ {o} : retries'[p] = retries[p]
      BY <1>1, <2>2 DEF TypeOK
    <3> QED
      BY <1>1, <1>6, <2>2, <3>1, <3>2, ReturnType DEF ObserveLive, TypeOK
  <2>3. CASE Charge(o)
    <3>1. phase'[o] \in Phases
      BY <1>1, <2>1, <2>3, Charges
    <3> QED
      BY <1>1, <1>6, <2>1, <2>3, <3>1, Charges, ReturnType, ConstantsAssumption DEF ObserveLive, TypeOK
  <2>4. CASE (Return(o, "pending") \/ Return(o, "deploying")) /\ UNCHANGED <<retries, edits>>
    BY <1>1, <1>2, <1>3, <1>6, <2>1, <2>4 DEF ObserveLive, TypeOK
  <2> QED
    BY <1>6, <2>2, <2>3, <2>4 DEF ObserveLive
<1>7. CASE Submit(o)
  <2>1. CASE Return(o, "submitting") /\ UNCHANGED <<retries, edits>>
    BY <1>1, <1>2, <1>3, <1>7, <2>1 DEF Submit, TypeOK
  <2>2. ASSUME NEW s \in {"create", "submit"}, Continue(o, s)
        PROVE  TypeInv'
    BY <1>1, <1>7, <2>2, Continues DEF Submit, Continue, TypeInv, TypeOK, Progress
  <2> QED
    BY <1>7, <2>1, <2>2 DEF Submit
<1>8. CASE SubmitLive(o)
  <2>1. phase[o] = "pending" /\ UNCHANGED <<job, cache, lastRun, failed, failures, retries, edits>>
    BY <1>1, <1>8 DEF SubmitLive, Progress
  <2>2. CASE Return(o, "submitting")
    BY <1>1, <1>2, <1>3, <2>1, <2>2 DEF TypeOK
  <2>3. CASE pc' = [pc EXCEPT ![o] = "delete"] /\ UNCHANGED <<read, phase>>
    BY <2>1, <2>3 DEF TypeInv, TypeOK, Progress
  <2> QED
    BY <1>8, <2>2, <2>3 DEF SubmitLive
<1>9. CASE DeleteJob(o)
  BY <1>1, <1>2, <1>3, <1>9, JobTypes DEF DeleteJob, MarkDeleted, Progress, TypeOK
<1>10. CASE CreateJob(o)
  <2>1. Unanswered(o)
    BY <1>10 DEF CreateJob, Unanswered
  <2> QED
    BY <1>1, <1>2, <1>3, <1>10, <2>1, FailTypes DEF CreateJob, Progress
<1> QED
  BY <1>4, <1>5, <1>6, <1>7, <1>8, <1>9, <1>10 DEF Call

LEMMA TypeNext == TypeInv /\ [Next]_vars => TypeInv'
<1> SUFFICES ASSUME TypeInv, [Next]_vars PROVE TypeInv'
  OBVIOUS
<1> USE DEF jobVars, ownerVars
<1>1. TypeOK
  BY DEF TypeInv
<1>2. ASSUME NEW o \in Owners, Edit(o)
      PROVE  TypeInv'
  BY <1>2, ConstantsAssumption DEF Edit, TypeInv, TypeOK, Progress, Phases
<1>3. ASSUME NEW o \in Owners, Crash(o)
      PROVE  TypeInv'
  BY <1>1, <1>3, ReturnType, FailTypes DEF Crash, TypeInv, TypeOK, Progress
<1>8. ASSUME NEW o \in Owners, SubmitFails(o)
      PROVE  TypeInv'
  <2>1. phase[o] = "pending"
    BY <1>1, <1>8 DEF SubmitFails, TypeInv, Progress
  <2>2. failed' \in [Owners -> 0..MaxRetries]
    BY <1>1, <1>8, FailTypes DEF SubmitFails, TypeOK
  <2> QED
    BY <1>1, <1>8, <2>1, <2>2, ChargeType, FailTypes DEF SubmitFails
<1>9. ASSUME NEW o \in Owners, ReadinessTimeout(o)
      PROVE  TypeInv'
  <2>1. failed' \in [Owners -> 0..MaxRetries]
    BY <1>1, <1>9, FailTypes DEF ReadinessTimeout, TypeOK
  <2> QED
    BY <1>1, <1>9, <2>1, ChargeType DEF ReadinessTimeout, TypeOK
<1>10. ASSUME NEW o \in Owners, CheckReady(o)
       PROVE  TypeInv'
  <2>1. /\ retries' \in [Owners -> 0..MaxRetries] /\ retries'[o] < MaxRetries
        /\ \A p \in Owners \ {o} : retries'[p] = retries[p]
    BY <1>1, <1>10, ConstantsAssumption DEF CheckReady, BecomeReady, TypeOK
  <2> QED
    BY <1>1, <1>10, <2>1, ReturnType DEF CheckReady, BecomeReady, Phases, TypeOK
<1>4. ASSUME NEW s \in Ended, FinishJob(s)
      PROVE  TypeInv'
  <2>1. failed' \in [Owners -> 0..MaxRetries]
    BY <1>1, <1>4, FailTypes DEF FinishJob, TypeOK
  <2> QED
    BY <1>1, <1>4, <2>1, JobTypes DEF FinishJob, TypeInv, TypeOK, Progress
<1>5. CASE JobGone \/ SyncJob
  BY <1>1, <1>5, JobTypes DEF JobGone, SyncJob, TypeInv, TypeOK, Progress
<1>6. CASE OtherDelete
  BY <1>1, <1>6, JobTypes, ConstantsAssumption DEF OtherDelete, Fail, MarkDeleted, TypeInv, TypeOK, Progress
<1>7. CASE UNCHANGED vars
  BY <1>7 DEF vars, TypeInv, TypeOK, Progress
<1> QED
  BY <1>2, <1>3, <1>4, <1>5, <1>6, <1>7, <1>8, <1>9, <1>10, CallType DEF Next, Check

\* Every reachable state is well typed, for all values of the constants; in
\* particular the retries never exceed their limit.
THEOREM JobTypeCorrect == Spec => []TypeOK
<1>1. TypeInv => TypeOK
  BY DEF TypeInv
<1> QED
  BY <1>1, TypeInit, TypeNext, PTL DEF Spec

-----------------------------------------------------------------------------
\* JobInv is inductive.

LEMMA JobInit == Init => JobInv
  BY TypeInit
  DEF Init, JobInv, Identity, Aging, Ending, Counted, FailedJob, NoJob, NoUid

\* A step of o that leaves the Jobs alone and keeps or renews o's copy.
LEMMA JobsAlone ==
  ASSUME JobInv, TypeInv', NEW o \in Owners,
         UNCHANGED <<job, cache, lastRun, edits>>,
         \A p \in Owners \ {o} :
             /\ pc'[p] = pc[p] /\ read'[p] = read[p]
             /\ phase'[p] = phase[p] /\ retries'[p] = retries[p] /\ failed'[p] = failed[p],
         read'[o] \in {read[o], cache, NoJob},
         Ending(o)', Counted(o)'
  PROVE  JobInv'
<1>1. Identity'
  BY DEF JobInv, Identity
<1>2. Aging'
  BY DEF JobInv, Aging, Behind, NoJob
<1>3. ASSUME NEW p \in Owners \ {o}
      PROVE  Ending(p)' /\ Counted(p)'
  BY <1>3 DEF JobInv, Ending, Unwanted, Matches, Wanted, SameJob, Counted, FailedJob, Charged
<1> QED
  BY <1>1, <1>2, <1>3 DEF JobInv

\* A Job is marked deleted, after which it is nobody's failure.
LEMMA JobMarked ==
  ASSUME JobInv, TypeInv', MarkDeleted, UNCHANGED edits,
         \A p \in Owners : retries'[p] <= failed'[p],
         \A p \in Owners : pc'[p] # "idle" => retries'[p] = retries[p],
         \A p \in Owners : pc'[p] \in {pc[p], "idle"} /\ read'[p] \in {read[p], NoJob}
  PROVE  JobInv'
<1>0. TypeOK
  BY DEF JobInv, TypeInv
<1>1. /\ job'.state = job.state /\ job'.uid = job.uid /\ job'.payload = job.payload
      /\ job'.deleting /\ UNCHANGED <<cache, lastRun>>
  BY <1>0 DEF MarkDeleted, TypeOK, Jobs
<1>2. Identity'
  BY <1>1 DEF JobInv, Identity
<1>3. Aging'
  BY <1>1 DEF JobInv, Aging, Behind, NoJob
<1>4. ASSUME NEW p \in Owners
      PROVE  Ending(p)' /\ Counted(p)'
  <2>1. pc'[p] = "delete" /\ SameJob(p)' => pc[p] = "delete" /\ SameJob(p)
    BY <1>1 DEF SameJob, NoJob, JobInv, Identity
  <2> QED
    BY <1>1, <2>1 DEF JobInv, Ending, Unwanted, Matches, Wanted, Counted, FailedJob
<1> QED
  BY <1>2, <1>3, <1>4 DEF JobInv

\* A Job is made, which is nobody's failure and which nobody has read.
LEMMA JobStarted ==
  ASSUME JobInv, TypeInv', NEW o \in Owners, StartJob(o), UNCHANGED edits,
         \A p \in Owners : retries'[p] <= failed'[p],
         \A p \in Owners : read'[p] \in {read[p], NoJob}
  PROVE  JobInv'
<1>0. TypeOK
  BY DEF JobInv, TypeInv
<1>1. PICK u \in Fresh :
          job' = [uid |-> u, payload |-> Wanted(o), state |-> "running", deleting |-> FALSE]
  BY DEF StartJob
<1>2. lastRun' = Wanted(o) /\ UNCHANGED cache
  BY DEF StartJob
<1>3. u # NoUid /\ u # cache.uid /\ \A p \in Owners : u # read[p].uid
  BY ConstantsAssumption DEF Fresh, NoUid
<1>4. Wanted(o) \in Payloads /\ Wanted(o).owner = o /\ Wanted(o).edit = edits[o]
      /\ edits[o] \in Nat
  BY <1>0, JobTypes, ConstantsAssumption DEF Wanted, TypeOK
<1>5. Identity'
  BY <1>1, <1>2, <1>3, <1>4 DEF Identity
<1>6. \A p \in Owners : read'[p].uid # u
  BY <1>3 DEF NoJob
<1>7. Aging'
  BY <1>1, <1>2, <1>3, <1>6 DEF Aging
<1>8. \A p \in Owners : Ending(p)' /\ Counted(p)'
  BY <1>1, <1>6 DEF Ending, SameJob, Counted, FailedJob
<1> QED
  BY <1>5, <1>7, <1>8 DEF JobInv

\* Nobody is charged for more than failed.
LEMMA NotOvercharged ==
  ASSUME JobInv
  PROVE  \A p \in Owners : retries[p] <= failed[p]
  BY DEF JobInv, Counted

\* A failure that is counted where it is charged.
LEMMA ChargedWithCount ==
  ASSUME JobInv, NEW o \in Owners, phase[o] # "failed", Charge(o),
         failed' = [failed EXCEPT ![o] = OneMore(o)]
  PROVE  /\ \A p \in Owners : retries'[p] <= failed'[p]
         /\ \A p \in Owners \ {o} : retries'[p] = retries[p] /\ failed'[p] = failed[p]
         /\ retries[o] < failed[o] => retries'[o] < failed'[o] \/ phase'[o] = "failed"
         /\ phase'[o] \in {"failed", "pending"}
<1>1. TypeInv /\ TypeOK
  BY DEF JobInv, TypeInv
<1>2. /\ retries[o] \in Nat /\ failed[o] \in Nat /\ MaxRetries \in Nat
      /\ failed[o] <= MaxRetries /\ retries[o] <= failed[o] /\ retries[o] < MaxRetries
  BY <1>1, NotOvercharged, ConstantsAssumption DEF TypeInv, TypeOK, Progress
<1>3. failed'[o] = OneMore(o) /\ \A p \in Owners \ {o} : failed'[p] = failed[p]
  BY <1>1 DEF TypeOK
<1> QED
  BY <1>1, <1>2, <1>3, Charges, NotOvercharged DEF OneMore

LEMMA JobCall ==
  ASSUME JobInv, TypeInv', NEW o \in Owners, Call(o)
  PROVE  JobInv'
<1> USE DEF jobVars, ownerVars
<1>1. TypeInv /\ TypeOK /\ Progress(o) /\ Identity /\ Aging /\ Ending(o) /\ Counted(o)
  BY DEF JobInv, TypeInv
<1>2. ASSUME UNCHANGED <<job, cache, lastRun, edits, failed, retries>>,
             \E f \in {"pending", "submitting", "deploying"} : Return(o, f),
             phase[o] # "failed", ~(FailedJob(o) /\ Charged(o))
      PROVE  JobInv'
  <2>1. pc'[o] = "idle" /\ (FailedJob(o)' => FailedJob(o))
    BY <1>1, <1>2, Returns DEF FailedJob
  <2>2. Ending(o)' /\ Counted(o)'
    BY <1>1, <1>2, <2>1 DEF Ending, Counted
  <2> QED
    BY <1>1, <1>2, <2>2, Returns, JobsAlone
<1>3. CASE ObserveNothing(o)
  BY <1>2, <1>3 DEF ObserveNothing, Charged
<1>4. CASE ObserveEnded(o)
  <2>1. Ending(o)' /\ Counted(o)'
    BY <1>1, <1>4, Continues DEF ObserveEnded, Ending, Counted, FailedJob, Charged
  <2> QED
    BY <1>1, <1>4, <2>1, Continues, JobsAlone DEF ObserveEnded
<1>5. CASE ObserveLive(o)
  <2>1. phase[o] = "submitting" /\ UNCHANGED <<job, cache, lastRun, failed>>
    BY <1>1, <1>5 DEF ObserveLive, Progress
  <2>2. CASE Confirmed(o) /\ read[o].state = "succeeded" /\ BecomeReady(o)
    <3> USE DEF BecomeReady
    <3>1. retries'[o] = 0 /\ \A p \in Owners \ {o} : retries'[p] = retries[p]
      BY <1>1, <2>2 DEF TypeOK
    <3>2. failed[o] \in Nat
      BY <1>1, ConstantsAssumption DEF TypeOK
    <3>3. Ending(o)' /\ Counted(o)'
      BY <1>1, <2>1, <2>2, <3>1, <3>2, Returns DEF Ending, Counted, FailedJob, Confirmed
    <3> QED
      BY <1>1, <2>1, <2>2, <3>1, <3>3, Returns, JobsAlone
  <2>3. CASE Confirmed(o) /\ read[o].state = "failed" /\ Charge(o)
    <3>1. /\ job.state = "failed" /\ read[o].uid = job.uid /\ ~job.deleting
          /\ job.payload.owner = o /\ job.payload.edit = edits[o] /\ job.uid # NoUid
      BY <1>1, <2>3 DEF Confirmed, Matches, Wanted, Identity
    <3>2. retries[o] < failed[o]
      BY <1>1, <2>1, <3>1 DEF Counted, FailedJob, Charged
    <3>3. cache.uid = job.uid /\ cache.state = "failed" /\ ~cache.deleting
      BY <1>1, <2>3, <3>1 DEF Aging, Behind
    <3>4. /\ retries'[o] = retries[o] + 1 /\ UNCHANGED edits
          /\ \A p \in Owners \ {o} : retries'[p] = retries[p]
          /\ pc'[o] = "idle" /\ phase'[o] \in {"failed", "pending"}
          /\ Return(o, phase'[o])
      BY <1>1, <2>1, <2>3, Charges, Returns
    <3>5. retries[o] \in Nat /\ failed[o] \in Nat
      BY <1>1, ConstantsAssumption DEF TypeOK
    <3>6. Ending(o)' /\ Counted(o)'
      BY <2>1, <3>2, <3>3, <3>4, <3>5 DEF Ending, Counted, Charged
    <3> QED
      BY <1>1, <2>1, <3>4, <3>6, Returns, JobsAlone
  <2>4. CASE (Return(o, "pending") \/ Return(o, "deploying")) /\ UNCHANGED <<retries, edits>>
    BY <1>2, <2>1, <2>4 DEF Charged
  <2> QED
    BY <1>5, <2>2, <2>3, <2>4 DEF ObserveLive
<1>6. CASE Submit(o)
  <2>1. CASE cache.state # "absent" /\ Keep(o, cache) /\ Return(o, "submitting")
             /\ UNCHANGED <<retries, edits>>
    <3>1. ~Charged(o)
      BY <2>1 DEF Keep, Charged
    <3> QED
      BY <1>2, <1>6, <2>1, <3>1 DEF Submit
  <2>2. CASE cache.state = "absent" /\ Continue(o, "create")
    <3>1. Ending(o)' /\ Counted(o)'
      BY <1>1, <1>6, <2>2, Continues DEF Submit, Ending, Counted, FailedJob, Charged
    <3> QED
      BY <1>1, <1>6, <2>2, <3>1, Continues, JobsAlone DEF Submit
  <2>3. CASE Continue(o, "submit")
    <3>1. Ending(o)' /\ Counted(o)'
      BY <1>1, <1>6, <2>3, Continues DEF Submit, Ending, Counted, FailedJob, Charged
    <3> QED
      BY <1>1, <1>6, <2>3, <3>1, Continues, JobsAlone DEF Submit
  <2> QED
    BY <1>6, <2>1, <2>2, <2>3 DEF Submit
<1>7. CASE SubmitLive(o)
  <2>1. phase[o] = "pending" /\ pc[o] = "submit"
        /\ UNCHANGED <<job, cache, lastRun, failed, retries, edits>>
    BY <1>1, <1>7 DEF SubmitLive, Progress
  <2>2. CASE job.state = "absent" \/ job.uid # read[o].uid \/ Keep(o, job)
    <3>1. ~(FailedJob(o) /\ Charged(o))
      BY <2>1, <2>2 DEF Keep, FailedJob, Charged
    <3> QED
      BY <1>2, <1>7, <2>1, <2>2, <3>1 DEF SubmitLive
  <2>3. CASE ~(job.state = "absent" \/ job.uid # read[o].uid \/ Keep(o, job))
    <3>1. pc' = [pc EXCEPT ![o] = "delete"] /\ UNCHANGED <<read, phase>>
      BY <1>7, <2>3 DEF SubmitLive
    <3>2. Unwanted(o)
      <4>1. job.state \in {"absent", "running", "succeeded", "failed"}
        BY <1>1 DEF TypeOK, Jobs, Ended
      <4> QED
        BY <2>3, <4>1 DEF Keep, Unwanted, Matches
    <3>3. Ending(o)' /\ Counted(o)'
      BY <1>1, <2>1, <3>1, <3>2 DEF Ending, Unwanted, Matches, Wanted, Counted, FailedJob, Charged, TypeOK
    <3>4. \A p \in Owners \ {o} : pc'[p] = pc[p]
      BY <1>1, <3>1 DEF TypeOK
    <3> QED
      BY <2>1, <3>1, <3>3, <3>4, JobsAlone
  <2> QED
    BY <2>2, <2>3
<1>8. CASE DeleteJob(o)
  <2>1. phase[o] = "pending" /\ pc[o] = "delete" /\ Return(o, "submitting")
        /\ UNCHANGED <<retries, edits, failed>>
    BY <1>1, <1>8 DEF DeleteJob, Progress
  <2>2. CASE SameJob(o)
    BY <1>1, <1>8, <2>1, <2>2, Returns, NotOvercharged, JobMarked DEF DeleteJob
  <2>3. CASE ~SameJob(o)
    BY <1>2, <1>8, <2>1, <2>3 DEF DeleteJob, SameJob, FailedJob, Charged
  <2> QED
    BY <2>2, <2>3
<1>9. CASE CreateJob(o)
  <2>1. phase[o] = "pending" /\ pc[o] = "create" /\ Return(o, "submitting")
        /\ UNCHANGED <<retries, edits, failed>>
    BY <1>1, <1>9 DEF CreateJob, Progress
  <2>2. CASE StartJob(o)
    BY <1>1, <2>1, <2>2, Returns, NotOvercharged, JobStarted
  <2>3. CASE UNCHANGED jobVars
    BY <1>2, <2>1, <2>3 DEF Charged
  <2> QED
    BY <1>9, <2>2, <2>3 DEF CreateJob
<1> QED
  BY <1>3, <1>4, <1>5, <1>6, <1>7, <1>8, <1>9 DEF Call

LEMMA JobNext == JobInv /\ [Next]_vars => JobInv'
<1> SUFFICES ASSUME JobInv, [Next]_vars PROVE JobInv'
  OBVIOUS
<1> USE DEF jobVars, ownerVars
<1>1. TypeInv /\ TypeOK /\ TypeInv'
  BY TypeNext DEF JobInv, TypeInv
<1>2. ASSUME NEW o \in Owners, Edit(o)
      PROVE  JobInv'
  <2>1. /\ \A p \in Owners : edits'[p] = IF p = o THEN edits[o] + 1 ELSE edits[p]
        /\ \A p \in Owners : edits[p] \in Nat
        /\ retries'[o] = 0 /\ failed'[o] = 0 /\ pc'[o] = "idle"
    BY <1>1, <1>2, ConstantsAssumption DEF Edit, TypeOK
  <2>2. job.state # "absent" => job.payload.owner \in Owners /\ job.payload.edit \in Nat
    BY ConstantsAssumption DEF JobInv, Identity, Payloads
  <2>3. Identity'
    BY <1>2, <2>1, <2>2 DEF Edit, JobInv, Identity
  <2>4. Aging' /\ \A p \in Owners : Ending(p)'
    BY <1>2 DEF Edit, JobInv, Aging, Ending, Unwanted, Matches, Wanted, SameJob
  <2>5. Counted(o)'
    BY <1>2, <2>1, <2>2 DEF Edit, JobInv, Identity, Counted, FailedJob
  <2>6. ASSUME NEW p \in Owners \ {o}
        PROVE  Counted(p)'
    <3>1. retries'[p] = retries[p] /\ failed'[p] = failed[p] /\ phase'[p] = phase[p] /\ edits'[p] = edits[p]
      BY <1>1, <1>2, <2>6 DEF Edit, TypeOK
    <3> QED
      BY <1>2, <2>6, <3>1 DEF Edit, JobInv, Counted, FailedJob, Charged
  <2> QED
    BY <1>1, <2>3, <2>4, <2>5, <2>6 DEF JobInv
<1>3. ASSUME NEW o \in Owners, Crash(o)
      PROVE  JobInv'
  <2>1. /\ pc'[o] = "idle" /\ phase'[o] = phase[o] /\ read'[o] = NoJob
        /\ UNCHANGED <<edits, failed, retries>>
    BY <1>1, <1>3, Returns DEF Crash
  <2>2. CASE UNCHANGED jobVars
    <3>1. Ending(o)' /\ Counted(o)'
      BY <2>1, <2>2 DEF JobInv, Ending, Counted, FailedJob, Charged
    <3> QED
      BY <1>1, <1>3, <2>1, <2>2, <3>1, Returns, JobsAlone DEF Crash
  <2>3. CASE MarkDeleted
    BY <1>1, <1>3, <2>1, <2>3, Returns, NotOvercharged, JobMarked DEF Crash
  <2>4. CASE StartJob(o)
    BY <1>1, <1>3, <2>1, <2>4, Returns, NotOvercharged, JobStarted DEF Crash
  <2> QED
    BY <1>3, <2>2, <2>3, <2>4 DEF Crash, Unanswered
<1>9. ASSUME NEW o \in Owners, SubmitFails(o)
      PROVE  JobInv'
  <2>1. phase[o] = "pending" /\ Charge(o) /\ failed' = [failed EXCEPT ![o] = OneMore(o)]
    BY <1>1, <1>9 DEF SubmitFails, TypeInv, Progress
  <2>2. Return(o, phase'[o]) /\ UNCHANGED edits
    BY <1>1, <2>1, Charges
  <2>3. CASE UNCHANGED jobVars
    <3>1. Ending(o)' /\ Counted(o)'
      BY <1>1, <2>1, <2>2, <2>3, Returns, ChargedWithCount
      DEF JobInv, Ending, Counted, FailedJob, Charged
    <3> QED
      BY <1>1, <2>1, <2>2, <2>3, <3>1, Returns, ChargedWithCount, JobsAlone
  <2>4. CASE MarkDeleted
    BY <1>1, <2>1, <2>2, <2>4, Returns, ChargedWithCount, JobMarked
  <2>5. CASE StartJob(o)
    BY <1>1, <2>1, <2>2, <2>5, Returns, ChargedWithCount, JobStarted
  <2> QED
    BY <1>9, <2>3, <2>4, <2>5 DEF SubmitFails, Unanswered
<1>10. ASSUME NEW o \in Owners, ReadinessTimeout(o)
       PROVE  JobInv'
  <2>1. phase[o] = "deploying" /\ Charge(o) /\ failed' = [failed EXCEPT ![o] = OneMore(o)]
        /\ UNCHANGED <<job, cache, lastRun>>
    BY <1>10 DEF ReadinessTimeout
  <2>2. Return(o, phase'[o]) /\ UNCHANGED edits
    BY <1>1, <2>1, Charges
  <2>3. Ending(o)' /\ Counted(o)'
    BY <1>1, <2>1, <2>2, Returns, ChargedWithCount DEF JobInv, Ending, Counted, FailedJob, Charged
  <2> QED
    BY <1>1, <2>1, <2>2, <2>3, Returns, ChargedWithCount, JobsAlone
<1>11. ASSUME NEW o \in Owners, CheckReady(o)
       PROVE  JobInv'
  <2>1. /\ phase[o] = "deploying" /\ Return(o, "ready")
        /\ retries'[o] = 0 /\ \A p \in Owners \ {o} : retries'[p] = retries[p]
        /\ UNCHANGED <<job, cache, lastRun, edits, failed>>
        /\ failed[o] \in Nat /\ retries[o] \in Nat /\ retries[o] <= failed[o]
    BY <1>1, <1>11, NotOvercharged, ConstantsAssumption DEF CheckReady, BecomeReady, TypeOK
  <2>2. Ending(o)' /\ Counted(o)'
    BY <2>1, <1>1, Returns DEF JobInv, Ending, Counted, FailedJob, Charged
  <2> QED
    BY <1>1, <2>1, <2>2, Returns, JobsAlone
<1>4. ASSUME NEW s \in Ended, FinishJob(s)
      PROVE  JobInv'
  <2>1. /\ job'.state = s /\ job'.uid = job.uid /\ job'.payload = job.payload
        /\ job'.deleting = job.deleting /\ job.state = "running" /\ s # "absent"
        /\ UNCHANGED <<cache, lastRun, pc, read, phase, retries, edits>>
    BY <1>1, <1>4 DEF FinishJob, TypeOK, Jobs, Ended
  <2>2. Identity' /\ Aging'
    BY <2>1 DEF JobInv, Identity, Aging, Behind
  <2>3. ASSUME NEW p \in Owners
        PROVE  Ending(p)' /\ Counted(p)'
    <3>1. /\ failed[p] \in 0..MaxRetries /\ retries[p] \in 0..MaxRetries /\ MaxRetries \in Nat
          /\ phase[p] # "failed" => retries[p] < MaxRetries
      BY <1>1, ConstantsAssumption DEF TypeOK, TypeInv, Progress
    <3>2. failed'[p] = IF s = "failed" /\ job.payload.owner = p /\ job.payload.edit = edits[p]
                          /\ failed[p] < MaxRetries
                       THEN failed[p] + 1 ELSE failed[p]
      BY <1>4 DEF FinishJob, OneMore
    <3>3. Counted(p)'
      BY <2>1, <3>1, <3>2 DEF JobInv, Counted, FailedJob
    <3> QED
      BY <2>1, <3>3 DEF JobInv, Ending, SameJob, Unwanted
  <2> QED
    BY <1>1, <2>2, <2>3 DEF JobInv
<1>5. CASE JobGone
  BY <1>1, <1>5
  DEF JobGone, JobInv, Identity, Aging, Ending, SameJob, Counted, FailedJob, NoJob
<1>6. CASE OtherDelete
  BY <1>1, <1>6, NotOvercharged, JobMarked DEF OtherDelete
<1>7. CASE SyncJob
  <2>1. Identity' /\ Aging'
    BY <1>7 DEF SyncJob, JobInv, Identity, Aging, Behind
  <2>2. \A p \in Owners : Ending(p)' /\ Counted(p)'
    BY <1>7 DEF SyncJob, JobInv, Ending, Unwanted, Matches, Wanted, SameJob, Counted, FailedJob, Charged
  <2> QED
    BY <1>1, <2>1, <2>2 DEF JobInv
<1>8. CASE UNCHANGED vars
  BY <1>1, <1>8
  DEF vars, JobInv, Identity, Aging, Behind, Ending, Unwanted, Matches, Wanted, SameJob,
      Counted, FailedJob, Charged
<1> QED
  BY <1>1, <1>2, <1>3, <1>4, <1>5, <1>6, <1>7, <1>8, <1>9, <1>10, <1>11, JobCall DEF Next, Check

LEMMA JobInvariant == Spec => []JobInv
  BY JobInit, JobNext, PTL DEF Spec

\* A component is failed for good only after MaxRetries of its own Jobs, its
\* submissions and its readiness checks, of its present spec, have failed: no
\* failure is charged twice, though the cache may go on showing it.
THEOREM FailuresAreChargedOnce == Spec => []ChargedOnce
<1>1. JobInv => ChargedOnce
  BY DEF JobInv, TypeInv, Progress, Counted, ChargedOnce
<1> QED
  BY <1>1, JobInvariant, PTL

\* The operator deletes no Job that runs, whatever copy it decided from and
\* whoever replaced the Job since.
THEOREM RunningJobsAreKept == Spec => RunningJobKept
<1>1. JobInv /\ [Next]_vars =>
        [\A o \in Owners : pc[o] = "delete" /\ pc'[o] = "idle" /\ job'.deleting /\ ~job.deleting
            => job.state \in Ended]_vars
  <2> SUFFICES ASSUME JobInv, Next, NEW o \in Owners,
                      pc[o] = "delete", pc'[o] = "idle", job'.deleting, ~job.deleting
               PROVE  job.state \in Ended
    OBVIOUS
  <2> USE DEF jobVars, ownerVars
  <2>1. TypeOK /\ Ending(o)
    BY DEF JobInv, TypeInv
  <2>2. PICK p \in Owners : OwnerStep(p)
    BY DEF Next, OwnerStep, FinishJob, JobGone, OtherDelete, SyncJob
  <2>3. \A q \in Owners : pc'[q] # pc[q] => q = p
    BY <2>1, <2>2, OthersAlone
  <2>4. p = o
    BY <2>3
  <2>5. DeleteJob(o) \/ Unanswered(o)
    BY <2>2, <2>4 DEF OwnerStep, Call, Check, Edit, Crash, SubmitFails, ObserveNothing, ObserveEnded,
        ObserveLive, Submit, SubmitLive, CreateJob, CheckReady, ReadinessTimeout
  <2>6. SameJob(o)
    BY <2>5 DEF DeleteJob, Unanswered
  <2> QED
    BY <2>1, <2>6 DEF Ending, Unwanted, Ended
<1> QED
  BY <1>1, JobInvariant, PTL DEF Spec, RunningJobKept

\* A component goes on to its readiness check, or to ready, only from the Job
\* that ran last, and that Job ran its present options.
THEOREM ReadyIsOfTheLastJob == Spec => ReadyIsCurrent
<1>1. JobInv /\ [Next]_vars =>
        [\A o \in Owners : phase[o] = "submitting" /\ phase'[o] \in {"deploying", "ready"}
            => lastRun = Wanted(o)]_vars
  <2> SUFFICES ASSUME JobInv, Next, NEW o \in Owners,
                      phase[o] = "submitting", phase'[o] \in {"deploying", "ready"}
               PROVE  lastRun = Wanted(o)
    OBVIOUS
  <2> USE DEF jobVars, ownerVars
  <2>1. TypeOK /\ TypeInv /\ Identity
    BY DEF JobInv, TypeInv
  <2>2. PICK p \in Owners : OwnerStep(p)
    BY DEF Next, OwnerStep, FinishJob, JobGone, OtherDelete, SyncJob
  <2>3. \A q \in Owners : phase'[q] # phase[q] => q = p
    BY <2>1, <2>2, OthersAlone
  <2>4. p = o
    BY <2>3
  <2>5. Progress(o)
    BY DEF JobInv, TypeInv
  <2>6. ObserveLive(o)
    <3>1. CASE Call(o)
      BY <2>1, <2>5, <3>1, Returns, Continues
      DEF Call, ObserveNothing, ObserveEnded, Submit, SubmitLive, DeleteJob, CreateJob, Progress
    <3>2. CASE Check(o) \/ SubmitFails(o)
      BY <2>5, <3>2 DEF Check, SubmitFails, CheckReady, ReadinessTimeout, Progress
    <3>3. CASE Edit(o) \/ Crash(o)
      BY <2>1, <3>3, Returns DEF Edit, Crash, TypeOK
    <3> QED
      BY <2>2, <2>4, <3>1, <3>2, <3>3 DEF OwnerStep
  <2>7. Confirmed(o) /\ read[o].state = "succeeded"
    BY <2>1, <2>6, Returns DEF ObserveLive, Charge
  <2> QED
    BY <2>1, <2>7 DEF Confirmed, Matches, Identity
<1> QED
  BY <1>1, JobInvariant, PTL DEF Spec, ReadyIsCurrent

-----------------------------------------------------------------------------
\* A call as EnvDeploy and EnvTeardown see it, in one step on the live Job.

\* The Job that o wants is made where there is none.
Creates(o) ==
    /\ job.state = "absent"
    /\ job'.state = "running" /\ job'.payload = Wanted(o) /\ ~job'.deleting

\* A Job that failed, or succeeded with other options, is deleted.
Replaces(o) == Unwanted(o) /\ ~job.deleting /\ job' = [job EXCEPT !.deleting = TRUE]

Reported(o, state) == job.state = state /\ ~job.deleting /\ Matches(o, job)

\* What a step does to the Job.
Acted(o) == job' = job \/ Creates(o) \/ Replaces(o)

\* What a call reports.
Truthful(o) ==
    /\ phase'[o] \in {"deploying", "ready"} => Reported(o, "succeeded")
    /\ retries'[o] > retries[o] => Reported(o, "failed")

Contracted(o) == (OwnerStep(o) => Acted(o)) /\ (Call(o) => Truthful(o))

\* Although a call reads, reads again and writes, with anybody between, what it
\* does to the Job is right of the Job it finds there, even when it fails or
\* the operator crashes: it makes one only where there is none and deletes only
\* one that failed or is not wanted, never one that runs or succeeded as wanted.
\* What a call that does not fail reports is so when it returns.
THEOREM CallsAreContracted == Spec => [][\A o \in Owners : Contracted(o)]_vars
<1>1. JobInv /\ [Next]_vars => [\A o \in Owners : Contracted(o)]_vars
  <2> SUFFICES ASSUME JobInv, Next, NEW o \in Owners
               PROVE  Contracted(o)
    OBVIOUS
  <2> USE DEF jobVars, ownerVars
  <2>1. TypeOK /\ Ending(o) /\ Progress(o) /\ retries[o] \in Nat
    BY ConstantsAssumption DEF JobInv, TypeInv, TypeOK
  <2>2. ASSUME OwnerStep(o)
        PROVE  Acted(o)
    <3>1. job' = job \/ Unanswered(o) \/ DeleteJob(o)
      BY <2>2 DEF OwnerStep, Call, Check, SubmitFails, Edit, Crash, ObserveNothing, ObserveEnded,
          ObserveLive, Submit, SubmitLive, CreateJob, CheckReady, ReadinessTimeout, Unanswered
    <3>2. ASSUME StartJob(o), job.state = "absent"
          PROVE  Creates(o)
      BY <3>2 DEF StartJob, Creates
    <3>3. ASSUME MarkDeleted, SameJob(o), pc[o] = "delete"
          PROVE  job' = job \/ Replaces(o)
      BY <2>1, <3>3 DEF MarkDeleted, Ending, Replaces, TypeOK, Jobs
    <3> QED
      BY <3>1, <3>2, <3>3 DEF Acted, Unanswered, DeleteJob
  <2>3. ASSUME Call(o)
        PROVE  Truthful(o)
    <3>1. CASE ObserveLive(o)
      <4>1. phase'[o] \in {"deploying", "ready"} => Reported(o, "succeeded")
        BY <2>1, <3>1, Returns DEF ObserveLive, BecomeReady, Charge, Confirmed, Reported, Progress
      <4>2. retries'[o] > retries[o] => Reported(o, "failed")
        BY <2>1, <3>1, Returns DEF ObserveLive, BecomeReady, Charge, Confirmed, Reported, TypeOK
      <4> QED
        BY <4>1, <4>2 DEF Truthful
    <3>2. CASE ~ObserveLive(o)
      <4>1. retries' = retries
        BY <2>3, <3>2 DEF Call, ObserveNothing, ObserveEnded, Submit, SubmitLive, DeleteJob,
            CreateJob, Continue
      <4>2. phase'[o] \notin {"deploying", "ready"}
        BY <2>1, <2>3, <3>2, Returns, Continues
        DEF Call, ObserveNothing, ObserveEnded, Submit, SubmitLive, DeleteJob, CreateJob, Progress
      <4> QED
        BY <2>1, <4>1, <4>2 DEF Truthful
    <3> QED
      BY <3>1, <3>2
  <2> QED
    BY <2>2, <2>3 DEF Contracted
<1> QED
  BY <1>1, JobInvariant, PTL DEF Spec

=============================================================================
