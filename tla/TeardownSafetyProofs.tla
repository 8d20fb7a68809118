------------------------ MODULE TeardownSafetyProofs ------------------------
(***************************************************************************)
(* Proofs about EnvTeardown: what is left behind when cleanup is complete, *)
(* and with what its Jobs run.                                             *)
(***************************************************************************)
EXTENDS EnvTeardownProofs

-----------------------------------------------------------------------------
\* Why nothing is left behind.

\* There is no allocation, nor is one being made.
Free(s) == s \notin allocated /\ provision[s] # "running"

\* Whatever an allocation of s outlives, the properties allow for it.
Excused(s) == s \in raced \/ fate[s] \in {"abandoned", "skipped"}

\* A binding goes only when the allocation is gone; so does a component that
\* can be deprovisioned; a deprovision Job of this environment succeeds after
\* the provision Job has ended, and Jobs have their credentials.
SharedOK(s) ==
    /\ s \in scripted /\ s \notin binding => Free(s) \/ Excused(s)
    /\ s \in scripted /\ fate[s] = "removed" => Free(s) \/ s \in raced
    /\ job[s].attempt = 0 /\ job[s].state = "succeeded" => Free(s)
    /\ job[s].state = "running" =>
          provision[s] # "running" /\ s \in credentials /\ s \in scripted
    /\ provision[s] = "running" => s \in credentials

\* What was undeployed stays so, unless its deploy Job still ran.
PlainOK(c) ==
    /\ job[c].state = "succeeded" \/ fate[c] = "removed" =>
          c \in raced \/ c \notin installed \cup deploying
    /\ fate[c] # "skipped"

\* The shared component the pass is about.
PassOK ==
    /\ pc \in {"deprovision", "resubmit", "drop"} => This \in Shared /\ provision[This] # "running"
    /\ pc \in {"deprovision", "resubmit"} => This \in credentials /\ This \in scripted
    /\ pc = "drop" =>
          /\ job[This].state # "running"
          /\ This \in scripted => Free(This) \/ Excused(This)

SafetyInv ==
    /\ \A s \in Shared : SharedOK(s)
    /\ \A c \in Plain : PlainOK(c)
    /\ PassOK

-----------------------------------------------------------------------------
\* What a step does not touch.

LEMMA SharedFrame ==
  ASSUME NEW s \in Shared, SharedOK(s), UNCHANGED scripted,
         job'[s] = job[s], provision'[s] = provision[s], fate'[s] = fate[s],
         s \in allocated' => s \in allocated, s \in binding => s \in binding',
         s \in credentials => s \in credentials', s \in raced => s \in raced'
  PROVE  SharedOK(s)'
  BY DEF SharedOK, Free, Excused

LEMMA PlainFrame ==
  ASSUME NEW c \in Plain, PlainOK(c), job'[c] = job[c], fate'[c] = fate[c],
         c \in installed' \cup deploying' => c \in installed \cup deploying,
         c \in raced => c \in raced'
  PROVE  PlainOK(c)'
  BY DEF PlainOK

LEMMA NotBoth == \A c \in Plain : c \notin Shared
  BY DEF Plain

LEMMA BecomeFacts ==
  ASSUME Typed, NEW c \in Components, NEW f \in Fates, Become(c, f)
  PROVE  /\ \A d \in Components : d # c => fate'[d] = fate[d]
         /\ fate'[c] = IF Gone(c) THEN fate[c] ELSE f
  BY DEF Typed, TypeOK, Become, Gone

LEMMA SubmitJobFacts ==
  ASSUME Typed, NEW c \in Components, SubmitJob(c)
  PROVE  /\ \A d \in Components : d # c => job'[d] = job[d] /\ fate'[d] = fate[d]
         /\ \/ job'[c] = job[c] \/ job'[c].state = "deleting"
            \/ job'[c].state = "running" /\ job'[c].attempt = WantedAttempt(c)
         /\ fate'[c] = fate[c] \/ fate'[c] = "leaving"
<1>1. job \in [Components -> Jobs] /\ job[c] \in Jobs
  BY DEF Typed, TypeOK
<1>2. CASE job[c].seen /\ job[c].state = "absent"
  <2> DEFINE new == [attempt |-> WantedAttempt(c), seen |-> FALSE, state |-> "running"]
  <2>1. job' = [job EXCEPT ![c] = new] /\ Become(c, "leaving")
    BY <1>2 DEF SubmitJob
  <2>2. new.state = "running" /\ new.attempt = WantedAttempt(c)
    OBVIOUS
  <2> HIDE DEF new
  <2>3. job'[c] = new /\ \A d \in Components : d # c => job'[d] = job[d]
    BY <1>1, <2>1
  <2> QED
    BY <2>1, <2>2, <2>3, BecomeFacts DEF Fates
<1>3. CASE ~(job[c].seen /\ job[c].state = "absent")
  <2> DEFINE going == [job[c] EXCEPT !.state = "deleting", !.seen = FALSE]
  <2>1. fate' = fate /\ (job' = job \/ job' = [job EXCEPT ![c] = going])
    BY <1>3 DEF SubmitJob
  <2>2. going.state = "deleting"
    BY <1>1 DEF Jobs
  <2> HIDE DEF going
  <2> QED
    BY <1>1, <2>1, <2>2
<1> QED
  BY <1>2, <1>3

-----------------------------------------------------------------------------
\* The first steps of a pass.

LEMMA ConcludeSteps == \A s : Conclude(s) => pc' = "patch"
  BY DEF Conclude, Continue

LEMMA ReleaseFromSteps ==
  ASSUME NEW rest, NEW s, ReleaseFrom(rest, s)
  PROVE  pc' \in {"patch", "release"}
  BY ConcludeSteps DEF ReleaseFrom, Continue

LEMMA StartLevelSteps ==
  ASSUME NEW l, NEW s, StartLevel(l, s)
  PROVE  pc' \in {"patch", "release", "observe"}
  BY ReleaseFromSteps DEF StartLevel, Continue

LEMMA LevelObservedSteps ==
  ASSUME NEW s, NEW w, LevelObserved(s, w)
  PROVE  pc' \in {"patch", "release", "observe", "submit"}
  BY StartLevelSteps, ConcludeSteps DEF LevelObserved, Continue

\* A step that changes nothing but the course of the pass.
LEMMA QuietSafety ==
  ASSUME Typed, SafetyInv, UNCHANGED <<scripted, jobs, effects, secrets, history>>,
         pc' \notin {"deprovision", "resubmit", "drop"}
  PROVE  SafetyInv'
<1>1. ASSUME NEW s \in Shared PROVE SharedOK(s)'
  BY SharedFrame DEF SafetyInv, jobs, effects, secrets, history
<1>2. ASSUME NEW c \in Plain PROVE PlainOK(c)'
  BY PlainFrame DEF SafetyInv, jobs, effects, secrets, history
<1>3. PassOK'
  BY DEF PassOK
<1> QED
  BY <1>1, <1>2, <1>3 DEF SafetyInv

LEMMA BeginSafety ==
  ASSUME Typed, SafetyInv, Begin
  PROVE  SafetyInv'
<1>1. pc' \in {"patch", "release", "observe"}
  BY StartLevelSteps, ConcludeSteps DEF Begin
<1> QED
  BY <1>1, QuietSafety DEF Begin, others

LEMMA EndSafety ==
  ASSUME Typed, SafetyInv, StepFails \/ Patch \/ Abort
  PROVE  SafetyInv'
<1>1. pc' \in {"patch", "idle"}
  BY ConcludeSteps DEF StepFails, Patch, Abort, EndPass, Continue
<1>2. UNCHANGED <<scripted, jobs, effects, secrets, history>>
  BY DEF StepFails, Patch, Abort, untouched, others
<1> QED
  BY <1>1, <1>2, QuietSafety

LEMMA ObserveSafety ==
  ASSUME Typed, SafetyInv, NEW c \in Plain, Observe(c)
  PROVE  SafetyInv'
<1>1. c \in Components /\ pc = "observe"
  BY PlainOrShared DEF Observe
<1>2. UNCHANGED <<scripted, job, provision, effects, secrets, raced>>
  BY DEF Observe, untouched, others, jobs
<1>3. \/ fate' = fate
      \/ job[c].state = "succeeded" /\ Become(c, "removed")
      \/ Become(c, "abandoned")
  BY DEF Observe, Verdicts
<1>4. /\ \A d \in Components : d # c => fate'[d] = fate[d]
      /\ fate'[c] = fate[c] \/ fate'[c] = "abandoned"
            \/ (fate'[c] = "removed" /\ job[c].state = "succeeded")
  BY <1>1, <1>3, BecomeFacts DEF Fates
<1>5. pc' \notin {"deprovision", "resubmit", "drop"}
  BY <1>1, LevelObservedSteps DEF Observe, Continue
<1>6. ASSUME NEW s \in Shared PROVE SharedOK(s)'
  <2>1. s # c /\ s \in Components
    BY NotBoth, SharedType
  <2> QED
    BY <1>2, <1>4, <2>1, SharedFrame DEF SafetyInv, effects, secrets
<1>7. ASSUME NEW d \in Plain PROVE PlainOK(d)'
  <2>1. PlainOK(d) /\ d \in Components
    BY PlainOrShared DEF SafetyInv
  <2>2. CASE d # c
    BY <1>2, <1>4, <2>1, <2>2, PlainFrame DEF effects
  <2>3. CASE d = c
    BY <1>2, <1>4, <2>1, <2>3 DEF PlainOK, effects
  <2> QED
    BY <2>2, <2>3
<1>8. PassOK'
  BY <1>5 DEF PassOK
<1> QED
  BY <1>6, <1>7, <1>8 DEF SafetyInv

LEMMA SubmitSafety ==
  ASSUME Typed, SafetyInv, NEW c \in Plain, Submit(c)
  PROVE  SafetyInv'
<1>1. c \in Components /\ pc = "submit"
  BY PlainOrShared DEF Submit
<1>2. UNCHANGED <<scripted, provision, effects, secrets, raced>>
  BY DEF Submit, untouched, others
<1>3. /\ \A d \in Components : d # c => job'[d] = job[d] /\ fate'[d] = fate[d]
      /\ job'[c] = job[c] \/ job'[c].state \in {"deleting", "running"}
      /\ fate'[c] = fate[c] \/ fate'[c] = "leaving"
  BY <1>1, SubmitJobFacts DEF Submit
<1>4. pc' \notin {"deprovision", "resubmit", "drop"}
  BY <1>1, ConcludeSteps DEF Submit, Continue
<1>5. ASSUME NEW s \in Shared PROVE SharedOK(s)'
  <2>1. s # c /\ s \in Components
    BY NotBoth, SharedType
  <2> QED
    BY <1>2, <1>3, <2>1, SharedFrame DEF SafetyInv, effects, secrets
<1>6. ASSUME NEW d \in Plain PROVE PlainOK(d)'
  <2>1. PlainOK(d) /\ d \in Components
    BY PlainOrShared DEF SafetyInv
  <2>2. CASE d # c
    BY <1>2, <1>3, <2>1, <2>2, PlainFrame DEF effects
  <2>3. CASE d = c
    BY <1>2, <1>3, <2>1, <2>3 DEF PlainOK, effects
  <2> QED
    BY <2>2, <2>3
<1>7. PassOK'
  BY <1>4 DEF PassOK
<1> QED
  BY <1>5, <1>6, <1>7 DEF SafetyInv

-----------------------------------------------------------------------------
\* The shared components, one after the other.

LEMMA ProceedSteps == ASSUME Proceed PROVE pc' \in {"patch", "release"}
  BY ReleaseFromSteps DEF Proceed

LEMMA ContinueFacts ==
  ASSUME NEW p, NEW s, NEW w, Continue(p, s, w)
  PROVE  pc' = p /\ work' = w
  BY DEF Continue

LEMMA DropFacts ==
  ASSUME Typed, NEW s, NEW items, Drop(s, items)
  PROVE  pc' = "drop" /\ This' = This
<1> DEFINE w == [work EXCEPT !.drops = items]
<1>1. w.rest = work.rest
  BY DEF Typed, TypeOK, Works
<1>2. Continue("drop", s, w)
  BY DEF Drop
<1> HIDE DEF w
<1> QED
  BY <1>1, <1>2 DEF Continue, This

\* Components other than the one that is released.
LEMMA OtherShared ==
  ASSUME SafetyInv, NEW s \in Shared, UNCHANGED scripted,
         \A d \in Components : d # s =>
            /\ job'[d] = job[d] /\ fate'[d] = fate[d]
            /\ d \in Shared => provision'[d] = provision[d]
            /\ d \in binding => d \in binding'
            /\ d \in credentials => d \in credentials',
         UNCHANGED effects, raced \subseteq raced'
  PROVE  /\ \A x \in Shared : x # s => SharedOK(x)'
         /\ \A c \in Plain : PlainOK(c)'
<1>1. ASSUME NEW x \in Shared, x # s PROVE SharedOK(x)'
  <2>1. x \in Components /\ SharedOK(x)
    BY SharedType DEF SafetyInv
  <2> QED
    BY <1>1, <2>1, SharedFrame DEF effects
<1>2. ASSUME NEW c \in Plain PROVE PlainOK(c)'
  <2>1. c \in Components /\ c # s /\ PlainOK(c)
    BY PlainOrShared, NotBoth DEF SafetyInv
  <2> QED
    BY <2>1, PlainFrame DEF effects
<1> QED
  BY <1>1, <1>2

LEMMA ReleaseSafety ==
  ASSUME Typed, SafetyInv, NEW s \in Shared, Release(s)
  PROVE  SafetyInv'
<1>1. s \in Components /\ s = This /\ SharedOK(s)
  BY SharedType DEF Release, SafetyInv
<1>2. UNCHANGED <<scripted, job, provision, effects, binding>>
  BY DEF Release, untouched, others, jobs
<1>3. credentials \subseteq credentials' /\ raced \subseteq raced'
  BY DEF Release, Equipped
<1>4. \/ fate' = fate \/ Become(s, "skipped") \/ Become(s, "leaving")
      \/ Become(s, "removed") /\ (s \in binding => s \in raced')
  BY DEF Release
<1>5. /\ \A d \in Components : d # s => fate'[d] = fate[d]
      /\ \/ fate'[s] = fate[s]
         \/ ~Gone(s) /\ fate'[s] \in {"skipped", "leaving"}
         \/ ~Gone(s) /\ fate'[s] = "removed" /\ (s \in binding => s \in raced')
  BY <1>1, <1>4, BecomeFacts DEF Fates
<1>6. /\ \A x \in Shared : x # s => SharedOK(x)'
      /\ \A c \in Plain : PlainOK(c)'
  BY <1>2, <1>3, <1>5, OtherShared
<1>7. SharedOK(s)'
  <2>1. Free(s)' = Free(s)
    BY <1>2 DEF Free, effects
  <2>2. Excused(s) => Excused(s)'
    BY <1>3, <1>5 DEF Excused, Gone
  <2>3. s \in scripted /\ fate'[s] = "removed" => Free(s) \/ s \in raced'
    <3>1. CASE fate'[s] = fate[s]
      BY <1>1, <1>3, <3>1 DEF SharedOK
    <3>2. CASE ~Gone(s) /\ fate'[s] = "removed" /\ (s \in binding => s \in raced')
      BY <1>1, <1>3, <3>2 DEF SharedOK, Excused, Gone
    <3> QED
      BY <1>5, <3>1, <3>2
  <2> QED
    BY <1>1, <1>2, <1>3, <2>1, <2>2, <2>3 DEF SharedOK
<1>8. PassOK'
  <2>1. \/ Proceed \/ Conclude(local)
        \/ s \notin scripted /\ ~Busy(s) /\ Drop(local, <<"provision">> \o BothSecrets)
        \/ s \in scripted /\ ~Busy(s) /\ Continue("deprovision", local, work)
    BY DEF Release
  <2>2. CASE Proceed \/ Conclude(local)
    BY <2>2, ProceedSteps, ConcludeSteps DEF PassOK
  <2>3. CASE s \notin scripted /\ ~Busy(s) /\ Drop(local, <<"provision">> \o BothSecrets)
    <3>1. pc' = "drop" /\ This' = s
      BY <1>1, <2>3, DropFacts
    <3>2. job[s].state # "running" /\ provision[s] # "running"
      BY <1>1, <2>3 DEF SharedOK, Busy
    <3> QED
      BY <1>2, <2>3, <3>1, <3>2 DEF PassOK
  <2>4. CASE s \in scripted /\ ~Busy(s) /\ Continue("deprovision", local, work)
    <3>1. pc' = "deprovision" /\ This' = s
      BY <1>1, <2>4 DEF Continue, This
    <3>2. provision[s] # "running" /\ s \in credentials'
      BY <2>4, <3>1 DEF Busy, Release, Equipped
    <3> QED
      BY <1>2, <2>4, <3>1, <3>2 DEF PassOK
  <2> QED
    BY <2>1, <2>2, <2>3, <2>4
<1> QED
  BY <1>6, <1>7, <1>8 DEF SafetyInv

LEMMA DeprovisionSafety ==
  ASSUME Typed, SafetyInv, NEW s \in Shared, Deprovision(s)
  PROVE  SafetyInv'
<1>1. /\ s \in Components /\ s = This /\ SharedOK(s) /\ pc = "deprovision"
      /\ provision[s] # "running" /\ s \in credentials /\ s \in scripted
  BY SharedType DEF Deprovision, SafetyInv, PassOK
<1>2. UNCHANGED <<scripted, job, provision, effects, secrets, raced>>
  BY DEF Deprovision, untouched, others, jobs
<1>3. fate' = fate \/ Become(s, "abandoned")
  BY DEF Deprovision
<1>4. /\ \A d \in Components : d # s => fate'[d] = fate[d]
      /\ fate'[s] = fate[s] \/ (~Gone(s) /\ fate'[s] = "abandoned")
  BY <1>1, <1>3, BecomeFacts DEF Fates
<1>5. /\ \A x \in Shared : x # s => SharedOK(x)'
      /\ \A c \in Plain : PlainOK(c)'
  BY <1>2, <1>4, OtherShared DEF secrets
<1>6. Free(s)' = Free(s)
  BY <1>2 DEF Free, effects
<1>7. SharedOK(s)'
  <2>1. Excused(s) => Excused(s)'
    BY <1>2, <1>4 DEF Excused, Gone
  <2> QED
    BY <1>1, <1>2, <1>4, <1>6, <2>1 DEF SharedOK, secrets
<1>8. PassOK'
  <2>1. \/ Conclude(local)
        \/ Continue("resubmit", local, work) \/ Continue("resubmit", Charged(s), work)
        \/ /\ job[s].state = "succeeded" /\ Matches(s)
           /\ Drop(local, <<"provision", "deprovision">> \o BothSecrets)
        \/ /\ job[s].state = "failed" /\ Become(s, "abandoned")
           /\ Drop(Charged(s), BothSecrets)
    BY DEF Deprovision, Verdicts
  <2>2. CASE Conclude(local)
    BY <2>2, ConcludeSteps DEF PassOK
  <2>3. CASE Continue("resubmit", local, work) \/ Continue("resubmit", Charged(s), work)
    <3>1. pc' = "resubmit" /\ This' = s
      BY <1>1, <2>3 DEF Continue, This
    <3> QED
      BY <1>1, <1>2, <3>1 DEF PassOK, secrets
  <2>4. CASE /\ job[s].state = "succeeded" /\ Matches(s)
             /\ Drop(local, <<"provision", "deprovision">> \o BothSecrets)
    <3>1. pc' = "drop" /\ This' = s
      BY <1>1, <2>4, DropFacts
    <3>2. Free(s)
      BY <1>1, <2>4 DEF Matches, WantedAttempt, SharedOK
    <3> QED
      BY <1>1, <1>2, <1>6, <2>4, <3>1, <3>2 DEF PassOK
  <2>5. CASE /\ job[s].state = "failed" /\ Become(s, "abandoned")
             /\ Drop(Charged(s), BothSecrets)
    <3>1. pc' = "drop" /\ This' = s
      BY <1>1, <2>5, DropFacts
    <3>2. Free(s) \/ Excused(s)'
      <4>1. fate'[s] \in {"removed", "abandoned", "skipped"}
        BY <1>1, <2>5, BecomeFacts DEF Fates, Gone, Typed, TypeOK
      <4> QED
        BY <1>1, <1>2, <1>7, <1>6, <4>1 DEF SharedOK, Excused
    <3> QED
      BY <1>1, <1>2, <1>6, <2>5, <3>1, <3>2 DEF PassOK
  <2> QED
    BY <2>1, <2>2, <2>3, <2>4, <2>5
<1> QED
  BY <1>5, <1>7, <1>8 DEF SafetyInv

LEMMA ResubmitSafety ==
  ASSUME Typed, SafetyInv, NEW s \in Shared, Resubmit(s)
  PROVE  SafetyInv'
<1>1. /\ s \in Components /\ s = This /\ SharedOK(s) /\ pc = "resubmit"
      /\ provision[s] # "running" /\ s \in credentials /\ s \in scripted
  BY SharedType DEF Resubmit, SafetyInv, PassOK
<1>2. UNCHANGED <<scripted, provision, effects, secrets, raced>>
  BY DEF Resubmit, untouched, others
<1>3. /\ \A d \in Components : d # s => job'[d] = job[d] /\ fate'[d] = fate[d]
      /\ job'[s] = job[s] \/ job'[s].state \in {"deleting", "running"}
      /\ fate'[s] = fate[s] \/ fate'[s] = "leaving"
  BY <1>1, SubmitJobFacts DEF Resubmit
<1>4. fate'[s] = fate[s] \/ (~Gone(s) /\ fate'[s] = "leaving")
  <2>1. Become(s, "leaving") \/ fate' = fate
    BY DEF Resubmit, SubmitJob
  <2> QED
    BY <1>1, <2>1, BecomeFacts DEF Fates
<1>5. /\ \A x \in Shared : x # s => SharedOK(x)'
      /\ \A c \in Plain : PlainOK(c)'
  BY <1>2, <1>3, OtherShared DEF secrets
<1>6. SharedOK(s)'
  <2>1. Free(s)' = Free(s)
    BY <1>2 DEF Free, effects
  <2>2. Excused(s) => Excused(s)'
    BY <1>2, <1>4 DEF Excused, Gone
  <2> QED
    BY <1>1, <1>2, <1>3, <1>4, <2>1, <2>2 DEF SharedOK, secrets
<1>7. PassOK'
  BY ConcludeSteps DEF Resubmit, PassOK
<1> QED
  BY <1>5, <1>6, <1>7 DEF SafetyInv

LEMMA DropNextSafety ==
  ASSUME Typed, SafetyInv, NEW s \in Shared, DropNext(s)
  PROVE  SafetyInv'
<1>1. /\ s \in Components /\ s = This /\ SharedOK(s)
      /\ provision[s] # "running" /\ job[s].state # "running"
      /\ s \in scripted => Free(s) \/ Excused(s)
      /\ job \in [Components -> Jobs] /\ provision \in [Shared -> States]
  BY SharedType DEF DropNext, SafetyInv, PassOK, Typed, TypeOK
<1>2. UNCHANGED <<scripted, effects, raced>>
  BY DEF DropNext, untouched, others
<1>3. /\ \A x \in Shared : x # s => provision'[x] = provision[x]
      /\ provision'[s] # "running"
  <2>1. provision' = provision \/ provision' = [provision EXCEPT ![s] = DeletedState(@)]
    BY DEF DropNext
  <2>2. DeletedState(provision[s]) # "running"
    BY <1>1 DEF DeletedState
  <2> QED
    BY <1>1, <2>1, <2>2
<1>4. /\ \A d \in Components : d # s => job'[d] = job[d]
      /\ job'[s] = job[s] \/ job'[s].state = "deleting"
  <2> DEFINE going == [job[s] EXCEPT !.state = "deleting", !.seen = FALSE]
  <2>1. job' = job \/ job' = [job EXCEPT ![s] = going]
    BY DEF DropNext
  <2>2. going.state = "deleting"
    BY <1>1 DEF Jobs
  <2> HIDE DEF going
  <2> QED
    BY <1>1, <2>1, <2>2
<1>5. /\ \A d \in Shared : d # s => (d \in binding => d \in binding')
      /\ \A d \in Shared : d # s => (d \in credentials => d \in credentials')
      /\ binding \subseteq Shared /\ credentials \subseteq Shared
  BY DEF DropNext, Typed, TypeOK
<1>6. /\ \A d \in Components : d # s => fate'[d] = fate[d]
      /\ fate'[s] = fate[s] \/ (~Gone(s) /\ fate'[s] = "removed")
  <2>1. fate' = fate \/ Become(s, "removed")
    BY DEF DropNext
  <2> QED
    BY <1>1, <2>1, BecomeFacts DEF Fates
<1>7. /\ \A x \in Shared : x # s => SharedOK(x)'
      /\ \A c \in Plain : PlainOK(c)'
  BY <1>2, <1>3, <1>4, <1>5, <1>6, OtherShared
<1>8. Free(s)' = Free(s)
  BY <1>1, <1>2, <1>3 DEF Free, effects
<1>9. s \in scripted => Free(s)' \/ Excused(s)' \/ (~Gone(s) /\ fate'[s] = "removed")
  BY <1>1, <1>2, <1>6, <1>8 DEF Excused
<1>10. s \in scripted /\ ~Gone(s) => Free(s)' \/ s \in raced'
  BY <1>1, <1>2, <1>8 DEF Excused, Gone
<1>11. s \in scripted => Free(s)' \/ Excused(s)'
  BY <1>9, <1>10 DEF Excused
<1>12. SharedOK(s)'
  <2>1. s \in scripted /\ fate'[s] = "removed" => Free(s)' \/ s \in raced'
    BY <1>1, <1>2, <1>6, <1>8, <1>10 DEF SharedOK
  <2>2. job'[s].attempt = 0 /\ job'[s].state = "succeeded" => Free(s)'
    BY <1>1, <1>4, <1>8 DEF SharedOK
  <2> QED
    BY <1>1, <1>2, <1>3, <1>4, <1>11, <2>1, <2>2 DEF SharedOK
<1>13. PassOK'
  <2>1. \/ Conclude(local) \/ Proceed \/ Drop(local, Tail(work.drops))
    BY DEF DropNext
  <2>2. CASE Conclude(local) \/ Proceed
    BY <2>2, ProceedSteps, ConcludeSteps DEF PassOK
  <2>3. CASE Drop(local, Tail(work.drops))
    <3>1. pc' = "drop" /\ This' = s
      BY <1>1, <2>3, DropFacts
    <3>2. job'[s].state # "running"
      BY <1>1, <1>4
    <3> QED
      BY <1>2, <1>3, <1>11, <3>1, <3>2 DEF PassOK
  <2> QED
    BY <2>1, <2>2, <2>3
<1> QED
  BY <1>7, <1>12, <1>13 DEF SafetyInv

-----------------------------------------------------------------------------
\* Everybody else.

\* What Jobs and caches do to a shared component.
SharedMove(s) ==
    /\ Free(s) => Free(s)'
    /\ \/ job'[s].attempt = job[s].attempt /\ job'[s].state = job[s].state
       \/ job'[s].state \notin {"running", "succeeded"}
       \/ job'[s].state = "succeeded" /\ Free(s)'
    /\ provision'[s] = "running" => provision[s] = "running"

PlainMove(c) ==
    /\ job'[c].state = "succeeded" => \/ job[c].state = "succeeded"
                                      \/ c \in raced' \/ c \notin installed' \cup deploying'
    /\ c \in installed' \cup deploying' => c \in installed \cup deploying

LEMMA Moves ==
  ASSUME SafetyInv, UNCHANGED <<pc, work, scripted, secrets, fate>>, raced \subseteq raced',
         \A s \in Shared : SharedMove(s), \A c \in Plain : PlainMove(c)
  PROVE  SafetyInv'
<1>1. ASSUME NEW s \in Shared PROVE SharedOK(s)'
  <2>1. SharedOK(s) /\ SharedMove(s)
    BY DEF SafetyInv
  <2>2. Excused(s) => Excused(s)'
    BY DEF Excused
  <2> QED
    BY <2>1, <2>2 DEF SharedOK, SharedMove, secrets
<1>2. ASSUME NEW c \in Plain PROVE PlainOK(c)'
  <2>1. PlainOK(c) /\ PlainMove(c)
    BY DEF SafetyInv
  <2> QED
    BY <2>1 DEF PlainOK, PlainMove
<1>3. PassOK'
  <2>1. This' = This
    BY DEF This
  <2>2. ASSUME pc \in {"deprovision", "resubmit", "drop"} PROVE PassOK'
    <3>1. This \in Shared /\ provision[This] # "running" /\ SharedMove(This)
      BY <2>2 DEF SafetyInv, PassOK
    <3>2. provision'[This] # "running"
      BY <3>1 DEF SharedMove
    <3>3. job[This].state # "running" => job'[This].state # "running"
      BY <3>1 DEF SharedMove
    <3>4. Free(This) \/ Excused(This) => Free(This)' \/ Excused(This)'
      BY <2>1, <3>1 DEF SharedMove, Excused, Free
    <3> QED
      BY <2>1, <3>1, <3>2, <3>3, <3>4 DEF SafetyInv, PassOK, secrets
  <2> QED
    BY <2>2 DEF PassOK
<1> QED
  BY <1>1, <1>2, <1>3 DEF SafetyInv

LEMMA OthersSafety ==
  ASSUME Typed, SafetyInv, Others
  PROVE  SafetyInv'
<1> USE DEF operator, passVars, others
<1>1. job \in [Components -> Jobs] /\ provision \in [Shared -> States]
      /\ deploying \subseteq Plain
  BY DEF Typed, TypeOK
<1>2. CASE \/ TemplateDelete \/ SyncEnv \/ SyncBindings \/ \E s \in Shared : ProviderDelete(s)
  <2>1. UNCHANGED <<pc, work, scripted, secrets, fate, jobs, effects, raced>>
    BY <1>2 DEF TemplateDelete, SyncEnv, SyncBindings, ProviderDelete
  <2>2. (\A s \in Shared : SharedMove(s)) /\ (\A c \in Plain : PlainMove(c))
    BY <2>1 DEF SharedMove, PlainMove, Free, jobs, effects
  <2> QED
    BY <2>1, <2>2, Moves
<1>3. ASSUME NEW s \in Shared, ProvisionGone(s) PROVE SafetyInv'
  <2>1. UNCHANGED <<pc, work, scripted, secrets, fate, job, effects, raced>>
    BY <1>3 DEF ProvisionGone
  <2>2. provision' = [provision EXCEPT ![s] = "absent"]
    BY <1>3 DEF ProvisionGone
  <2>3. (\A x \in Shared : SharedMove(x)) /\ (\A c \in Plain : PlainMove(c))
    BY <1>1, <2>1, <2>2 DEF SharedMove, PlainMove, Free, effects
  <2> QED
    BY <2>1, <2>3, Moves
<1>4. ASSUME NEW c \in Components, SyncJob(c) \/ JobGone(c) PROVE SafetyInv'
  <2>1. UNCHANGED <<pc, work, scripted, secrets, fate, provision, effects, raced>>
    BY <1>4 DEF SyncJob, JobGone
  <2>2. \A d \in Components :
           \/ job'[d].attempt = job[d].attempt /\ job'[d].state = job[d].state
           \/ job'[d].state = "absent"
    <3> DEFINE shownJob == [job[c] EXCEPT !.seen = TRUE]
               noJob == [NoJob EXCEPT !.seen = FALSE]
    <3>1. shownJob.attempt = job[c].attempt /\ shownJob.state = job[c].state
      BY <1>1 DEF Jobs
    <3>2. noJob.state = "absent"
      BY DEF NoJob
    <3>3. job' = [job EXCEPT ![c] = shownJob] \/ job' = [job EXCEPT ![c] = noJob]
      BY <1>4 DEF SyncJob, JobGone
    <3> HIDE DEF shownJob, noJob
    <3> QED
      BY <1>1, <3>1, <3>2, <3>3
  <2>3. (\A x \in Shared : SharedMove(x)) /\ (\A d \in Plain : PlainMove(d))
    BY <2>1, <2>2, SharedType, PlainOrShared DEF SharedMove, PlainMove, Free, effects
  <2> QED
    BY <2>1, <2>3, Moves
<1>5. ASSUME NEW c \in Components, NEW state \in Ended, FinishJob(c, state) PROVE SafetyInv'
  <2>1. /\ UNCHANGED <<pc, work, scripted, secrets, fate, provision, deploying>>
        /\ raced \subseteq raced' /\ allocated' \subseteq allocated /\ installed' \subseteq installed
    BY <1>5 DEF FinishJob
  <2>2. /\ \A d \in Components : d # c => job'[d] = job[d]
        /\ job'[c].state = state
    <3> DEFINE ended == [job[c] EXCEPT !.state = state, !.seen = FALSE]
    <3>1. ended.state = state
      BY <1>1 DEF Jobs
    <3>2. job' = [job EXCEPT ![c] = ended]
      BY <1>5 DEF FinishJob
    <3> HIDE DEF ended
    <3> QED
      BY <1>1, <3>1, <3>2
  <2>3. ASSUME NEW x \in Shared PROVE SharedMove(x)
    <3>1. Free(x) => Free(x)'
      BY <2>1 DEF Free
    <3>2. CASE x # c
      BY <2>1, <2>2, <3>1, <3>2, SharedType DEF SharedMove
    <3>3. CASE x = c /\ state = "failed"
      BY <2>1, <2>2, <3>1, <3>3 DEF SharedMove
    <3>4. CASE x = c /\ state = "succeeded"
      <4>1. provision[c] # "running"
        BY <1>5, <3>4 DEF FinishJob, SafetyInv, SharedOK
      <4>2. Free(x)'
        BY <1>5, <2>1, <3>4, <4>1 DEF FinishJob, Free
      <4> QED
        BY <2>1, <2>2, <3>1, <3>4, <4>2 DEF SharedMove
    <3> QED
      BY <3>2, <3>3, <3>4 DEF Ended
  <2>4. ASSUME NEW d \in Plain PROVE PlainMove(d)
    <3>1. CASE d # c
      BY <2>1, <2>2, <3>1, PlainOrShared DEF PlainMove
    <3>2. CASE d = c
      <4>1. state = "succeeded" => c \in raced' \/ c \notin installed' \cup deploying'
        BY <1>5 DEF FinishJob
      <4> QED
        BY <2>1, <2>2, <3>2, <4>1 DEF PlainMove
    <3> QED
      BY <3>1, <3>2
  <2> QED
    BY <2>1, <2>3, <2>4, Moves
<1>6. ASSUME NEW s \in Shared, NEW state \in Ended, FinishProvision(s, state) PROVE SafetyInv'
  <2>1. /\ UNCHANGED <<pc, work, scripted, secrets, fate, job, deploying, installed, raced>>
        /\ provision[s] = "running" /\ provision' = [provision EXCEPT ![s] = state]
        /\ allocated' \subseteq allocated \cup {s}
    BY <1>6 DEF FinishProvision
  <2>2. \A x \in Shared : SharedMove(x)
    BY <1>1, <2>1 DEF SharedMove, Free, Ended
  <2>3. \A c \in Plain : PlainMove(c)
    BY <2>1 DEF PlainMove
  <2> QED
    BY <2>1, <2>2, <2>3, Moves
<1>7. ASSUME NEW c \in Plain, FinishDeploy(c) PROVE SafetyInv'
  <2>1. /\ UNCHANGED <<pc, work, scripted, secrets, fate, jobs, allocated, raced>>
        /\ c \in deploying /\ deploying' \subseteq deploying
        /\ installed' \subseteq installed \cup {c}
    BY <1>7 DEF FinishDeploy
  <2>2. \A s \in Shared : SharedMove(s)
    BY <2>1 DEF SharedMove, Free, jobs
  <2>3. \A d \in Plain : PlainMove(d)
    BY <2>1 DEF PlainMove, jobs
  <2> QED
    BY <2>1, <2>2, <2>3, Moves
<1> QED
  BY <1>2, <1>3, <1>4, <1>5, <1>6, <1>7 DEF Others

-----------------------------------------------------------------------------
\* The invariant and what follows from it.

LEMMA InitSafety == Init => SafetyInv
<1> SUFFICES ASSUME Init PROVE SafetyInv
  OBVIOUS
<1>1. /\ pc = "idle" /\ raced = {} /\ fate = [c \in Components |-> "up"]
      /\ job = [c \in Components |-> IF c \in Strangers THEN StrangersJob ELSE NoJob]
  BY DEF Init
<1>2. /\ NoJob.state = "absent" /\ StrangersJob.attempt = -1
      /\ StrangersJob.state = "succeeded"
  BY DEF NoJob, StrangersJob
<1>3. PICK done \in SUBSET Components, busy \in SUBSET Components :
         InitAllocations(done, busy)
  BY DEF Init
<1>4. ASSUME NEW s \in Shared PROVE SharedOK(s)
  <2>1. s \in Components /\ fate[s] = "up"
    BY <1>1, SharedType
  <2>2. job[s].state # "running" /\ ~(job[s].attempt = 0 /\ job[s].state = "succeeded")
    BY <1>1, <1>2, <2>1
  <2>3. provision[s] \in {"running", "succeeded"} => s \in credentials \/ s \in done
    BY <1>3 DEF InitAllocations
  <2>4. credentials \subseteq binding /\ done \cap Shared \subseteq binding
    BY <1>3 DEF InitAllocations
  <2>5. s \in allocated => provision[s] = "succeeded"
    BY <1>3 DEF InitAllocations
  <2>6. s \notin binding => Free(s)
    BY <2>3, <2>4, <2>5 DEF Free
  <2>7. provision[s] = "running" => s \in credentials
    BY <1>3 DEF InitAllocations
  <2> QED
    BY <2>1, <2>2, <2>6, <2>7 DEF SharedOK
<1>5. ASSUME NEW c \in Plain PROVE PlainOK(c)
  <2>1. c \in Components /\ c \notin Strangers
    BY PlainOrShared, NotBoth, SharedType
  <2>2. job[c] = NoJob /\ fate[c] = "up"
    BY <1>1, <2>1
  <2> QED
    BY <1>2, <2>2 DEF PlainOK
<1>6. PassOK
  BY <1>1 DEF PassOK
<1> QED
  BY <1>4, <1>5, <1>6 DEF SafetyInv

LEMMA SafetyInvariant == Spec => [](Typed /\ OrderInv /\ SafetyInv)
<1>1. Typed /\ SafetyInv /\ [Next]_vars => SafetyInv'
  <2> SUFFICES ASSUME Typed, SafetyInv, [Next]_vars PROVE SafetyInv'
    OBVIOUS
  <2>1. CASE Next
    BY <2>1, NextCases, BeginSafety, ObserveSafety, SubmitSafety, ReleaseSafety,
       DeprovisionSafety, ResubmitSafety, DropNextSafety, EndSafety, OthersSafety
  <2>2. CASE UNCHANGED vars
    <3>1. UNCHANGED <<pc, work, scripted, jobs, effects, secrets, history>>
      BY <2>2 DEF vars, others, passVars
    <3>2. (\A s \in Shared : SharedMove(s)) /\ (\A c \in Plain : PlainMove(c))
      BY <3>1 DEF SharedMove, PlainMove, Free, jobs, effects
    <3> QED
      BY <3>1, <3>2, Moves DEF history
  <2> QED
    BY <2>1, <2>2
<1> QED
  BY <1>1, InitSafety, OrderInvariant, PTL DEF Spec

\* A provision or deprovision Job that runs has its credentials: they are written
\* before every observation of it, and deleted only when neither runs.
THEOREM CredentialsHeld == Spec => []JobsEquipped
<1>1. SafetyInv => JobsEquipped
  BY DEF SafetyInv, SharedOK, JobsEquipped
<1> QED
  BY <1>1, SafetyInvariant, PTL

LEMMA HandledGone ==
  ASSUME Typed, OrderInv, Handled
  PROVE  \A c \in Components : fate[c] \in {"removed", "abandoned", "skipped"}
<1>1. AllGone
  BY DEF Handled, OrderInv, Persisted, Finished
<1> QED
  BY <1>1 DEF AllGone, Gone, Typed, TypeOK

\* When everything was handled, no allocation that could be released is left
\* behind, whenever its provision Job ended, whatever an earlier environment of
\* this name has left, and wherever a pass was cut short.
THEOREM NoAllocationLeft == Spec => []AllocationsReleased
<1>1. Typed /\ OrderInv /\ SafetyInv => AllocationsReleased
  <2> SUFFICES ASSUME Typed, OrderInv, SafetyInv, Handled, NEW s \in allocated \cap scripted
               PROVE  fate[s] \in {"abandoned", "skipped"} \/ s \in raced
    BY DEF AllocationsReleased
  <2>1. s \in Shared /\ s \in Components
    BY SharedType DEF Typed, TypeOK
  <2>2. fate[s] \in {"removed", "abandoned", "skipped"}
    BY <2>1, HandledGone
  <2> QED
    BY <2>1, <2>2 DEF SafetyInv, SharedOK, Free
<1> QED
  BY <1>1, SafetyInvariant, PTL

\* When everything was handled, no release is left behind but those whose
\* undeploy was given up or raced with a deploy Job that still ran.
THEOREM NoReleaseLeft == Spec => []ReleasesRemoved
<1>1. Typed /\ OrderInv /\ SafetyInv => ReleasesRemoved
  <2> SUFFICES ASSUME Typed, OrderInv, SafetyInv, Handled, NEW c \in installed
               PROVE  fate[c] = "abandoned" \/ c \in raced
    BY DEF ReleasesRemoved
  <2>1. c \in Plain /\ c \in Components
    BY PlainOrShared DEF Typed, TypeOK
  <2>2. fate[c] \in {"removed", "abandoned", "skipped"}
    BY <2>1, HandledGone
  <2> QED
    BY <2>1, <2>2 DEF SafetyInv, PlainOK
<1> QED
  BY <1>1, SafetyInvariant, PTL

-----------------------------------------------------------------------------
\* Why nothing of a shared component is left in the operator's namespace.

\* Nothing is left of s, or what is left could not be known.
Clean(s) ==
    \/ s \in raced \/ s \notin providers
    \/ s \notin credentials /\ s \notin binding /\ job[s].state # "running"

AllClean == \A s \in Shared : Clean(s)

\* As long as there is a binding the next pass finds what there is of s.
Traced(s) == s \in binding \cup raced

SecretOK(s) == s \in credentials \/ job[s].state = "running" => Traced(s)

\* What can be left to delete: the binding Secret goes last.
DropLists ==
    {<<"provision", "deprovision">> \o BothSecrets, <<"deprovision">> \o BothSecrets,
     <<"provision">> \o BothSecrets, BothSecrets, <<"binding">>}

PassSecrets ==
    /\ pc \in {"deprovision", "resubmit"} => Traced(This)
    /\ pc = "drop" => /\ work.drops \in DropLists
                      /\ work.drops = <<"binding">> => This \notin credentials
    /\ pc \in Releasing => \A s \in Shared : Clean(s) \/ Among(s, work.rest)
    /\ pc = "patch" /\ local.complete /\ template => AllClean

SecretInv ==
    /\ \A s \in Shared : SecretOK(s)
    /\ PassSecrets
    /\ Handled => AllClean

-----------------------------------------------------------------------------
\* What a step does to one shared component: nothing that it had not is made
\* for it but with its binding in sight, and the binding goes after the rest.
SecretMove(s) ==
    /\ s \in raced => s \in raced'
    /\ s \in providers' => s \in providers
    /\ s \in binding' => s \in binding
    /\ s \in credentials' => s \in credentials \/ Traced(s)'
    /\ job'[s].state = "running" => job[s].state = "running" \/ Traced(s)'
    /\ s \in binding \ binding' => s \notin credentials' /\ job'[s].state # "running"

LEMMA MoveSecrets ==
  ASSUME NEW s \in Shared, SecretMove(s), SecretOK(s)
  PROVE  SecretOK(s)' /\ (Clean(s) => Clean(s)')
  BY DEF SecretMove, SecretOK, Clean, Traced

\* A step that starts nothing and deletes nothing.
LEMMA SameMove ==
  ASSUME NEW s \in Shared, UNCHANGED <<binding, credentials>>, raced \subseteq raced',
         providers' \subseteq providers,
         job'[s].state = "running" => job[s].state = "running"
  PROVE  SecretMove(s)
  BY DEF SecretMove

LEMMA SecretStep ==
  ASSUME SecretInv, \A s \in Shared : SecretMove(s), PassSecrets', Handled' => Handled
  PROVE  SecretInv'
<1>1. \A s \in Shared : SecretOK(s)' /\ (Clean(s) => Clean(s)')
  BY MoveSecrets DEF SecretInv
<1>2. AllClean => AllClean'
  BY <1>1 DEF AllClean
<1> QED
  BY <1>1, <1>2 DEF SecretInv

LEMMA SameHandled == ASSUME UNCHANGED <<status, template>> PROVE Handled' => Handled
  BY DEF Handled

LEMMA ConcludeSecrets ==
  ASSUME NEW s, ~s.complete, Conclude(s)
  PROVE  PassSecrets'
  BY DEF Conclude, Continue, PassSecrets, Releasing

LEMMA ReleaseFromSecrets ==
  ASSUME NEW rest \in Seq(Shared), NEW s \in Statuses,
         \A x \in Shared : Clean(x)' \/ Among(x, rest), ReleaseFrom(rest, s)
  PROVE  PassSecrets'
<1>1. CASE rest = <<>>
  <2>1. AllClean'
    BY <1>1 DEF Among, AllClean
  <2>2. pc' = "patch"
    BY <1>1, ConcludeSteps DEF ReleaseFrom
  <2> QED
    BY <2>1, <2>2 DEF PassSecrets, Releasing
<1>2. CASE rest # <<>>
  <2> DEFINE w == [NoWork EXCEPT !.rest = rest]
  <2>1. w.rest = rest
    BY NoWorkType DEF Works
  <2>2. Continue("release", s, w)
    BY <1>2 DEF ReleaseFrom
  <2> HIDE DEF w
  <2>3. pc' = "release" /\ work'.rest = rest
    BY <2>1, <2>2 DEF Continue
  <2>4. \A x \in Shared : Clean(x)' \/ Among(x, work'.rest)
    BY <2>3
  <2>5. \A x \in Shared : Clean(x)' \/ Among(x, work.rest)'
    BY <2>4 DEF Among
  <2> QED
    BY <2>3, <2>5 DEF PassSecrets
<1> QED
  BY <1>1, <1>2

LEMMA StartLevelSecrets ==
  ASSUME NEW l \in Nat, NEW s \in Statuses, StartLevel(l, s)
  PROVE  PassSecrets'
<1>1. CASE l = 0
  <2>1. \A x \in Shared : Among(x, Order)
    BY OrderComplete DEF Among
  <2>2. ReleaseFrom(Order, s)
    BY <1>1 DEF StartLevel
  <2> QED
    BY <2>1, <2>2, OrderType, ReleaseFromSecrets
<1>2. CASE l # 0
  <2>1. pc' = "observe"
    BY <1>2 DEF StartLevel, Continue
  <2> QED
    BY <2>1 DEF PassSecrets, Releasing
<1> QED
  BY <1>1, <1>2

LEMMA LevelObservedSecrets ==
  ASSUME NEW s \in Statuses, NEW w \in Works, ~s.complete, LevelObserved(s, w)
  PROVE  PassSecrets'
<1>1. CASE w.need # {}
  <2>1. pc' = "submit"
    BY <1>1 DEF LevelObserved, Continue
  <2> QED
    BY <2>1 DEF PassSecrets, Releasing
<1>2. CASE w.need = {} /\ w.waiting
  BY <1>2, ConcludeSecrets DEF LevelObserved
<1>3. CASE w.need = {} /\ ~w.waiting
  <2>1. w.level - 1 \in Int
    BY DEF Works
  <2>2. Downwards(w.level - 1, s) \in Nat
    BY <2>1, DownwardsType
  <2> QED
    BY <1>3, <2>2, StartLevelSecrets DEF LevelObserved
<1> QED
  BY <1>1, <1>2, <1>3

\* The steps of a pass that make and delete nothing in the operator's namespace,
\* or submit an undeploy Job.
LEMMA PlainSecrets ==
  ASSUME Typed, OrderInv, SecretInv, Begin \/ \E c \in Plain : Observe(c) \/ Submit(c)
  PROVE  SecretInv'
<1>1. UNCHANGED <<status, template, binding, credentials, raced, providers>>
  BY DEF Begin, Observe, Submit, untouched, others, secrets, history
<1>2. \A s \in Shared : job'[s] = job[s]
  <2>1. CASE Begin \/ \E c \in Plain : Observe(c)
    BY <2>1 DEF Begin, Observe, jobs
  <2>2. ASSUME NEW c \in Plain, Submit(c) PROVE \A s \in Shared : job'[s] = job[s]
    <3>1. c \in Components /\ (SubmitJob(c) \/ job' = job)
      BY <2>2, PlainOrShared DEF Submit
    <3>2. \A d \in Components : d # c => job'[d] = job[d]
      BY <3>1, SubmitJobFacts
    <3> QED
      BY <3>2, SharedType, NotBoth
  <2> QED
    BY <2>1, <2>2
<1>3. \A s \in Shared : SecretMove(s)
  BY <1>1, <1>2, SameMove
<1>4. PassSecrets'
  <2>1. CASE Begin
    <3>1. cache \in Statuses /\ ~cache.complete
      BY <2>1 DEF Begin, Typed, TypeOK
    <3>2. CASE template
      <4>1. Downwards(Top, cache) \in Nat /\ StartLevel(Downwards(Top, cache), cache)
        BY <2>1, <3>2, TopType, DownwardsType DEF Begin
      <4> QED
        BY <3>1, <4>1, StartLevelSecrets
    <3>3. CASE ~template
      <4>1. pc' = "patch" /\ ~template'
        BY <1>1, <2>1, <3>3, ConcludeSteps DEF Begin
      <4> QED
        BY <4>1 DEF PassSecrets, Releasing
    <3> QED
      BY <3>2, <3>3
  <2>2. ASSUME NEW c \in Plain, Observe(c) PROVE PassSecrets'
    <3> DEFINE w == [work EXCEPT !.todo = @ \ {c}]
               awaited == [w EXCEPT !.waiting = TRUE]
               needed == [awaited EXCEPT !.need = @ \cup {c}]
               GoOn(s, v) == IF v.todo = {} THEN LevelObserved(s, v) ELSE Continue(pc, s, v)
    <3>1. /\ c \in Components /\ work \in Works /\ local \in Statuses /\ pc = "observe"
          /\ Charged(c) \in Statuses /\ ~local.complete /\ ~Charged(c).complete
      BY <2>2, PlainOrShared, ChargedType, ChargedFacts
         DEF Observe, Typed, TypeOK, OrderInv, Course
    <3>2. w \in Works
      BY <3>1 DEF Works
    <3>3. awaited \in Works
      <4> HIDE DEF w
      <4> QED
        BY <3>2 DEF Works
    <3>4. needed \in Works
      <4> HIDE DEF awaited
      <4> QED
        BY <3>1, <3>3 DEF Works
    <3>5. \/ GoOn(local, w) \/ GoOn(local, awaited) \/ GoOn(local, needed)
          \/ GoOn(Charged(c), needed) \/ GoOn(Charged(c), w)
      BY <2>2 DEF Observe
    <3> HIDE DEF w, awaited, needed
    <3>6. PICK s \in Statuses, v \in Works : ~s.complete /\ GoOn(s, v)
      BY <3>1, <3>2, <3>3, <3>4, <3>5
    <3>7. CASE v.todo = {}
      BY <3>6, <3>7, LevelObservedSecrets
    <3>8. CASE v.todo # {}
      <4>1. pc' = "observe"
        BY <3>1, <3>6, <3>8 DEF Continue
      <4> QED
        BY <4>1 DEF PassSecrets, Releasing
    <3> QED
      BY <3>7, <3>8
  <2>3. ASSUME NEW c \in Plain, Submit(c) PROVE PassSecrets'
    <3>1. ~local.complete /\ (Conclude(local) \/ pc' = "submit")
      BY <2>3 DEF Submit, Continue, OrderInv, Course
    <3>2. CASE Conclude(local)
      BY <3>1, <3>2, ConcludeSecrets
    <3>3. CASE pc' = "submit"
      BY <3>3 DEF PassSecrets, Releasing
    <3> QED
      BY <3>1, <3>2, <3>3
  <2> QED
    BY <2>1, <2>2, <2>3
<1> QED
  BY <1>1, <1>3, <1>4, SameHandled, SecretStep

\* The next shared component is turned to when this one is clean.
LEMMA ProceedSecrets ==
  ASSUME Typed, SecretInv, pc \in Releasing, \A s \in Shared : SecretMove(s),
         NEW x \in Shared, x = This, Clean(x)', Proceed
  PROVE  PassSecrets'
<1>1. /\ work.rest \in Seq(Shared) /\ local \in Statuses /\ work.rest # <<>>
      /\ Tail(work.rest) \in Seq(Shared)
  BY DEF Typed, RestInv, TypeOK, Works
<1>2. ASSUME NEW y \in Shared PROVE Clean(y)' \/ Among(y, Tail(work.rest))
  <2>1. CASE Clean(y)
    BY <2>1, MoveSecrets DEF SecretInv
  <2>2. CASE Among(y, work.rest) /\ y # x
    BY <1>1, <2>2, AmongTail DEF This
  <2> QED
    BY <2>1, <2>2 DEF SecretInv, PassSecrets
<1>3. ReleaseFrom(Tail(work.rest), local)
  BY DEF Proceed
<1> QED
  BY <1>1, <1>2, <1>3, ReleaseFromSecrets

\* What the pass has put behind it stays clean while it is at the next one.
LEMMA RestKept ==
  ASSUME SecretInv, pc \in Releasing, \A s \in Shared : SecretMove(s), UNCHANGED work.rest
  PROVE  \A s \in Shared : Clean(s)' \/ Among(s, work.rest)'
<1>1. \A s \in Shared : Clean(s) => Clean(s)'
  BY MoveSecrets DEF SecretInv
<1>2. \A s : Among(s, work.rest) => Among(s, work.rest)'
  BY DEF Among
<1> QED
  BY <1>1, <1>2 DEF SecretInv, PassSecrets

LEMMA Prepended ==
  ASSUME NEW a \in Items, NEW b \in Items, NEW c \in Items
  PROVE  <<c>> \o <<a, b>> = <<c, a, b>>
<1> DEFINE three == [i \in 1..3 |-> IF i = 1 THEN c ELSE IF i = 2 THEN a ELSE b]
<1>1. <<c>> \o <<a, b>> = three
  OBVIOUS
<1>2. <<c, a, b>> = three
  OBVIOUS
<1> QED
  BY <1>1, <1>2

LEMMA PrependedTwo ==
  ASSUME NEW a \in Items, NEW b \in Items, NEW c \in Items, NEW d \in Items
  PROVE  <<c, d>> \o <<a, b>> = <<c, d, a, b>>
<1> DEFINE four == [i \in 1..4 |-> IF i = 1 THEN c ELSE IF i = 2 THEN d
                                   ELSE IF i = 3 THEN a ELSE b]
<1>1. <<c, d>> \o <<a, b>> = four
  OBVIOUS
<1>2. <<c, d, a, b>> = four
  OBVIOUS
<1> QED
  BY <1>1, <1>2

LEMMA ListFacts ==
  /\ <<"provision">> \o BothSecrets = <<"provision", "credentials", "binding">>
  /\ <<"provision", "deprovision">> \o BothSecrets
        = <<"provision", "deprovision", "credentials", "binding">>
  /\ <<"deprovision">> \o BothSecrets = <<"deprovision", "credentials", "binding">>
  /\ BothSecrets = <<"credentials", "binding">>
<1> DEFINE p == "provision"
           q == "deprovision"
           c == "credentials"
           b == "binding"
<1>1. p \in Items /\ q \in Items /\ c \in Items /\ b \in Items
  BY DEF Items
<1> HIDE DEF p, q, c, b
<1>2. <<p>> \o <<c, b>> = <<p, c, b>>
  BY <1>1, Prepended, Zenon
<1>3. <<q>> \o <<c, b>> = <<q, c, b>>
  BY <1>1, Prepended, Zenon
<1>4. <<p, q>> \o <<c, b>> = <<p, q, c, b>>
  BY <1>1, PrependedTwo, Zenon
<1> QED
  BY <1>2, <1>3, <1>4 DEF p, q, c, b, BothSecrets

\* The lists a release begins with.
LEMMA FirstLists ==
  ASSUME NEW d \in {<<"provision">> \o BothSecrets, BothSecrets,
                    <<"provision", "deprovision">> \o BothSecrets}
  PROVE  d \in DropLists /\ d # <<"binding">>
<1>1. d \in DropLists
  BY DEF DropLists
<1>2. Len(d) # 1
  BY ListFacts
<1> QED
  BY <1>1, <1>2

\* What is deleted next, and what remains to be.
LEMMA TailFacts ==
  ASSUME NEW d \in DropLists
  PROVE  /\ Len(d) = 1 => d = <<"binding">>
         /\ Len(d) > 1 => Tail(d) \in DropLists /\ Head(d) # "binding"
         /\ Len(d) > 1 /\ Tail(d) = <<"binding">> => Head(d) = "credentials"
         /\ Len(d) = 1 \/ Len(d) > 1
<1>1. CASE d = <<"provision", "deprovision", "credentials", "binding">>
  <2>1. Tail(d) = <<"deprovision", "credentials", "binding">> /\ Len(d) = 4
        /\ Head(d) = "provision"
    BY <1>1
  <2>2. Tail(d) # <<"binding">>
    BY <2>1, Len(<<"deprovision", "credentials", "binding">>) = 3, Len(<<"binding">>) = 1
  <2>3. Tail(d) = <<"deprovision">> \o BothSecrets
    BY <2>1, ListFacts
  <2>4. Tail(d) \in DropLists
    BY <2>3 DEF DropLists
  <2> QED
    BY <2>1, <2>2, <2>4
<1>2. CASE d = <<"deprovision", "credentials", "binding">>
  <2>1. Tail(d) = <<"credentials", "binding">> /\ Len(d) = 3
        /\ Head(d) = "deprovision"
    BY <1>2
  <2>2. Tail(d) # <<"binding">>
    BY <2>1, Len(<<"credentials", "binding">>) = 2, Len(<<"binding">>) = 1
  <2> QED
    BY <2>1, <2>2, ListFacts DEF DropLists
<1>3. CASE d = <<"provision", "credentials", "binding">>
  <2>1. Tail(d) = <<"credentials", "binding">> /\ Len(d) = 3
        /\ Head(d) = "provision"
    BY <1>3
  <2>2. Tail(d) # <<"binding">>
    BY <2>1, Len(<<"credentials", "binding">>) = 2, Len(<<"binding">>) = 1
  <2> QED
    BY <2>1, <2>2, ListFacts DEF DropLists
<1>4. CASE d = <<"credentials", "binding">>
  <2>1. Tail(d) = <<"binding">> /\ Len(d) = 2 /\ Head(d) = "credentials"
    BY <1>4
  <2> QED
    BY <2>1, ListFacts DEF DropLists
<1>5. CASE d = <<"binding">>
  <2>1. Len(d) = 1
    BY <1>5
  <2> QED
    BY <1>5, <2>1
<1> QED
  BY <1>1, <1>2, <1>3, <1>4, <1>5, ListFacts DEF DropLists

LEMMA DropCourse ==
  ASSUME Typed, NEW s, NEW items, Drop(s, items)
  PROVE  pc' = "drop" /\ work'.rest = work.rest /\ work'.drops = items
<1> DEFINE w == [work EXCEPT !.drops = items]
<1>1. w.rest = work.rest /\ w.drops = items
  BY DEF Typed, TypeOK, Works
<1>2. Continue("drop", s, w)
  BY DEF Drop
<1> HIDE DEF w
<1> QED
  BY <1>1, <1>2 DEF Continue

LEMMA ReleaseSecrets ==
  ASSUME Typed, OrderInv, SecretInv, NEW s \in Shared, Release(s)
  PROVE  SecretInv'
<1>1. s = This /\ pc \in Releasing /\ ~local.complete
  BY DEF Release, Releasing, OrderInv, Course
<1>2. UNCHANGED <<status, template, providers, job, binding>> /\ raced \subseteq raced'
  BY DEF Release, untouched, others, jobs
<1>3. credentials' = credentials \/ (pc' = "deprovision" /\ credentials' = credentials \cup {s})
  BY DEF Release, Equipped
<1>4. pc' = "deprovision" =>
         s \in shown /\ s \in providers \cap scripted /\ ~Busy(s)
  BY ProceedSteps, ConcludeSteps, DropFacts DEF Release
<1>5. s \in providers \cap scripted /\ ~Busy(s) => s \in raced' \/ (s \in shown <=> s \in binding)
  BY DEF Release
<1>6. pc' = "deprovision" => Traced(s)'
  BY <1>2, <1>4, <1>5 DEF Traced
<1>7. ASSUME NEW x \in Shared PROVE SecretMove(x)
  BY <1>2, <1>3, <1>6 DEF SecretMove
<1>8. SecretOK(s)'
  BY <1>7, MoveSecrets DEF SecretInv
<1>9. PassSecrets'
  <2>1. \/ s \notin providers /\ Proceed
        \/ s \in (providers \cap scripted) \ shown /\ ~Busy(s) /\ Proceed
        \/ Conclude(local)
        \/ Drop(local, <<"provision">> \o BothSecrets)
        \/ Continue("deprovision", local, work)
    BY DEF Release
  <2>2. CASE s \notin providers /\ Proceed
    <3>1. Clean(s)'
      BY <1>2, <2>2 DEF Clean
    <3> QED
      BY <1>1, <1>7, <2>2, <3>1, ProceedSecrets
  <2>3. CASE s \in (providers \cap scripted) \ shown /\ ~Busy(s) /\ Proceed
    <3>1. s \in raced' \/ s \notin binding'
      BY <1>2, <1>5, <2>3
    <3>2. Clean(s)'
      BY <1>8, <3>1 DEF SecretOK, Traced, Clean
    <3> QED
      BY <1>1, <1>7, <2>3, <3>2, ProceedSecrets
  <2>4. CASE Conclude(local)
    BY <1>1, <2>4, ConcludeSecrets
  <2>5. CASE Drop(local, <<"provision">> \o BothSecrets)
    <3>1. pc' = "drop" /\ UNCHANGED work.rest /\ work'.drops = <<"provision">> \o BothSecrets
      BY <2>5, DropCourse
    <3>2. work'.drops \in DropLists /\ work'.drops # <<"binding">>
      BY <3>1, FirstLists
    <3> QED
      BY <1>1, <1>7, <3>1, <3>2, RestKept DEF PassSecrets
  <2>6. CASE Continue("deprovision", local, work)
    <3>1. pc' = "deprovision" /\ UNCHANGED work.rest /\ This' = This
      BY <2>6 DEF Continue, This
    <3>2. Traced(This)'
      BY <1>1, <1>6, <3>1 DEF Traced
    <3> QED
      BY <1>1, <1>7, <3>1, <3>2, RestKept DEF PassSecrets
  <2> QED
    BY <2>1, <2>2, <2>3, <2>4, <2>5, <2>6
<1> QED
  BY <1>2, <1>7, <1>9, SameHandled, SecretStep

LEMMA DeprovisionSecrets ==
  ASSUME Typed, OrderInv, SecretInv, NEW s \in Shared, Deprovision(s)
  PROVE  SecretInv'
<1>1. /\ s = This /\ pc \in Releasing /\ ~local.complete /\ pc = "deprovision" /\ Traced(This)
      /\ s \in Components
  BY SharedType DEF Deprovision, Releasing, OrderInv, Course, SecretInv, PassSecrets
<1>2. UNCHANGED <<status, template, providers, job, binding, credentials, raced>>
  BY DEF Deprovision, untouched, others, jobs, secrets
<1>3. \A x \in Shared : SecretMove(x)
  BY <1>2, SameMove
<1>4. PassSecrets'
  <2>1. \/ Conclude(local)
        \/ \E t : Continue("resubmit", t, work)
        \/ \E t : Drop(t, <<"provision", "deprovision">> \o BothSecrets) \/ Drop(t, BothSecrets)
    BY DEF Deprovision
  <2>2. CASE Conclude(local)
    BY <1>1, <2>2, ConcludeSecrets
  <2>3. ASSUME NEW t, Continue("resubmit", t, work) PROVE PassSecrets'
    <3>1. pc' = "resubmit" /\ UNCHANGED work.rest /\ This' = This
      BY <2>3 DEF Continue, This
    <3>2. Traced(This)'
      BY <1>1, <1>2, <3>1 DEF Traced
    <3> QED
      BY <1>1, <1>3, <3>1, <3>2, RestKept DEF PassSecrets
  <2>4. ASSUME NEW t, NEW items \in {BothSecrets, <<"provision", "deprovision">> \o BothSecrets},
               Drop(t, items)
        PROVE  PassSecrets'
    <3>1. pc' = "drop" /\ UNCHANGED work.rest /\ work'.drops = items
      BY <2>4, DropCourse
    <3>2. work'.drops \in DropLists /\ work'.drops # <<"binding">>
      BY <3>1, FirstLists
    <3> QED
      BY <1>1, <1>3, <3>1, <3>2, RestKept DEF PassSecrets
  <2> QED
    BY <2>1, <2>2, <2>3, <2>4
<1> QED
  BY <1>2, <1>3, <1>4, SameHandled, SecretStep

LEMMA ResubmitSecrets ==
  ASSUME Typed, OrderInv, SecretInv, NEW s \in Shared, Resubmit(s)
  PROVE  SecretInv'
<1>1. s = This /\ ~local.complete /\ Traced(s) /\ s \in Components
  BY SharedType DEF Resubmit, OrderInv, Course, SecretInv, PassSecrets
<1>2. UNCHANGED <<status, template, providers, binding, credentials, raced>>
  BY DEF Resubmit, untouched, others, secrets
<1>3. \A d \in Components : d # s => job'[d] = job[d]
  BY <1>1, SubmitJobFacts DEF Resubmit
<1>4. ASSUME NEW x \in Shared PROVE SecretMove(x)
  <2>1. CASE x = s
    BY <1>1, <1>2, <2>1 DEF SecretMove, Traced
  <2>2. CASE x # s
    BY <1>2, <1>3, <2>2, SharedType, SameMove
  <2> QED
    BY <2>1, <2>2
<1>5. PassSecrets'
  BY <1>1, ConcludeSecrets DEF Resubmit
<1> QED
  BY <1>2, <1>4, <1>5, SameHandled, SecretStep

\* The binding goes when the credentials are gone and no Job needs them.
LEMMA DropNextSecrets ==
  ASSUME Typed, OrderInv, SafetyInv, SecretInv, NEW s \in Shared, DropNext(s)
  PROVE  SecretInv'
<1> DEFINE item == Head(work.drops)
<1>1. /\ s = This /\ pc \in Releasing /\ ~local.complete /\ s \in Components
      /\ job[s].state # "running" /\ job \in [Components -> Jobs]
      /\ work.drops \in DropLists /\ (work.drops = <<"binding">> => s \notin credentials)
  BY SharedType DEF DropNext, Releasing, OrderInv, Course, SafetyInv, PassOK, SecretInv,
     PassSecrets, Typed, TypeOK
<1>2. UNCHANGED <<status, template, providers, raced>>
  BY DEF DropNext, untouched, others
<1>3. \A d \in Components : job'[d].state = "running" => d # s /\ job[d].state = "running"
  <2> DEFINE going == [job[s] EXCEPT !.state = "deleting", !.seen = FALSE]
  <2>1. job' = job \/ job' = [job EXCEPT ![s] = going]
    BY DEF DropNext
  <2>2. going.state = "deleting"
    BY <1>1 DEF Jobs
  <2> HIDE DEF going
  <2> QED
    BY <1>1, <2>1, <2>2
<1>4. /\ credentials' = IF item = "credentials" THEN credentials \ {s} ELSE credentials
      /\ binding' = IF item = "binding" THEN binding \ {s} ELSE binding
  BY DEF DropNext
<1>5. /\ item = "binding" => s \notin credentials
      /\ Len(work.drops) = 1 => item = "binding"
      /\ Len(work.drops) > 1 => /\ Tail(work.drops) \in DropLists
                                /\ Tail(work.drops) = <<"binding">> => item = "credentials"
  <2>1. Head(<<"binding">>) = "binding"
    OBVIOUS
  <2> QED
    BY <1>1, <2>1, TailFacts
<1> HIDE DEF item
<1>6. ASSUME NEW x \in Shared PROVE SecretMove(x)
  <2>1. x \in Components
    BY SharedType
  <2>2. x \in credentials' => x \in credentials
    BY <1>4
  <2>3. x \in binding' => x \in binding
    BY <1>4
  <2>4. x \in binding \ binding' => x = s /\ s \notin credentials'
    BY <1>4, <1>5
  <2> QED
    BY <1>2, <1>3, <2>1, <2>2, <2>3, <2>4 DEF SecretMove
<1>7. PassSecrets'
  <2>1. \/ Conclude(local)
        \/ Len(work.drops) > 1 /\ Drop(local, Tail(work.drops))
        \/ Len(work.drops) = 1 /\ Proceed
    BY DEF DropNext
  <2>2. CASE Conclude(local)
    BY <1>1, <2>2, ConcludeSecrets
  <2>3. CASE Len(work.drops) > 1 /\ Drop(local, Tail(work.drops))
    <3>1. /\ pc' = "drop" /\ This' = This /\ UNCHANGED work.rest
          /\ work'.drops = Tail(work.drops)
      BY <2>3, DropCourse, DropFacts
    <3>2. work'.drops \in DropLists /\ (work'.drops = <<"binding">> => s \notin credentials')
      BY <1>4, <1>5, <2>3, <3>1
    <3> QED
      BY <1>1, <1>6, <3>1, <3>2, RestKept DEF PassSecrets
  <2>4. CASE Len(work.drops) = 1 /\ Proceed
    <3>1. s \notin binding' /\ s \notin credentials' /\ job'[s].state # "running"
      BY <1>1, <1>3, <1>4, <1>5, <2>4
    <3>2. Clean(s)'
      BY <3>1 DEF Clean
    <3> QED
      BY <1>1, <1>6, <2>4, <3>2, ProceedSecrets
  <2> QED
    BY <2>1, <2>2, <2>3, <2>4
<1> QED
  BY <1>2, <1>6, <1>7, SameHandled, SecretStep

LEMMA PatchComplete ==
  ASSUME Typed, Patch, status'.complete
  PROVE  status.complete \/ local.complete
<1>1. status \in Statuses /\ local \in Statuses /\ read \in Statuses
  BY DEF Typed, TypeOK
<1>2. status' = status \/ status' = Merged
  BY DEF Patch
<1>3. Merged.complete = IF local.complete = read.complete THEN status.complete ELSE local.complete
  BY <1>1, MergedType
<1> QED
  BY <1>2, <1>3

LEMMA EndSecrets ==
  ASSUME Typed, OrderInv, SecretInv, StepFails \/ Patch \/ Abort
  PROVE  SecretInv'
<1>1. UNCHANGED <<template, providers, job, binding, credentials, raced>>
  BY DEF StepFails, Patch, Abort, untouched, others, jobs, secrets, history
<1>2. \A s \in Shared : SecretMove(s)
  BY <1>1, SameMove
<1>3. PassSecrets'
  <2>1. CASE StepFails
    <3>1. ~local.complete /\ Conclude(local)
      BY <2>1 DEF StepFails, OrderInv, Course
    <3> QED
      BY <3>1, ConcludeSecrets
  <2>2. CASE Patch \/ Abort
    <3>1. pc' = "idle"
      BY <2>2 DEF Patch, Abort, EndPass, Continue
    <3> QED
      BY <3>1 DEF PassSecrets, Releasing
  <2> QED
    BY <2>1, <2>2
<1>4. CASE StepFails \/ Abort
  <2>1. UNCHANGED status
    BY <1>4 DEF StepFails, Abort, untouched
  <2> QED
    BY <1>1, <1>2, <1>3, <2>1, SameHandled, SecretStep
<1>5. CASE Patch
  <2>1. \A s \in Shared : SecretOK(s)' /\ (Clean(s) => Clean(s)')
    BY <1>2, MoveSecrets DEF SecretInv
  <2>2. Handled' => AllClean
    <3>1. pc = "patch"
      BY <1>5 DEF Patch
    <3>2. Handled' => template /\ (status.complete \/ local.complete)
      BY <1>1, <1>5, PatchComplete DEF Handled
    <3> QED
      BY <3>1, <3>2 DEF SecretInv, PassSecrets, Handled
  <2> QED
    BY <1>3, <2>1, <2>2 DEF SecretInv, AllClean
<1> QED
  BY <1>4, <1>5

\* A step of everybody else, as one shared component sees it.
LEMMA OthersMove ==
  ASSUME Typed, Others
  PROVE  /\ UNCHANGED <<status, pc, work, local, read, binding, credentials>>
         /\ template' => template
         /\ raced \subseteq raced' /\ providers' \subseteq providers
         /\ \A c \in Components : job'[c].state = "running" => job[c].state = "running"
<1> USE DEF operator, passVars, others, secrets
<1>1. /\ UNCHANGED <<status, pc, work, local, read, binding, credentials>>
      /\ template' => template
      /\ raced \subseteq raced' /\ providers' \subseteq providers
  <2>1. CASE TemplateDelete \/ SyncEnv \/ SyncBindings
    BY <2>1 DEF TemplateDelete, SyncEnv, SyncBindings
  <2>2. CASE \E s \in Shared : ProviderDelete(s) \/ ProvisionGone(s)
    BY <2>2 DEF ProviderDelete, ProvisionGone
  <2>3. CASE \/ \E s \in Shared, state \in Ended : FinishProvision(s, state)
             \/ \E c \in Plain : FinishDeploy(c)
    BY <2>3 DEF FinishProvision, FinishDeploy
  <2>4. CASE \E c \in Components : SyncJob(c) \/ JobGone(c)
    BY <2>4 DEF SyncJob, JobGone
  <2>5. CASE \E c \in Components, state \in Ended : FinishJob(c, state)
    BY <2>5 DEF FinishJob
  <2> QED
    BY <2>1, <2>2, <2>3, <2>4, <2>5 DEF Others
<1>2. job \in [Components -> Jobs]
  BY DEF Typed, TypeOK
<1>3. CASE job' = job
  BY <1>1, <1>3
<1>4. ASSUME NEW c \in Components, SyncJob(c)
      PROVE  \A d \in Components : job'[d].state = "running" => job[d].state = "running"
  <2> DEFINE shownJob == [job[c] EXCEPT !.seen = TRUE]
  <2>1. shownJob.state = job[c].state /\ job' = [job EXCEPT ![c] = shownJob]
    BY <1>2, <1>4 DEF Jobs, SyncJob
  <2> HIDE DEF shownJob
  <2> QED
    BY <1>2, <2>1
<1>5. ASSUME NEW c \in Components, JobGone(c)
      PROVE  \A d \in Components : job'[d].state = "running" => job[d].state = "running"
  <2> DEFINE noJob == [NoJob EXCEPT !.seen = FALSE]
  <2>1. noJob.state = "absent" /\ job' = [job EXCEPT ![c] = noJob]
    BY <1>5 DEF NoJob, JobGone
  <2> HIDE DEF noJob
  <2> QED
    BY <1>2, <2>1
<1>6. ASSUME NEW c \in Components, NEW state \in Ended, FinishJob(c, state)
      PROVE  \A d \in Components : job'[d].state = "running" => job[d].state = "running"
  <2> DEFINE ended == [job[c] EXCEPT !.state = state, !.seen = FALSE]
  <2>1. ended.state # "running" /\ job' = [job EXCEPT ![c] = ended]
    BY <1>2, <1>6 DEF Jobs, FinishJob, Ended
  <2> HIDE DEF ended
  <2> QED
    BY <1>2, <2>1
<1>7. \/ job' = job \/ \E c \in Components : SyncJob(c) \/ JobGone(c)
      \/ \E c \in Components, state \in Ended : FinishJob(c, state)
  <2>1. CASE TemplateDelete \/ SyncEnv \/ SyncBindings
    BY <2>1 DEF TemplateDelete, SyncEnv, SyncBindings, jobs
  <2>2. CASE \E s \in Shared : ProviderDelete(s) \/ ProvisionGone(s)
    BY <2>2 DEF ProviderDelete, ProvisionGone, jobs
  <2>3. CASE \E s \in Shared, state \in Ended : FinishProvision(s, state)
    BY <2>3 DEF FinishProvision
  <2>4. CASE \E c \in Plain : FinishDeploy(c)
    BY <2>4 DEF FinishDeploy, jobs
  <2> QED
    BY <2>1, <2>2, <2>3, <2>4 DEF Others
<1> QED
  BY <1>1, <1>3, <1>4, <1>5, <1>6, <1>7

LEMMA QuietSecrets ==
  ASSUME SecretInv, \A s \in Shared : SecretMove(s),
         UNCHANGED <<status, pc, work, local, binding, credentials>>,
         template' => template, raced \subseteq raced'
  PROVE  SecretInv'
<1>1. \A s \in Shared : Clean(s) => Clean(s)'
  BY MoveSecrets DEF SecretInv
<1>2. This' = This /\ \A s : Among(s, work.rest)' = Among(s, work.rest)
  BY DEF This, Among
<1>3. AllClean => AllClean'
  BY <1>1 DEF AllClean
<1>4. Traced(This) => Traced(This)'
  BY <1>2 DEF Traced
<1>5. PassSecrets'
  BY <1>1, <1>2, <1>3, <1>4 DEF SecretInv, PassSecrets
<1> QED
  BY <1>5, SecretStep DEF Handled

LEMMA OthersSecrets ==
  ASSUME Typed, SecretInv, Others
  PROVE  SecretInv'
<1>1. \A s \in Shared : SecretMove(s)
  BY OthersMove, SharedType, SameMove
<1> QED
  BY <1>1, OthersMove, QuietSecrets

LEMMA InitSecrets == Init => SecretInv
<1> SUFFICES ASSUME Init PROVE SecretInv
  OBVIOUS
<1>1. pc = "idle" /\ job = [c \in Components |-> IF c \in Strangers THEN StrangersJob ELSE NoJob]
  BY DEF Init
<1>2. NoJob.state = "absent" /\ StrangersJob.state = "succeeded"
  BY DEF NoJob, StrangersJob
<1>3. credentials \subseteq binding
  BY DEF Init, InitAllocations
<1>4. ~status.complete
  <2>1. PICK done \in SUBSET Components, busy \in SUBSET Components :
           InitDeployment(done, busy)
    BY DEF Init
  <2>2. PICK cs : status = [NoStatus EXCEPT !.comps = cs]
    BY <2>1 DEF InitDeployment
  <2> QED
    BY <2>2 DEF NoStatus
<1>5. \A s \in Shared : job[s].state # "running"
  BY <1>1, <1>2, SharedType
<1> QED
  BY <1>1, <1>3, <1>4, <1>5 DEF SecretInv, SecretOK, Traced, PassSecrets, Releasing, Handled

LEMMA SecretInvariant == Spec => [](Typed /\ OrderInv /\ SafetyInv /\ SecretInv)
<1>1. Typed /\ OrderInv /\ SafetyInv /\ SecretInv /\ [Next]_vars => SecretInv'
  <2> SUFFICES ASSUME Typed, OrderInv, SafetyInv, SecretInv, [Next]_vars PROVE SecretInv'
    OBVIOUS
  <2>1. CASE Next
    BY <2>1, NextCases, PlainSecrets, ReleaseSecrets, DeprovisionSecrets, ResubmitSecrets,
       DropNextSecrets, EndSecrets, OthersSecrets
  <2>2. CASE UNCHANGED vars
    <3>1. UNCHANGED <<status, pc, work, local, binding, credentials, template, raced,
                      providers, job>>
      BY <2>2 DEF vars, others, passVars, secrets, history, jobs
    <3>2. \A s \in Shared : SecretMove(s)
      BY <3>1, SameMove
    <3> QED
      BY <3>1, <3>2, QuietSecrets
  <2> QED
    BY <2>1, <2>2
<1> QED
  BY <1>1, InitSecrets, SafetyInvariant, PTL DEF Spec

\* When everything was handled, nothing is left in the operator's namespace of a
\* shared component that still exists, neither the Secrets its Jobs run with nor a
\* Job that runs, wherever a pass was cut short: the binding, by which the next
\* pass finds what there is, goes last.
SecretsGone ==
    Handled => \A s \in providers \ raced :
        s \notin credentials /\ s \notin binding /\ job[s].state # "running"

THEOREM NoSecretLeft == Spec => []SecretsGone
<1>1. Typed /\ SecretInv => SecretsGone
  BY DEF SecretInv, SecretsGone, AllClean, Clean, Typed, TypeOK
<1> QED
  BY <1>1, SecretInvariant, PTL

-----------------------------------------------------------------------------
\* Why nothing is being undeployed any more.  An undeploy that was given up is
\* not submitted again, if no pass starts from a copy that does not know it.

Still(c) == job[c].state # "running"

AllStill == \A c \in Plain : Still(c)

Spared(s, C) == \A c \in C : ~GivenUp(s.comps[c])

\* What the pass has put behind it has come to rest.
PassStill ==
    /\ \A c \in Plain : GivenUp(local.comps[c]) => Still(c)
    /\ pc # "idle" => \A c \in Plain : GivenUp(status.comps[c]) => GivenUp(local.comps[c])
    /\ pc \in {"observe", "submit"} => Spared(local, work.todo \cup work.need)
    /\ pc = "observe" => work.todo \cap work.need = {}
    /\ pc = "observe" /\ ~work.waiting =>
          \A c \in Plain : Level[c] >= work.level => Still(c) \/ c \in work.todo
    /\ pc \in Releasing => AllStill
    /\ pc = "patch" /\ local.complete /\ template => AllStill

StillInv ==
    /\ pc # "idle" => cache = status /\ read = status
    /\ \A c \in Plain : GivenUp(status.comps[c]) => Still(c)
    /\ Handled => AllStill
    /\ PassStill

-----------------------------------------------------------------------------
\* A pass may go on with status s.
FitsNext(s) ==
    \A c \in Plain : /\ GivenUp(s.comps[c]) => Still(c)'
                     /\ GivenUp(status'.comps[c]) => GivenUp(s.comps[c])

AllStillNext == \A c \in Plain : Still(c)'

LEMMA ConcludeStill ==
  ASSUME NEW s, FitsNext(s), s.complete /\ template' => AllStillNext, Conclude(s)
  PROVE  PassStill'
<1>1. pc' = "patch" /\ local' = s
  BY DEF Conclude, Continue
<1> QED
  BY <1>1 DEF PassStill, FitsNext, AllStill, AllStillNext, Releasing

LEMMA ReleaseFromStill ==
  ASSUME NEW rest, NEW s \in Statuses, FitsNext(s), AllStillNext, ReleaseFrom(rest, s)
  PROVE  PassStill'
<1>1. CASE rest = <<>>
  <2> DEFINE t == [s EXCEPT !.complete = TRUE]
  <2>1. t.comps = s.comps
    BY DEF Statuses
  <2>2. Conclude(t)
    BY <1>1 DEF ReleaseFrom
  <2> HIDE DEF t
  <2>3. FitsNext(t)
    BY <2>1 DEF FitsNext
  <2> QED
    BY <2>2, <2>3, ConcludeStill
<1>2. CASE rest # <<>>
  <2>1. pc' = "release" /\ local' = s
    BY <1>2 DEF ReleaseFrom, Continue
  <2> QED
    BY <2>1 DEF PassStill, FitsNext, AllStill, AllStillNext
<1> QED
  BY <1>1, <1>2

LEMMA StartLevelStill ==
  ASSUME NEW l \in Nat, NEW s \in Statuses, FitsNext(s),
         \A c \in Plain : Level[c] > l => Still(c)', StartLevel(l, s)
  PROVE  PassStill'
<1>1. CASE l = 0
  <2>1. AllStillNext
    BY <1>1, LevelType, PlainOrShared DEF AllStillNext
  <2>2. ReleaseFrom(Order, s)
    BY <1>1 DEF StartLevel
  <2> QED
    BY <2>1, <2>2, ReleaseFromStill
<1>2. CASE l # 0
  <2> DEFINE w == [NoWork EXCEPT !.level = l, !.todo = Undeployed(l, s)]
  <2>1. Continue("observe", s, w)
    BY <1>2 DEF StartLevel
  <2>2. w.level = l /\ w.todo = Undeployed(l, s) /\ w.need = {}
    BY DEF NoWork
  <2> HIDE DEF w
  <2>3. /\ pc' = "observe" /\ local' = s /\ work'.level = l
        /\ work'.todo = Undeployed(l, s) /\ work'.need = {}
    BY <2>1, <2>2 DEF Continue
  <2>4. \A c \in Undeployed(l, s) : ~GivenUp(s.comps[c])
    BY DEF Undeployed
  <2>5. ASSUME NEW c \in Plain, Level[c] >= l PROVE Still(c)' \/ c \in Undeployed(l, s)
    <3>1. Level[c] \in Nat
      BY LevelType, PlainOrShared
    <3>2. Level[c] > l \/ Level[c] = l
      BY <2>5, <3>1
    <3> QED
      BY <3>2 DEF Undeployed, FitsNext
  <2> QED
    BY <2>3, <2>4, <2>5 DEF PassStill, FitsNext, Spared, Releasing
<1> QED
  BY <1>1, <1>2

\* What was skipped on the way down to a level was given up.
LEMMA SkippedStill ==
  ASSUME NEW l \in Int, NEW s, FitsNext(s), \A c \in Plain : Level[c] > l => Still(c)'
  PROVE  \A c \in Plain : Level[c] > Downwards(l, s) => Still(c)'
<1> SUFFICES ASSUME NEW c \in Plain, Level[c] > Downwards(l, s), ~(Level[c] > l)
             PROVE  Still(c)'
  OBVIOUS
<1>1. Level[c] \in 1..l
  BY LevelType, PlainOrShared
<1>2. Undeployed(Level[c], s) = {}
  BY <1>1, DownwardsType
<1> QED
  BY <1>2 DEF Undeployed, FitsNext

LEMMA LevelObservedStill ==
  ASSUME NEW s \in Statuses, NEW w \in Works, FitsNext(s), ~s.complete, Spared(s, w.need),
         ~w.waiting => \A c \in Plain : Level[c] >= w.level => Still(c)',
         LevelObserved(s, w)
  PROVE  PassStill'
<1>1. CASE w.need # {}
  <2> DEFINE v == [w EXCEPT !.todo = w.need, !.need = {}]
  <2>1. v.todo = w.need /\ v.need = {}
    BY DEF Works
  <2>2. Continue("submit", s, v)
    BY <1>1 DEF LevelObserved
  <2> HIDE DEF v
  <2>3. pc' = "submit" /\ local' = s /\ work'.todo = w.need /\ work'.need = {}
    BY <2>1, <2>2 DEF Continue
  <2> QED
    BY <2>3 DEF PassStill, FitsNext, Spared, Releasing
<1>2. CASE w.need = {} /\ w.waiting
  BY <1>2, ConcludeStill DEF LevelObserved
<1>3. CASE w.need = {} /\ ~w.waiting
  <2> DEFINE l == w.level - 1
  <2>1. l \in Int /\ w.level \in Nat
    BY DEF Works
  <2>2. \A c \in Plain : Level[c] > l => Still(c)'
    <3> SUFFICES ASSUME NEW c \in Plain, Level[c] > l PROVE Still(c)'
      OBVIOUS
    <3>1. Level[c] \in Nat
      BY LevelType, PlainOrShared
    <3>2. Level[c] >= w.level
      BY <2>1, <3>1
    <3> QED
      BY <1>3, <3>2
  <2>3. Downwards(l, s) \in Nat
    BY <2>1, DownwardsType
  <2>4. StartLevel(Downwards(l, s), s)
    BY <1>3 DEF LevelObserved
  <2> HIDE DEF l
  <2>5. \A c \in Plain : Level[c] > Downwards(l, s) => Still(c)'
    BY <2>1, <2>2, SkippedStill
  <2> QED
    BY <2>3, <2>4, <2>5, StartLevelStill
<1> QED
  BY <1>1, <1>2, <1>3

-----------------------------------------------------------------------------
\* The steps.

LEMMA StillStep ==
  ASSUME StillInv, \A c \in Plain : Still(c) => Still(c)',
         UNCHANGED <<status, cache, template>>,
         pc' # "idle" => read' = read /\ pc # "idle", PassStill'
  PROVE  StillInv'
  BY DEF StillInv, Handled, AllStill

\* In the middle of a pass its status fits what is persisted.
LEMMA LocalFits ==
  ASSUME StillInv, pc # "idle", \A c \in Plain : Still(c) => Still(c)', UNCHANGED status
  PROVE  FitsNext(local)
  BY DEF StillInv, PassStill, FitsNext

LEMMA BeginStill ==
  ASSUME SeesOwnWrites, Typed, OrderInv, StillInv, Begin
  PROVE  StillInv'
<1>1. /\ cache \in Statuses /\ cache = status /\ read' = cache
      /\ UNCHANGED <<status, cache, template, job>>
  BY DEF Begin, others, jobs, Typed, TypeOK
<1>2. FitsNext(cache)
  BY <1>1 DEF StillInv, FitsNext, Still
<1>3. PassStill'
  <2>1. CASE template
    <3>1. \A c \in Plain : Level[c] > Top => Still(c)'
      BY TopType, LevelType, PlainOrShared
    <3>2. \A c \in Plain : Level[c] > Downwards(Top, cache) => Still(c)'
      BY <1>2, <3>1, TopType, SkippedStill
    <3>3. Downwards(Top, cache) \in Nat /\ StartLevel(Downwards(Top, cache), cache)
      BY <2>1, TopType, DownwardsType DEF Begin
    <3> QED
      BY <1>1, <1>2, <3>2, <3>3, StartLevelStill
  <2>2. CASE ~template
    <3> DEFINE t == [cache EXCEPT !.complete = TRUE]
    <3>1. t.comps = cache.comps
      BY <1>1 DEF Statuses
    <3>2. Conclude(t) /\ ~template'
      BY <1>1, <2>2 DEF Begin
    <3> HIDE DEF t
    <3>3. FitsNext(t)
      BY <1>2, <3>1 DEF FitsNext
    <3> QED
      BY <3>2, <3>3, ConcludeStill
  <2> QED
    BY <2>1, <2>2
<1> QED
  BY <1>1, <1>3 DEF StillInv, Handled, AllStill, Still

LEMMA GoOnStill ==
  ASSUME pc = "observe", NEW s \in Statuses, NEW v \in Works, FitsNext(s), ~s.complete,
         Spared(s, v.todo \cup v.need), v.todo \cap v.need = {},
         ~v.waiting => \A d \in Plain : Level[d] >= v.level => Still(d)' \/ d \in v.todo,
         IF v.todo = {} THEN LevelObserved(s, v) ELSE Continue(pc, s, v)
  PROVE  PassStill'
<1>1. CASE v.todo = {}
  BY <1>1, LevelObservedStill DEF Spared
<1>2. CASE v.todo # {}
  <2>1. pc' = "observe" /\ local' = s /\ work' = v
    BY <1>2 DEF Continue
  <2> QED
    BY <2>1 DEF PassStill, FitsNext, Spared, Releasing
<1> QED
  BY <1>1, <1>2

LEMMA ObserveStill ==
  ASSUME Typed, OrderInv, StillInv, NEW c \in Plain, Observe(c)
  PROVE  StillInv'
<1> DEFINE w == [work EXCEPT !.todo = @ \ {c}]
           awaited == [w EXCEPT !.waiting = TRUE]
           needed == [awaited EXCEPT !.need = @ \cup {c}]
           GoOn(s, v) == IF v.todo = {} THEN LevelObserved(s, v) ELSE Continue(pc, s, v)
<1>1. c \in Components /\ work \in Works /\ local \in Statuses /\ pc = "observe"
      /\ c \in work.todo /\ Charged(c) \in Statuses
      /\ ~local.complete /\ ~Charged(c).complete
  BY PlainOrShared, ChargedType, ChargedFacts DEF Observe, Typed, TypeOK, OrderInv, Course
<1>2. /\ w \in Works /\ w.level = work.level /\ w.todo = work.todo \ {c}
      /\ w.need = work.need /\ w.waiting = work.waiting
  BY <1>1 DEF Works
<1>3. /\ awaited \in Works /\ awaited.level = work.level /\ awaited.todo = work.todo \ {c}
      /\ awaited.need = work.need /\ awaited.waiting
  <2> HIDE DEF w
  <2> QED
    BY <1>2 DEF Works
<1>4. /\ needed \in Works /\ needed.level = work.level /\ needed.todo = work.todo \ {c}
      /\ needed.need = work.need \cup {c} /\ needed.waiting
  <2> HIDE DEF awaited
  <2> QED
    BY <1>1, <1>3 DEF Works
<1>5. \/ GoOn(local, w) /\ Still(c)
      \/ GoOn(local, awaited)
      \/ GoOn(local, needed)
      \/ ~Exhausted(c) /\ Still(c) /\ GoOn(Charged(c), needed)
      \/ Still(c) /\ GoOn(Charged(c), w)
  BY DEF Observe, Verdicts, Still
<1>6. UNCHANGED <<status, cache, template, read, job>>
  BY DEF Observe, untouched, others, jobs
<1> HIDE DEF w, awaited, needed
<1>7. \A d \in Plain : Still(d)' = Still(d)
  BY <1>6 DEF Still
<1>8. /\ FitsNext(local) /\ Spared(local, work.todo \cup work.need)
      /\ work.todo \cap work.need = {}
      /\ ~work.waiting => \A d \in Plain : Level[d] >= work.level => Still(d)' \/ d \in work.todo
  BY <1>1, <1>6, <1>7, LocalFits DEF StillInv, PassStill
<1>9. work.todo \cup work.need \subseteq Plain
  BY <1>1 DEF OrderInv, Course, LevelBegun, LevelSet
<1>10. Still(c) => FitsNext(Charged(c))
  <2>1. ~GivenUp(local.comps[c])
    BY <1>1, <1>8 DEF Spared
  <2>2. \A d \in Plain \ {c} : Charged(c).comps[d] = local.comps[d]
    BY <1>1, PlainOrShared, ChargedFacts
  <2> QED
    BY <1>7, <1>8, <2>1, <2>2 DEF FitsNext
<1>11. Spared(Charged(c), (work.todo \cup work.need) \ {c})
  <2>1. \A d \in Plain \ {c} : Charged(c).comps[d] = local.comps[d]
    BY <1>1, PlainOrShared, ChargedFacts
  <2> QED
    BY <1>8, <1>9, <2>1 DEF Spared
<1>12. PassStill'
  <2>1. CASE GoOn(local, w) /\ Still(c)
    <3>1. Spared(local, w.todo \cup w.need) /\ w.todo \cap w.need = {}
      BY <1>2, <1>8 DEF Spared
    <3>2. ~w.waiting => \A d \in Plain : Level[d] >= w.level => Still(d)' \/ d \in w.todo
      BY <1>2, <1>7, <1>8, <2>1
    <3> QED
      BY <1>1, <1>2, <1>8, <2>1, <3>1, <3>2, GoOnStill
  <2>2. CASE GoOn(local, awaited)
    <3>1. Spared(local, awaited.todo \cup awaited.need) /\ awaited.todo \cap awaited.need = {}
      BY <1>3, <1>8 DEF Spared
    <3> QED
      BY <1>1, <1>3, <1>8, <2>2, <3>1, GoOnStill
  <2>3. CASE GoOn(local, needed)
    <3>1. Spared(local, needed.todo \cup needed.need) /\ needed.todo \cap needed.need = {}
      BY <1>1, <1>4, <1>8 DEF Spared
    <3> QED
      BY <1>1, <1>4, <1>8, <2>3, <3>1, GoOnStill
  <2>4. CASE ~Exhausted(c) /\ Still(c) /\ GoOn(Charged(c), needed)
    <3>1. ~GivenUp(Charged(c).comps[c])
      BY <1>1, <2>4, ChargedFacts
    <3>2. Spared(Charged(c), needed.todo \cup needed.need) /\ needed.todo \cap needed.need = {}
      BY <1>4, <1>8, <1>11, <3>1 DEF Spared
    <3> QED
      BY <1>1, <1>4, <1>10, <2>4, <3>2, GoOnStill
  <2>5. CASE Still(c) /\ GoOn(Charged(c), w)
    <3>1. Spared(Charged(c), w.todo \cup w.need) /\ w.todo \cap w.need = {}
      BY <1>1, <1>2, <1>8, <1>11 DEF Spared
    <3>2. ~w.waiting => \A d \in Plain : Level[d] >= w.level => Still(d)' \/ d \in w.todo
      BY <1>2, <1>7, <1>8, <2>5
    <3> QED
      BY <1>1, <1>2, <1>10, <2>5, <3>1, <3>2, GoOnStill
  <2> QED
    BY <1>5, <2>1, <2>2, <2>3, <2>4, <2>5
<1> QED
  BY <1>1, <1>6, <1>7, <1>12, StillStep

\* Only what is not given up is submitted.
LEMMA SubmitStill ==
  ASSUME Typed, OrderInv, StillInv, NEW c \in Plain, Submit(c)
  PROVE  StillInv'
<1>1. c \in Components /\ work \in Works /\ pc = "submit" /\ c \in work.todo
      /\ ~local.complete
  BY PlainOrShared DEF Submit, Typed, TypeOK, OrderInv, Course
<1>2. UNCHANGED <<status, cache, template, read>>
  BY DEF Submit, untouched, others
<1>3. \A d \in Components : d # c => job'[d] = job[d]
  BY <1>1, SubmitJobFacts DEF Submit
<1>4. \A d \in Plain : d # c /\ Still(d) => Still(d)'
  BY <1>3, PlainOrShared DEF Still
<1>5. Spared(local, work.todo \cup work.need) /\ ~GivenUp(local.comps[c])
  BY <1>1 DEF StillInv, PassStill, Spared
<1>6. \A d \in Plain : GivenUp(status.comps[d]) => GivenUp(local.comps[d])
  BY <1>1 DEF StillInv, PassStill
<1>7. FitsNext(local)
  BY <1>2, <1>4, <1>5, <1>6 DEF FitsNext, StillInv, PassStill
<1>8. PassStill'
  <2>1. CASE Conclude(local)
    BY <1>1, <1>7, <2>1, ConcludeStill
  <2>2. CASE Continue(pc, local, [work EXCEPT !.todo = @ \ {c}])
    <3> DEFINE w == [work EXCEPT !.todo = @ \ {c}]
    <3>1. w.todo = work.todo \ {c} /\ w.need = work.need
      BY <1>1 DEF Works
    <3>2. Continue(pc, local, w)
      BY <2>2
    <3> HIDE DEF w
    <3>3. pc' = "submit" /\ local' = local /\ work'.todo \subseteq work.todo /\ work'.need = work.need
      BY <1>1, <3>1, <3>2 DEF Continue
    <3> QED
      BY <1>5, <1>7, <3>3 DEF PassStill, FitsNext, Spared, Releasing
  <2> QED
    BY <2>1, <2>2 DEF Submit
<1>9. \A d \in Plain : GivenUp(status'.comps[d]) => Still(d)'
  BY <1>2, <1>4, <1>5, <1>6 DEF StillInv
<1>10. ~status'.complete
  BY <1>1, <1>2 DEF StillInv, OrderInv, Persisted
<1> QED
  BY <1>1, <1>2, <1>8, <1>9, <1>10 DEF StillInv, Handled

\* The release of shared components leaves the undeploy Jobs alone.
LEMMA ReleasingStill ==
  ASSUME Typed, OrderInv, StillInv, pc \in Releasing,
         UNCHANGED <<status, cache, template, read>>, \A d \in Plain : job'[d] = job[d],
         \/ Proceed
         \/ \E t : /\ t = local \/ \E x \in Shared : t = Charged(x)
                   /\ Conclude(t) \/ \E p \in Releasing : \E w : Continue(p, t, w)
  PROVE  StillInv'
<1>1. pc # "idle" /\ AllStill /\ ~local.complete /\ local \in Statuses
  BY DEF Releasing, StillInv, PassStill, OrderInv, Course, Typed, TypeOK
<1>2. AllStillNext /\ \A c \in Plain : Still(c) => Still(c)'
  BY <1>1 DEF AllStill, AllStillNext, Still
<1>3. FitsNext(local)
  BY <1>1, <1>2, LocalFits
<1>4. PassStill'
  <2>1. CASE Proceed
    BY <1>1, <1>2, <1>3, <2>1, ReleaseFromStill DEF Proceed
  <2>2. ASSUME NEW t, t = local \/ \E x \in Shared : t = Charged(x),
               Conclude(t) \/ \E p \in Releasing : \E w : Continue(p, t, w)
        PROVE  PassStill'
    <3>1. ~t.complete /\ \A d \in Plain : t.comps[d] = local.comps[d]
      <4>1. CASE t = local
        BY <1>1, <4>1
      <4>2. ASSUME NEW x \in Shared, t = Charged(x)
            PROVE  ~t.complete /\ \A d \in Plain : t.comps[d] = local.comps[d]
        <5>1. x \in Components /\ \A d \in Plain : d \in Components \ {x}
          BY SharedType, PlainOrShared, NotBoth
        <5> QED
          BY <1>1, <4>2, <5>1, ChargedFacts
      <4> QED
        BY <2>2, <4>1, <4>2
    <3>2. FitsNext(t)
      BY <1>3, <3>1 DEF FitsNext
    <3>3. CASE Conclude(t)
      BY <3>1, <3>2, <3>3, ConcludeStill
    <3>4. ASSUME NEW p \in Releasing, NEW w, Continue(p, t, w) PROVE PassStill'
      <4>1. pc' = p /\ local' = t
        BY <3>4 DEF Continue
      <4> QED
        BY <1>2, <3>2, <4>1 DEF PassStill, FitsNext, AllStill, AllStillNext, Releasing
    <3> QED
      BY <2>2, <3>3, <3>4
  <2> QED
    BY <2>1, <2>2
<1> QED
  BY <1>1, <1>2, <1>4, StillStep

LEMMA SharedStill ==
  ASSUME Typed, OrderInv, StillInv, NEW s \in Shared,
         Release(s) \/ Deprovision(s) \/ Resubmit(s) \/ DropNext(s)
  PROVE  StillInv'
<1>1. s \in Components /\ pc \in Releasing /\ UNCHANGED <<status, cache, template, read>>
  BY SharedType DEF Release, Deprovision, Resubmit, DropNext, Releasing, untouched, others
<1>2. \A d \in Plain : job'[d] = job[d]
  <2>1. CASE Release(s) \/ Deprovision(s)
    BY <2>1 DEF Release, Deprovision, jobs
  <2>2. CASE Resubmit(s)
    BY <1>1, <2>2, SubmitJobFacts, PlainOrShared, NotBoth DEF Resubmit
  <2>3. CASE DropNext(s)
    <3> DEFINE going == [job[s] EXCEPT !.state = "deleting", !.seen = FALSE]
    <3>1. job' = job \/ job' = [job EXCEPT ![s] = going]
      BY <2>3 DEF DropNext
    <3>2. job \in [Components -> Jobs]
      BY DEF Typed, TypeOK
    <3> HIDE DEF going
    <3> QED
      BY <3>1, <3>2, PlainOrShared, NotBoth
  <2> QED
    BY <2>1, <2>2, <2>3
<1>3. \A t, items : Drop(t, items) => \E w : Continue("drop", t, w)
  BY DEF Drop
<1>4. \/ Proceed
      \/ \E t : /\ t = local \/ \E x \in Shared : t = Charged(x)
                /\ \/ Conclude(t) \/ \E items : Drop(t, items)
                   \/ \E p \in Releasing : \E w : Continue(p, t, w)
  BY DEF Release, Deprovision, Resubmit, DropNext, Releasing
<1>5. \/ Proceed
      \/ \E t : /\ t = local \/ \E x \in Shared : t = Charged(x)
                /\ Conclude(t) \/ \E p \in Releasing : \E w : Continue(p, t, w)
  BY <1>3, <1>4 DEF Releasing
<1> QED
  BY <1>1, <1>2, <1>5, ReleasingStill

LEMMA EndStill ==
  ASSUME Typed, OrderInv, StillInv, StepFails \/ Patch \/ Abort
  PROVE  StillInv'
<1>1. UNCHANGED <<template, job, cache>>
  BY DEF StepFails, Patch, Abort, untouched, others, jobs
<1>2. \A c \in Plain : Still(c)' = Still(c)
  BY <1>1 DEF Still
<1>3. EndPass => pc' = "idle" /\ PassStill'
  <2>1. \A c \in Plain : ~GivenUp(NoStatus.comps[c])
    BY PlainOrShared DEF NoStatus, GivenUp
  <2>2. EndPass => pc' = "idle" /\ local' = NoStatus
    BY DEF EndPass, Continue
  <2> QED
    BY <2>1, <2>2 DEF PassStill, Releasing
<1>4. CASE StepFails
  <2>1. /\ UNCHANGED <<status, read>> /\ pc # "idle" /\ ~local.complete /\ Conclude(local)
    BY <1>4 DEF StepFails, untouched, OrderInv, Course
  <2>2. PassStill'
    BY <1>2, <2>1, LocalFits, ConcludeStill
  <2> QED
    BY <1>1, <1>2, <2>1, <2>2, StillStep
<1>5. CASE Abort
  BY <1>1, <1>2, <1>3, <1>5, StillStep DEF Abort
<1>6. CASE Patch
  <2>1. /\ pc = "patch" /\ EndPass
        /\ status \in Statuses /\ local \in Statuses /\ read \in Statuses
    BY <1>6 DEF Patch, Typed, TypeOK
  <2>2. status'.comps = status.comps \/ status'.comps = local.comps
    <3>1. status' = status \/ status' = Merged
      BY <1>6 DEF Patch
    <3>2. Merged.comps = IF local.comps = read.comps THEN status.comps ELSE local.comps
      BY <2>1, MergedType
    <3> QED
      BY <3>1, <3>2
  <2>3. \A c \in Plain : GivenUp(status'.comps[c]) => Still(c)'
    BY <1>2, <2>2 DEF StillInv, PassStill
  <2>4. Handled' => AllStill'
    <3>1. Handled' => template /\ (status.complete \/ local.complete)
      BY <1>1, <1>6, PatchComplete DEF Handled
    <3>2. AllStill' = AllStill
      BY <1>2 DEF AllStill
    <3> QED
      BY <2>1, <3>1, <3>2 DEF StillInv, PassStill, Handled
  <2> QED
    BY <1>3, <2>1, <2>3, <2>4 DEF StillInv
<1> QED
  BY <1>4, <1>5, <1>6

LEMMA OthersStill ==
  ASSUME Typed, StillInv, Others
  PROVE  StillInv'
<1>1. /\ UNCHANGED <<status, pc, work, local, read>>
      /\ template' => template
      /\ \A c \in Plain : Still(c) => Still(c)'
  BY OthersMove, PlainOrShared DEF Still
<1>2. cache' = cache \/ (cache # status /\ cache' = status)
  BY DEF Others, TemplateDelete, SyncEnv, SyncBindings, ProviderDelete, ProvisionGone,
     SyncJob, JobGone, FinishJob, FinishProvision, FinishDeploy
<1>3. AllStill => AllStill'
  BY <1>1 DEF AllStill
<1>4. PassStill'
  BY <1>1, <1>3 DEF StillInv, PassStill, Spared
<1> QED
  BY <1>1, <1>2, <1>3, <1>4 DEF StillInv, Handled

LEMMA InitStill == Init => StillInv
<1> SUFFICES ASSUME Init PROVE StillInv
  OBVIOUS
<1>1. /\ pc = "idle" /\ local = NoStatus
      /\ job = [c \in Components |-> IF c \in Strangers THEN StrangersJob ELSE NoJob]
  BY DEF Init
<1>2. \A c \in Plain : Still(c)
  <2>1. NoJob.state = "absent" /\ StrangersJob.state = "succeeded"
    BY DEF NoJob, StrangersJob
  <2> QED
    BY <1>1, <2>1, PlainOrShared DEF Still
<1> QED
  BY <1>1, <1>2 DEF StillInv, PassStill, AllStill, Releasing

LEMMA StillInvariant ==
  ASSUME SeesOwnWrites
  PROVE  Spec => []StillInv
<1>1. Typed /\ OrderInv /\ StillInv /\ [Next]_vars => StillInv'
  <2> SUFFICES ASSUME Typed, OrderInv, StillInv, [Next]_vars PROVE StillInv'
    OBVIOUS
  <2>1. CASE Next
    BY <2>1, NextCases, BeginStill, ObserveStill, SubmitStill, SharedStill, EndStill,
       OthersStill
  <2>2. CASE UNCHANGED vars
    <3>1. UNCHANGED <<status, cache, read, pc, work, local, template, job>>
      BY <2>2 DEF vars, others, passVars, jobs
    <3> QED
      BY <3>1 DEF StillInv, PassStill, Spared, AllStill, Still, Handled
  <2> QED
    BY <2>1, <2>2
<1> QED
  BY <1>1, InitStill, OrderInvariant, PTL DEF Spec

\* When cleanup is complete nothing works on it any more and nothing is left
\* that a Job of the next environment of this name would run with, provided that
\* a pass starts from a copy with the last patch: one that does not know that an
\* undeploy was given up submits it again, and the next one does not wait for it.
THEOREM NothingIsLeft ==
  ASSUME SeesOwnWrites
  PROVE  Spec => []NothingLeft
<1>1. Typed /\ SecretInv /\ StillInv => NothingLeft
  <2> SUFFICES ASSUME Typed, SecretInv, StillInv, Handled PROVE NothingLeft
    BY DEF NothingLeft
  <2>1. AllClean /\ AllStill /\ providers \subseteq Shared
    BY DEF SecretInv, StillInv, Typed, TypeOK
  <2> QED
    BY <2>1 DEF AllClean, AllStill, Clean, Still, NothingLeft
<1> QED
  BY <1>1, SecretInvariant, StillInvariant, PTL

=============================================================================
