------------------------- MODULE EnvTeardownProofs -------------------------
(***************************************************************************)
(* Proofs about EnvTeardown, for any template, any order of its shared     *)
(* components, any number of retries and failures, and any staleness of    *)
(* the caches: its types, and that it implements OrderedTeardown.          *)
(***************************************************************************)
EXTENDS EnvTeardown, FiniteSetTheorems, TLAPS

-----------------------------------------------------------------------------
\* Numbers: a set of them has a least one, and if it is bounded, a greatest.

LEMMA LeastOf ==
  ASSUME NEW B \in SUBSET Nat, B # {}
  PROVE  \E m \in B : \A k \in B : m <= k
<1> DEFINE R == OpToRel(<, Nat)
<1>1. IsWellFoundedOn(R, Nat)
  BY NatLessThanWellFounded
<1>2. \A x, y \in Nat : y < x => <<y, x>> \in R
  BY DEF OpToRel
<1> HIDE DEF R
<1>3. PICK m \in B : \A k \in B : ~ (<<k, m>> \in R)
  BY <1>1, WFMin
<1>4. ASSUME NEW k \in B PROVE m <= k
  <2>1. k \in Nat /\ m \in Nat
    OBVIOUS
  <2>2. ~ (k < m)
    BY <1>2, <1>3, <2>1
  <2> QED
    BY <2>1, <2>2
<1> QED
  BY <1>4

LEMMA FiniteBounded ==
  ASSUME NEW n \in Nat, NEW f \in [1..n -> Nat]
  PROVE  \E b \in Nat : \A i \in 1..n : f[i] <= b
<1> DEFINE Bounded(k) == \E b \in Nat : \A i \in 1..k : f[i] <= b
           U == {k \in 0..n : ~Bounded(k)}
<1>1. SUFFICES U = {}
  <2>1. n \in 0..n
    OBVIOUS
  <2> QED
    BY <2>1
<1>2. SUFFICES ASSUME U # {} PROVE FALSE
  OBVIOUS
<1>3. PICK k \in U : \A j \in U : k <= j
  <2>1. U \in SUBSET Nat
    OBVIOUS
  <2> HIDE DEF U
  <2> QED
    BY <1>2, <2>1, LeastOf
<1>4. k \in 0..n /\ ~Bounded(k)
  OBVIOUS
<1>5. k # 0
  <2>1. Bounded(0)
    <3>1. \A i \in 1..0 : f[i] <= 0
      OBVIOUS
    <3> QED
      BY <3>1
  <2> QED
    BY <1>4, <2>1
<1>6. k - 1 \in 0..n /\ k \in 1..n
  BY <1>4, <1>5
<1>7. k - 1 \notin U
  <2> HIDE DEF U
  <2> QED
    BY <1>3, <1>6
<1>8. PICK b \in Nat : \A i \in 1..(k-1) : f[i] <= b
  BY <1>6, <1>7
<1> DEFINE s == b + f[k]
<1>9. f[k] \in Nat /\ s \in Nat
  BY <1>6
<1>10. ASSUME NEW i \in 1..k PROVE f[i] <= s
  <2>1. f[i] \in Nat
    BY <1>6
  <2>2. CASE i = k
    BY <1>9, <2>2
  <2>3. CASE i # k
    <3>1. i \in 1..(k-1)
      BY <1>6, <2>3
    <3>2. f[i] <= b
      BY <1>8, <3>1
    <3> QED
      BY <1>9, <2>1, <3>2
  <2> QED
    BY <2>2, <2>3
<1> HIDE DEF s
<1>11. Bounded(k)
  BY <1>9, <1>10
<1> QED
  BY <1>4, <1>11

LEMMA MaxOf ==
  ASSUME NEW S \in SUBSET Nat, NEW b \in Nat, \A x \in S : x <= b, S # {}
  PROVE  Max(S) \in S /\ \A x \in S : x <= Max(S)
<1> DEFINE B == {k \in Nat : \A x \in S : x <= k}
<1>1. B \in SUBSET Nat /\ b \in B
  OBVIOUS
<1>2. PICK m \in B : \A k \in B : m <= k
  <2> HIDE DEF B
  <2> QED
    BY <1>1, LeastOf
<1>3. m \in Nat /\ \A x \in S : x <= m
  OBVIOUS
<1>4. m \in S
  <2> SUFFICES ASSUME m \notin S PROVE FALSE
    OBVIOUS
  <2>1. \A x \in S : x \in Nat /\ x < m
    BY <1>3
  <2>2. m - 1 \in Nat
    <3>1. PICK x \in S : TRUE
      OBVIOUS
    <3>2. x \in Nat /\ x < m /\ m \in Nat
      BY <1>3, <2>1
    <3> QED
      BY <3>2
  <2>3. m - 1 \in B
    BY <1>3, <2>1, <2>2
  <2> HIDE DEF B
  <2> QED
    BY <1>2, <1>3, <2>3
<1>5. \A x \in S : m >= x
  BY <1>3
<1>6. Max(S) \in S /\ \A x \in S : Max(S) >= x
  BY <1>4, <1>5 DEF Max
<1>7. \A x \in S : x \in Nat
  OBVIOUS
<1> QED
  BY <1>6, <1>7

-----------------------------------------------------------------------------
\* Types.

Steps == {"idle", "observe", "submit", "release", "deprovision", "resubmit",
          "drop", "patch"}

Fates == {"up", "leaving", "removed", "abandoned", "skipped"}

\* While shared components are released there is one to release.
Releasing == {"release", "deprovision", "resubmit", "drop"}

RestInv == pc \in Releasing => work.rest # <<>>

Typed == TypeOK /\ RestInv

\* The parts of the assumption on the constants.
LEMMA Bounds == MaxRetries \in Nat /\ MaxRetries > 0 /\ MaxFailures \in Nat
  BY ConstantsAssumption

LEMMA SharedType == Shared \subseteq Components /\ Strangers \subseteq Shared
  BY ConstantsAssumption

LEMMA OrderType == Order \in Seq(Shared)
  BY ConstantsAssumption

LEMMA OrderComplete == \A s \in Shared : \E i \in DOMAIN Order : Order[i] = s
  BY ConstantsAssumption

LEMMA LevelType == Level \in [Components -> Nat \ {0}]
  BY ConstantsAssumption

\* There is a last level, and no component beyond it.
LEMMA TopType == Top \in Nat /\ \A c \in Components : Level[c] <= Top
<1> DEFINE L == {0} \cup {Level[c] : c \in Components}
<1>1. PICK n \in Nat : ExistsSurjection(1..n, Components)
  <2>1. IsFiniteSet(Components)
    BY ConstantsAssumption
  <2> QED
    BY <2>1, FS_NatSurjection
<1>2. PICK g \in Surjection(1..n, Components) : TRUE
  BY <1>1 DEF ExistsSurjection
<1>3. g \in [1..n -> Components] /\ \A c \in Components : \E i \in 1..n : g[i] = c
  BY DEF Surjection
<1> DEFINE f == [i \in 1..n |-> Level[g[i]]]
<1>4. f \in [1..n -> Nat]
  BY <1>3, LevelType
<1>5. PICK b \in Nat : \A i \in 1..n : f[i] <= b
  <2> HIDE DEF f
  <2> QED
    BY <1>4, FiniteBounded
<1>6. \A c \in Components : Level[c] <= b
  BY <1>3, <1>5
<1>7. L \in SUBSET Nat /\ L # {}
  BY LevelType
<1>8. \A x \in L : x <= b
  BY <1>6
<1>9. Max(L) \in L /\ \A x \in L : x <= Max(L)
  <2> HIDE DEF L
  <2> QED
    BY <1>7, <1>8, MaxOf
<1>10. Top = Max(L)
  BY DEF Top
<1> QED
  BY <1>7, <1>9, <1>10

\* What lies between a level and the next one to undeploy was given up.
LEMMA DownwardsType ==
  ASSUME NEW l \in Int, NEW s
  PROVE  /\ Downwards(l, s) \in Nat /\ (l >= 0 => Downwards(l, s) <= l)
         /\ \A k \in 1..l : k > Downwards(l, s) => Undeployed(k, s) = {}
<1> DEFINE D == {0} \cup {k \in 1..l : Undeployed(k, s) # {}}
           b == IF l > 0 THEN l ELSE 0
<1>1. D \in SUBSET Nat /\ D # {} /\ b \in Nat
  OBVIOUS
<1>2. \A x \in D : x <= b
  OBVIOUS
<1>3. \A k \in 1..l : Undeployed(k, s) # {} => k \in D
  OBVIOUS
<1>4. Downwards(l, s) = Max(D)
  BY DEF Downwards
<1> HIDE DEF D
<1>5. Max(D) \in D /\ \A x \in D : x <= Max(D)
  BY <1>1, <1>2, MaxOf
<1>6. Max(D) \in Nat /\ (l >= 0 => Max(D) <= l)
  <2>1. Max(D) \in Nat /\ Max(D) <= b
    BY <1>1, <1>2, <1>5
  <2>2. l > 0 => b = l
    OBVIOUS
  <2>3. l = 0 => b = 0
    OBVIOUS
  <2> HIDE DEF b
  <2> QED
    BY <2>1, <2>2, <2>3
<1>7. ASSUME NEW k \in 1..l, k > Max(D)
      PROVE  Undeployed(k, s) = {}
  <2>1. ~ (k <= Max(D))
    BY <1>6, <1>7
  <2> QED
    BY <1>3, <1>5, <2>1
<1> QED
  BY <1>4, <1>6, <1>7

LEMMA NoWorkType == NoWork \in Works
  BY DEF NoWork, Works

LEMMA NoStatusType == NoStatus \in Statuses
  BY ConstantsAssumption DEF NoStatus, Statuses, Records

LEMMA CompleteType ==
  ASSUME NEW s \in Statuses
  PROVE  [s EXCEPT !.complete = TRUE] \in Statuses
  BY DEF Statuses

LEMMA ChargedType ==
  ASSUME local \in Statuses, NEW c \in Components
  PROVE  Charged(c) \in Statuses
<1>1. local.comps[c] \in Records
  BY DEF Statuses
<1>2. More(local.comps[c].retries) \in 0..MaxRetries
  BY <1>1, Bounds DEF Records, More
<1> DEFINE r == [retries |-> More(local.comps[c].retries), undeploy |-> c \in Plain]
<1>3. r \in Records
  BY <1>2 DEF Records
<1>4. Charged(c) = [local EXCEPT !.comps = [local.comps EXCEPT ![c] = r]]
  BY DEF Charged
<1> HIDE DEF r
<1>5. [local.comps EXCEPT ![c] = r] \in [Components -> Records]
  BY <1>3 DEF Statuses
<1> QED
  BY <1>4, <1>5 DEF Statuses

LEMMA MergedType ==
  ASSUME status \in Statuses, local \in Statuses, read \in Statuses
  PROVE  /\ Merged \in Statuses
         /\ Merged.complete = IF local.complete = read.complete
                              THEN status.complete ELSE local.complete
         /\ Merged.comps = IF local.comps = read.comps
                           THEN status.comps ELSE local.comps
<1>1. DOMAIN status = {"comps", "complete"}
  BY DEF Statuses
<1>2. Merged = [comps    |-> IF local.comps = read.comps THEN status.comps ELSE local.comps,
                complete |-> IF local.complete = read.complete
                             THEN status.complete ELSE local.complete]
  BY <1>1 DEF Merged
<1> QED
  BY <1>2 DEF Statuses

-----------------------------------------------------------------------------
\* Where a pass goes next.

PassTyped ==
    /\ pc' \in Steps /\ local' \in Statuses /\ work' \in Works
    /\ pc' \in Releasing => work'.rest # <<>>

LEMMA ContinueType ==
  ASSUME NEW p \in Steps, NEW s \in Statuses, NEW w \in Works,
         p \in Releasing => w.rest # <<>>, Continue(p, s, w)
  PROVE  PassTyped
  BY DEF Continue, PassTyped

LEMMA ConcludeType ==
  ASSUME NEW s \in Statuses, Conclude(s)
  PROVE  PassTyped
  BY NoWorkType DEF Conclude, Continue, PassTyped, Steps, Releasing

LEMMA ReleaseFromType ==
  ASSUME NEW rest \in Seq(Shared), NEW s \in Statuses, ReleaseFrom(rest, s)
  PROVE  PassTyped
<1>1. CASE rest = <<>>
  BY <1>1, CompleteType, ConcludeType DEF ReleaseFrom
<1>2. CASE rest # <<>>
  <2>1. [NoWork EXCEPT !.rest = rest] \in Works /\ [NoWork EXCEPT !.rest = rest].rest = rest
    BY NoWorkType DEF Works
  <2> QED
    BY <1>2, <2>1, ContinueType DEF ReleaseFrom, Steps
<1> QED
  BY <1>1, <1>2

LEMMA StartLevelType ==
  ASSUME NEW l \in Nat, NEW s \in Statuses, StartLevel(l, s)
  PROVE  PassTyped
<1>1. CASE l = 0
  BY <1>1, OrderType, ReleaseFromType DEF StartLevel
<1>2. CASE l # 0
  <2>1. [NoWork EXCEPT !.level = l, !.todo = Undeployed(l, s)] \in Works
    <3>1. Undeployed(l, s) \in SUBSET Components
      BY DEF Undeployed, Plain
    <3> HIDE DEF Undeployed
    <3> QED
      BY <3>1, NoWorkType DEF Works
  <2> QED
    BY <1>2, <2>1, ContinueType DEF StartLevel, Steps, Releasing
<1> QED
  BY <1>1, <1>2

LEMMA LevelObservedType ==
  ASSUME NEW s \in Statuses, NEW w \in Works, LevelObserved(s, w)
  PROVE  PassTyped
<1>1. CASE w.need # {}
  <2>1. [w EXCEPT !.todo = w.need, !.need = {}] \in Works
    BY DEF Works
  <2> QED
    BY <1>1, <2>1, ContinueType DEF LevelObserved, Steps, Releasing
<1>2. CASE w.need = {} /\ w.waiting
  BY <1>2, ConcludeType DEF LevelObserved
<1>3. CASE w.need = {} /\ ~w.waiting
  <2>1. w.level - 1 \in Int
    BY DEF Works
  <2>2. Downwards(w.level - 1, s) \in Nat
    BY <2>1, DownwardsType
  <2> QED
    BY <1>3, <2>2, StartLevelType DEF LevelObserved
<1> QED
  BY <1>1, <1>2, <1>3

-----------------------------------------------------------------------------
\* Every step keeps the types.

LEMMA BecomeType ==
  ASSUME fate \in [Components -> Fates], NEW c \in Components, NEW f \in Fates,
         Become(c, f)
  PROVE  fate' \in [Components -> Fates]
  BY DEF Become

LEMMA WantedAttemptType ==
  ASSUME local \in Statuses, NEW c \in Components
  PROVE  WantedAttempt(c) \in 0..MaxRetries
<1>1. local.comps[c] \in Records
  BY DEF Statuses
<1> QED
  BY <1>1, Bounds DEF Records, WantedAttempt

LEMMA SubmitJobType ==
  ASSUME job \in [Components -> Jobs], local \in Statuses,
         fate \in [Components -> Fates], NEW c \in Components, SubmitJob(c)
  PROVE  job' \in [Components -> Jobs] /\ fate' \in [Components -> Fates]
<1> DEFINE new == [attempt |-> WantedAttempt(c), seen |-> FALSE, state |-> "running"]
           gone == [job[c] EXCEPT !.state = "deleting", !.seen = FALSE]
<1>1. new \in Jobs
  BY WantedAttemptType, Bounds DEF Jobs, States
<1>2. gone \in Jobs
  BY DEF Jobs, States
<1>3. CASE job[c].seen /\ job[c].state = "absent"
  <2>1. job' = [job EXCEPT ![c] = new] /\ Become(c, "leaving")
    BY <1>3 DEF SubmitJob
  <2> HIDE DEF new
  <2> QED
    BY <1>1, <2>1, BecomeType DEF Fates
<1>4. CASE ~(job[c].seen /\ job[c].state = "absent")
  <2>1. fate' = fate /\ (job' = job \/ job' = [job EXCEPT ![c] = gone])
    BY <1>4 DEF SubmitJob
  <2> HIDE DEF gone
  <2> QED
    BY <1>2, <2>1
<1> QED
  BY <1>3, <1>4

LEMMA FailType ==
  ASSUME failures \in 0..MaxFailures, Fail
  PROVE  failures' \in 0..MaxFailures
  BY Bounds DEF Fail

LEMMA InitType == Init => TypeOK
<1> SUFFICES ASSUME Init PROVE TypeOK
  OBVIOUS
<1>1. NoWork \in Works /\ NoStatus \in Statuses /\ 0 \in 0..MaxFailures
  BY NoWorkType, NoStatusType, Bounds
<1>2. PICK done \in SUBSET Components, busy \in SUBSET Components :
         InitDeployment(done, busy) /\ InitAllocations(done, busy)
  BY DEF Init
<1>3. status \in Statuses
  <2>1. PICK spent \in 0..MaxRetries :
           status = [NoStatus EXCEPT !.comps = [c \in Components |->
             [retries |-> IF c \in busy THEN spent ELSE 0, undeploy |-> FALSE]]]
    BY <1>2 DEF InitDeployment
  <2> DEFINE cs == [c \in Components |->
             [retries |-> IF c \in busy THEN spent ELSE 0, undeploy |-> FALSE]]
  <2>2. cs \in [Components -> Records]
    BY Bounds DEF Records
  <2>3. status = [NoStatus EXCEPT !.comps = cs]
    BY <2>1
  <2> HIDE DEF cs
  <2> QED
    BY <2>2, <2>3 DEF NoStatus, Statuses
<1>4. job \in [Components -> Jobs]
  <2>1. NoJob \in Jobs /\ StrangersJob \in Jobs
    BY Bounds DEF NoJob, StrangersJob, Jobs, States, Ended
  <2> HIDE DEF NoJob, StrangersJob
  <2> QED
    BY <2>1 DEF Init
<1>5. /\ deploying \subseteq Plain /\ installed \subseteq Plain
      /\ provision \in [Shared -> States] /\ allocated \subseteq Shared
      /\ binding \subseteq Shared /\ shown \subseteq Shared /\ credentials \subseteq Shared
  BY <1>2 DEF InitDeployment, InitAllocations, States, Ended
<1>6. /\ template \in BOOLEAN /\ providers \subseteq Shared /\ scripted \subseteq Shared
      /\ cache = status /\ pc = "idle" /\ read = NoStatus /\ local = NoStatus
      /\ work = NoWork /\ raced = {} /\ failures = 0
      /\ fate \in [Components -> {"up", "leaving", "removed", "abandoned", "skipped"}]
  BY DEF Init
<1> QED
  BY <1>1, <1>3, <1>4, <1>5, <1>6 DEF TypeOK

LEMMA BeginType ==
  ASSUME Typed, Begin
  PROVE  Typed'
<1>1. cache \in Statuses
  BY DEF Typed, TypeOK
<1>2. PassTyped
  <2>1. Downwards(Top, cache) \in Nat
    BY TopType, DownwardsType
  <2>2. CASE template
    BY <1>1, <2>1, <2>2, StartLevelType DEF Begin
  <2>3. CASE ~template
    BY <1>1, <2>3, CompleteType, ConcludeType DEF Begin
  <2> QED
    BY <2>2, <2>3
<1> QED
  BY <1>1, <1>2 DEF Begin, Typed, RestInv, TypeOK, PassTyped, others, jobs, effects, secrets, history,
     Steps

LEMMA ObserveType ==
  ASSUME Typed, NEW c \in Plain, Observe(c)
  PROVE  Typed'
<1> DEFINE w == [work EXCEPT !.todo = @ \ {c}]
           awaited == [w EXCEPT !.waiting = TRUE]
           needed == [awaited EXCEPT !.need = @ \cup {c}]
           GoOn(s, v) == IF v.todo = {} THEN LevelObserved(s, v) ELSE Continue(pc, s, v)
<1>1. c \in Components /\ work \in Works /\ local \in Statuses /\ pc \in Steps
      /\ fate \in [Components -> Fates] /\ pc \notin Releasing
  BY DEF Observe, Releasing, Plain, Typed, TypeOK, Steps, Fates
<1>2. w \in Works
  BY <1>1 DEF Works
<1>3. awaited \in Works
  <2> HIDE DEF w
  <2> QED
    BY <1>2 DEF Works
<1>4. needed \in Works
  <2> HIDE DEF awaited
  <2> QED
    BY <1>1, <1>3 DEF Works
<1>5. Charged(c) \in Statuses
  BY <1>1, ChargedType
<1>6. \E s \in Statuses, v \in Works : GoOn(s, v)
  <2> HIDE DEF GoOn, w, awaited, needed
  <2>1. GoOn(local, w) \/ GoOn(local, awaited) \/ GoOn(local, needed)
        \/ GoOn(Charged(c), needed) \/ GoOn(Charged(c), w)
    BY DEF Observe, GoOn, w, awaited, needed
  <2> QED
    BY <1>1, <1>2, <1>3, <1>4, <1>5, <2>1
<1>7. PassTyped
  <2>1. PICK s \in Statuses, v \in Works : GoOn(s, v)
    BY <1>6
  <2> QED
    BY <1>1, <2>1, LevelObservedType, ContinueType
<1>8. fate' \in [Components -> Fates]
  <2>1. fate' = fate \/ Become(c, "removed") \/ Become(c, "abandoned")
    BY DEF Observe
  <2> QED
    BY <1>1, <2>1, BecomeType DEF Fates
<1>9. UNCHANGED <<untouched, jobs, secrets, raced, failures>>
  BY DEF Observe
<1> QED
  BY <1>7, <1>8, <1>9 DEF PassTyped, Typed, RestInv, TypeOK, untouched, others, jobs, effects, secrets,
     Steps, Fates

LEMMA SubmitType ==
  ASSUME Typed, NEW c \in Plain, Submit(c)
  PROVE  Typed'
<1>1. c \in Components /\ work \in Works /\ local \in Statuses /\ pc \in Steps
      /\ fate \in [Components -> Fates] /\ job \in [Components -> Jobs]
      /\ failures \in 0..MaxFailures
  BY DEF Plain, Typed, TypeOK, Steps, Fates
<1>2. [work EXCEPT !.todo = @ \ {c}] \in Works
  BY <1>1 DEF Works
<1>3. PassTyped
  BY <1>1, <1>2, ConcludeType, ContinueType DEF Submit, Releasing
<1>4. job' \in [Components -> Jobs] /\ fate' \in [Components -> Fates]
      /\ failures' \in 0..MaxFailures
  BY <1>1, SubmitJobType, FailType DEF Submit
<1>5. UNCHANGED <<untouched, provision, secrets, raced>>
  BY DEF Submit
<1> QED
  BY <1>3, <1>4, <1>5 DEF PassTyped, Typed, RestInv, TypeOK, untouched, others, effects, secrets, Steps, Fates

\* The work on the first of the shared components goes on, or ends.
LEMMA ProceedType ==
  ASSUME Typed, pc \in Releasing, Proceed
  PROVE  PassTyped
<1>1. work.rest \in Seq(Shared) /\ local \in Statuses /\ work.rest # <<>>
  BY DEF Typed, RestInv, TypeOK, Works
<1>2. Tail(work.rest) \in Seq(Shared)
  BY <1>1
<1> QED
  BY <1>1, <1>2, ReleaseFromType DEF Proceed

LEMMA DropType ==
  ASSUME Typed, pc \in Releasing,
         NEW s \in Statuses, NEW items \in Seq(Items), Drop(s, items)
  PROVE  PassTyped
<1> DEFINE w == [work EXCEPT !.drops = items]
<1>1. w \in Works /\ w.rest = work.rest /\ work.rest # <<>>
  BY DEF Typed, RestInv, TypeOK, Works
<1>2. Continue("drop", s, w)
  BY DEF Drop
<1> HIDE DEF w
<1> QED
  BY <1>1, <1>2, ContinueType DEF Steps

LEMMA ReleaseType ==
  ASSUME Typed, NEW s \in Shared, Release(s)
  PROVE  Typed'
<1>1. s \in Components /\ work \in Works /\ local \in Statuses
      /\ fate \in [Components -> Fates] /\ pc = "release" /\ pc \in Releasing
  BY SharedType DEF Release, Releasing, Typed, TypeOK, Fates
<1>2. work.rest # <<>>
  BY <1>1 DEF Typed, RestInv
<1>3. PassTyped
  <2>1. <<"provision">> \o BothSecrets \in Seq(Items)
    BY DEF BothSecrets, Items
  <2>2. \/ Proceed \/ Conclude(local) \/ Continue("deprovision", local, work)
        \/ Drop(local, <<"provision">> \o BothSecrets)
    BY DEF Release
  <2> QED
    BY <1>1, <1>2, <2>1, <2>2, ProceedType, ConcludeType, DropType, ContinueType DEF Steps
<1>4. fate' \in [Components -> Fates]
  <2>1. \/ fate' = fate \/ Become(s, "removed") \/ Become(s, "skipped")
        \/ Become(s, "leaving")
    BY DEF Release
  <2> QED
    BY <1>1, <2>1, BecomeType DEF Fates
<1>5. credentials' \subseteq Shared /\ raced' \subseteq Components
  BY <1>1 DEF Release, Equipped, Typed, TypeOK
<1>6. UNCHANGED <<untouched, jobs, binding, failures>>
  BY DEF Release
<1> QED
  BY <1>3, <1>4, <1>5, <1>6 DEF PassTyped, Typed, RestInv, TypeOK, untouched, others, jobs,
     effects, Steps, Fates

LEMMA DeprovisionType ==
  ASSUME Typed, NEW s \in Shared, Deprovision(s)
  PROVE  Typed'
<1>1. s \in Components /\ work \in Works /\ local \in Statuses
      /\ fate \in [Components -> Fates] /\ pc \in Releasing
  BY SharedType DEF Deprovision, Releasing, Typed, TypeOK, Fates
<1>2. work.rest # <<>>
  BY <1>1 DEF Typed, RestInv
<1>3. PassTyped
  <2>1. <<"provision", "deprovision">> \o BothSecrets \in Seq(Items)
        /\ BothSecrets \in Seq(Items)
    BY DEF BothSecrets, Items
  <2>2. Charged(s) \in Statuses
    BY <1>1, ChargedType
  <2>3. \/ Conclude(local) \/ Continue("resubmit", local, work)
        \/ Continue("resubmit", Charged(s), work)
        \/ Drop(local, <<"provision", "deprovision">> \o BothSecrets)
        \/ Drop(Charged(s), BothSecrets)
    BY DEF Deprovision
  <2> QED
    BY <1>1, <1>2, <2>1, <2>2, <2>3, ConcludeType, DropType, ContinueType DEF Steps
<1>4. fate' \in [Components -> Fates]
  <2>1. fate' = fate \/ Become(s, "abandoned")
    BY DEF Deprovision
  <2> QED
    BY <1>1, <2>1, BecomeType DEF Fates
<1>5. UNCHANGED <<untouched, jobs, secrets, raced, failures>>
  BY DEF Deprovision
<1> QED
  BY <1>3, <1>4, <1>5 DEF PassTyped, Typed, RestInv, TypeOK, untouched, others, jobs,
     effects, secrets, Steps, Fates

LEMMA ResubmitType ==
  ASSUME Typed, NEW s \in Shared, Resubmit(s)
  PROVE  Typed'
<1>1. s \in Components /\ local \in Statuses /\ fate \in [Components -> Fates]
      /\ job \in [Components -> Jobs]
  BY SharedType DEF Typed, TypeOK, Fates
<1>2. PassTyped
  BY <1>1, ConcludeType DEF Resubmit
<1>3. job' \in [Components -> Jobs] /\ fate' \in [Components -> Fates]
  BY <1>1, SubmitJobType DEF Resubmit
<1>4. UNCHANGED <<untouched, provision, secrets, raced, failures>>
  BY DEF Resubmit
<1> QED
  BY <1>2, <1>3, <1>4 DEF PassTyped, Typed, RestInv, TypeOK, untouched, others,
     effects, secrets, Steps, Fates

LEMMA DropNextType ==
  ASSUME Typed, NEW s \in Shared, DropNext(s)
  PROVE  Typed'
<1>1. s \in Components /\ work \in Works /\ local \in Statuses
      /\ fate \in [Components -> Fates] /\ pc \in Releasing
      /\ job \in [Components -> Jobs] /\ provision \in [Shared -> States]
  BY SharedType DEF DropNext, Releasing, Typed, TypeOK, Fates
<1>2. PassTyped
  <2>1. CASE Conclude(local) \/ Proceed
    BY <1>1, <2>1, ConcludeType, ProceedType
  <2>2. CASE Len(work.drops) > 1 /\ Drop(local, Tail(work.drops))
    <3>1. work.drops \in Seq(Items) /\ work.drops # <<>>
      BY <1>1, <2>2 DEF Works
    <3>2. Tail(work.drops) \in Seq(Items)
      BY <3>1
    <3> QED
      BY <1>1, <2>2, <3>2, DropType
  <2> QED
    BY <2>1, <2>2 DEF DropNext
<1>3. fate' \in [Components -> Fates]
  <2>1. fate' = fate \/ Become(s, "removed")
    BY DEF DropNext
  <2> QED
    BY <1>1, <2>1, BecomeType DEF Fates
<1>4. provision' \in [Shared -> States]
  <2>1. DeletedState(provision[s]) \in States
    BY <1>1 DEF DeletedState, States
  <2> QED
    BY <1>1, <2>1 DEF DropNext
<1>5. job' \in [Components -> Jobs]
  <2> DEFINE gone == [job[s] EXCEPT !.state = "deleting", !.seen = FALSE]
  <2>1. gone \in Jobs
    BY <1>1 DEF Jobs, States
  <2>2. job' = job \/ job' = [job EXCEPT ![s] = gone]
    BY DEF DropNext
  <2> HIDE DEF gone
  <2> QED
    BY <1>1, <2>1, <2>2
<1>6. credentials' \subseteq Shared /\ binding' \subseteq Shared
  BY DEF DropNext, Typed, TypeOK
<1>7. UNCHANGED <<untouched, raced, failures>>
  BY DEF DropNext
<1> QED
  BY <1>2, <1>3, <1>4, <1>5, <1>6, <1>7 DEF PassTyped, Typed, RestInv, TypeOK, untouched,
     others, effects, Steps, Fates

\* The ends of a pass.
LEMMA EndType ==
  ASSUME Typed, StepFails \/ Patch \/ Abort
  PROVE  Typed'
<1>1. local \in Statuses /\ read \in Statuses /\ status \in Statuses
      /\ failures \in 0..MaxFailures
  BY DEF Typed, TypeOK
<1>2. EndPass => PassTyped /\ read' \in Statuses
  BY NoWorkType, NoStatusType DEF EndPass, Continue, PassTyped, Steps, Releasing
<1>3. CASE StepFails
  <2>1. PassTyped /\ failures' \in 0..MaxFailures
    BY <1>1, <1>3, ConcludeType, FailType DEF StepFails
  <2> QED
    BY <1>3, <2>1 DEF StepFails, PassTyped, Typed, RestInv, TypeOK, untouched, others, jobs,
       effects, secrets, history, Steps
<1>4. CASE Patch
  <2>1. status' \in Statuses
    BY <1>1, <1>4, MergedType DEF Patch
  <2> QED
    BY <1>2, <1>4, <2>1 DEF Patch, PassTyped, Typed, RestInv, TypeOK, others, jobs,
       effects, secrets, history, Steps
<1>5. CASE Abort
  <2>1. failures' \in 0..MaxFailures
    BY <1>1, <1>5, FailType DEF Abort
  <2> QED
    BY <1>2, <1>5, <2>1 DEF Abort, PassTyped, Typed, RestInv, TypeOK, others, jobs,
       effects, secrets, history, Steps
<1> QED
  BY <1>3, <1>4, <1>5

\* Everybody else.
Others ==
    \/ TemplateDelete \/ SyncEnv \/ SyncBindings
    \/ \E s \in Shared : ProviderDelete(s) \/ ProvisionGone(s)
    \/ \E c \in Components : SyncJob(c) \/ JobGone(c)
    \/ \E c \in Components, state \in Ended : FinishJob(c, state)
    \/ \E s \in Shared, state \in Ended : FinishProvision(s, state)
    \/ \E c \in Plain : FinishDeploy(c)

LEMMA OthersType ==
  ASSUME Typed, Others
  PROVE  Typed'
<1> USE DEF operator, passVars, others, jobs, effects, secrets
<1>1. failures \in 0..MaxFailures /\ job \in [Components -> Jobs]
      /\ provision \in [Shared -> States]
  BY DEF Typed, TypeOK
<1>2. CASE TemplateDelete
  BY <1>1, <1>2, FailType DEF TemplateDelete, Typed, RestInv, TypeOK
<1>3. CASE SyncEnv \/ SyncBindings
  BY <1>3 DEF SyncEnv, SyncBindings, Typed, RestInv, TypeOK
<1>4. CASE \E s \in Shared : ProviderDelete(s)
  BY <1>1, <1>4, FailType DEF ProviderDelete, Typed, RestInv, TypeOK
<1>5. CASE \E s \in Shared : ProvisionGone(s)
  <2>1. provision' \in [Shared -> States]
    BY <1>1, <1>5 DEF ProvisionGone, States
  <2> QED
    BY <1>5, <2>1 DEF ProvisionGone, Typed, RestInv, TypeOK
<1>6. ASSUME NEW c \in Components, SyncJob(c) \/ JobGone(c)
      PROVE  Typed'
  <2> DEFINE shownJob == [job[c] EXCEPT !.seen = TRUE]
             noJob == [NoJob EXCEPT !.seen = FALSE]
  <2>1. shownJob \in Jobs
    BY <1>1 DEF Jobs
  <2>2. noJob \in Jobs
    <3>1. NoJob \in Jobs
      BY Bounds DEF NoJob, Jobs, States
    <3> HIDE DEF NoJob
    <3> QED
      BY <3>1 DEF Jobs
  <2>3. job' \in [Components -> Jobs]
    <3>1. job' = [job EXCEPT ![c] = shownJob] \/ job' = [job EXCEPT ![c] = noJob]
      BY <1>6 DEF SyncJob, JobGone
    <3> HIDE DEF shownJob, noJob
    <3> QED
      BY <1>1, <2>1, <2>2, <3>1
  <2> QED
    BY <1>6, <2>3 DEF SyncJob, JobGone, Typed, RestInv, TypeOK
<1>7. ASSUME NEW c \in Components, NEW state \in Ended, FinishJob(c, state)
      PROVE  Typed'
  <2> DEFINE ended == [job[c] EXCEPT !.state = state, !.seen = FALSE]
  <2>1. ended \in Jobs
    BY <1>1 DEF Ended, Jobs, States
  <2>2. job' \in [Components -> Jobs]
    <3>1. job' = [job EXCEPT ![c] = ended]
      BY <1>7 DEF FinishJob
    <3> HIDE DEF ended
    <3> QED
      BY <1>1, <2>1, <3>1
  <2>3. installed' \subseteq Plain /\ allocated' \subseteq Shared /\ raced' \subseteq Components
    BY <1>7 DEF FinishJob, Typed, TypeOK
  <2> QED
    BY <1>7, <2>2, <2>3 DEF FinishJob, Typed, RestInv, TypeOK
<1>8. ASSUME NEW s \in Shared, NEW state \in Ended, FinishProvision(s, state)
      PROVE  Typed'
  <2>1. provision' \in [Shared -> States] /\ allocated' \subseteq Shared
    BY <1>1, <1>8 DEF FinishProvision, Ended, States, Typed, TypeOK
  <2> QED
    BY <1>8, <2>1 DEF FinishProvision, Typed, RestInv, TypeOK
<1>9. ASSUME NEW c \in Plain, FinishDeploy(c)
      PROVE  Typed'
  <2>1. installed' \subseteq Plain /\ deploying' \subseteq Plain
    BY <1>9 DEF FinishDeploy, Typed, TypeOK
  <2> QED
    BY <1>9, <2>1 DEF FinishDeploy, Typed, RestInv, TypeOK
<1> QED
  BY <1>2, <1>3, <1>4, <1>5, <1>6, <1>7, <1>8, <1>9 DEF Others

\* The steps, grouped as the proofs take them.
LEMMA NextCases ==
  ASSUME Next
  PROVE  \/ Begin \/ StepFails \/ Patch \/ Abort \/ Others
         \/ \E c \in Plain : Observe(c) \/ Submit(c)
         \/ \E s \in Shared : Release(s) \/ Deprovision(s) \/ Resubmit(s) \/ DropNext(s)
  BY DEF Next, Pass, Sync, Finish, Others

LEMMA StutterType == Typed /\ UNCHANGED vars => Typed'
  BY DEF Typed, RestInv, TypeOK, vars, others, passVars, jobs, effects, secrets, history

LEMMA TypedInvariant == Spec => []Typed
<1>1. Init => Typed
  BY InitType DEF Init, Typed, RestInv, Releasing
<1>2. Typed /\ [Next]_vars => Typed'
  <2> SUFFICES ASSUME Typed, [Next]_vars PROVE Typed'
    OBVIOUS
  <2>1. CASE Next
    BY <2>1, NextCases, BeginType, ObserveType, SubmitType, ReleaseType, DeprovisionType,
       ResubmitType, DropNextType, EndType, OthersType
  <2> QED
    BY <2>1, StutterType
<1> QED
  BY <1>1, <1>2, PTL DEF Spec

\* The types hold for any template and any number of retries and failures.
THEOREM TypeCorrect == Spec => []TypeOK
<1>1. Typed => TypeOK
  BY DEF Typed
<1> QED
  BY <1>1, TypedInvariant, PTL


-----------------------------------------------------------------------------
\* Why the order is kept: what the pass has put behind it is gone, whichever
\* copy of the status, however old, it was skipped for.

Gone(c) == fate[c] \notin {"up", "leaving"}

AllGone == \A c \in Components : Gone(c)

\* What a copy of the status gives up is gone.
GivenUpGone(s) == \A c \in Plain : GivenUp(s.comps[c]) => Gone(c)

LevelSet(l) == {c \in Plain : Level[c] = l}

GoneAbove(l) == \A c \in Plain : Level[c] > l => Gone(c)

\* In the middle of a level: those not in todo are gone, or awaited.
LevelBegun ==
    /\ GoneAbove(work.level)
    /\ work.todo \subseteq LevelSet(work.level)
    /\ work.need \subseteq LevelSet(work.level)
    /\ pc = "observe" =>
          /\ work.need # {} => work.waiting
          /\ \A c \in LevelSet(work.level) \ work.todo : Gone(c) \/ work.waiting

Among(s, rest) == \E i \in DOMAIN rest : rest[i] = s

\* Between two shared components: those not in rest are gone.
ReleaseBegun ==
    /\ \A c \in Plain : Gone(c)
    /\ \A s \in Shared : Gone(s) \/ Among(s, work.rest)

Finished == AllGone \/ ~template

Course ==
    /\ GivenUpGone(local)
    /\ pc \in {"observe", "submit"} => LevelBegun
    /\ pc \in Releasing => ReleaseBegun
    /\ pc \notin {"idle", "patch"} => ~local.complete /\ template
    /\ pc = "patch" /\ local.complete => Finished

Persisted ==
    /\ GivenUpGone(status) /\ GivenUpGone(cache)
    /\ status.complete => Finished
    /\ pc # "idle" => ~read.complete

OrderInv == Course /\ Persisted

-----------------------------------------------------------------------------
\* Where a pass goes next.

LEMMA PlainOrShared ==
  /\ Plain \subseteq Components
  /\ \A c \in Components : c \in Plain \/ c \in Shared
  BY DEF Plain

LEMMA ConcludeCourse ==
  ASSUME NEW s, \A c \in Plain : GivenUp(s.comps[c]) => Gone(c)',
         s.complete => Finished', Conclude(s)
  PROVE  Course'
  BY DEF Conclude, Continue, Course, GivenUpGone, Releasing

LEMMA ReleaseFromCourse ==
  ASSUME NEW rest \in Seq(Shared), NEW s \in Statuses,
         \A c \in Plain : GivenUp(s.comps[c]) => Gone(c)',
         \A c \in Plain : Gone(c)',
         \A x \in Shared : Gone(x)' \/ Among(x, rest),
         ~s.complete, template', ReleaseFrom(rest, s)
  PROVE  Course'
<1>1. CASE rest = <<>>
  <2>1. AllGone'
    BY <1>1, PlainOrShared DEF Among, AllGone
  <2> DEFINE t == [s EXCEPT !.complete = TRUE]
  <2>2. t.comps = s.comps
    BY DEF Statuses
  <2>3. Conclude(t)
    BY <1>1 DEF ReleaseFrom
  <2> HIDE DEF t
  <2> QED
    BY <2>1, <2>2, <2>3, ConcludeCourse DEF Finished
<1>2. CASE rest # <<>>
  <2> DEFINE w == [NoWork EXCEPT !.rest = rest]
  <2>1. w.rest = rest
    BY NoWorkType DEF Works
  <2>2. Continue("release", s, w)
    BY <1>2 DEF ReleaseFrom
  <2> HIDE DEF w
  <2>3. pc' = "release" /\ local' = s /\ work'.rest = rest
    BY <2>1, <2>2 DEF Continue
  <2> QED
    BY <2>3 DEF Course, GivenUpGone, ReleaseBegun
<1> QED
  BY <1>1, <1>2

LEMMA StartLevelCourse ==
  ASSUME NEW l \in Nat, NEW s \in Statuses,
         \A c \in Plain : GivenUp(s.comps[c]) => Gone(c)',
         \A c \in Plain : Level[c] > l => Gone(c)',
         ~s.complete, template', StartLevel(l, s)
  PROVE  Course'
<1>1. CASE l = 0
  <2>1. \A c \in Plain : Gone(c)'
    BY <1>1, LevelType, PlainOrShared
  <2>2. \A x \in Shared : Among(x, Order)
    BY OrderComplete DEF Among
  <2>3. ReleaseFrom(Order, s)
    BY <1>1 DEF StartLevel
  <2> QED
    BY <2>1, <2>2, <2>3, OrderType, ReleaseFromCourse
<1>2. CASE l # 0
  <2> DEFINE w == [NoWork EXCEPT !.level = l, !.todo = Undeployed(l, s)]
  <2>1. Continue("observe", s, w)
    BY <1>2 DEF StartLevel
  <2>2. w.level = l /\ w.todo = Undeployed(l, s) /\ w.need = {} /\ w.waiting = FALSE
    BY DEF NoWork
  <2> HIDE DEF w
  <2>3. /\ pc' = "observe" /\ local' = s /\ work'.level = l
        /\ work'.todo = Undeployed(l, s) /\ work'.need = {}
    BY <2>1, <2>2 DEF Continue
  <2>4. \A c \in LevelSet(l) \ Undeployed(l, s) : Gone(c)'
    BY DEF LevelSet, Undeployed
  <2>5. Undeployed(l, s) \subseteq LevelSet(l)
    BY DEF LevelSet, Undeployed
  <2>6. LevelBegun'
    BY <2>3, <2>4, <2>5 DEF LevelBegun, GoneAbove, LevelSet
  <2> QED
    BY <2>3, <2>6 DEF Course, GivenUpGone, Releasing
<1> QED
  BY <1>1, <1>2

\* What was skipped on the way down to a level is gone.
LEMMA SkippedGone ==
  ASSUME NEW l \in Int, NEW s, \A c \in Plain : GivenUp(s.comps[c]) => Gone(c)',
         \A c \in Plain : Level[c] > l => Gone(c)'
  PROVE  \A c \in Plain : Level[c] > Downwards(l, s) => Gone(c)'
<1> SUFFICES ASSUME NEW c \in Plain, Level[c] > Downwards(l, s), ~(Level[c] > l)
             PROVE  Gone(c)'
  OBVIOUS
<1>1. Level[c] \in 1..l
  BY LevelType, PlainOrShared
<1>2. Undeployed(Level[c], s) = {}
  BY <1>1, DownwardsType
<1> QED
  BY <1>2 DEF Undeployed

LEMMA LevelObservedCourse ==
  ASSUME NEW s \in Statuses, NEW w \in Works,
         \A c \in Plain : GivenUp(s.comps[c]) => Gone(c)',
         \A c \in Plain : Level[c] > w.level => Gone(c)',
         w.need \subseteq LevelSet(w.level), w.need # {} => w.waiting,
         \A c \in LevelSet(w.level) : Gone(c)' \/ w.waiting,
         ~s.complete, template', LevelObserved(s, w)
  PROVE  Course'
<1>1. CASE w.need # {}
  <2> DEFINE v == [w EXCEPT !.todo = w.need, !.need = {}]
  <2>1. v.level = w.level /\ v.todo = w.need /\ v.need = {}
    BY DEF Works
  <2>2. Continue("submit", s, v)
    BY <1>1 DEF LevelObserved
  <2> HIDE DEF v
  <2>3. /\ pc' = "submit" /\ local' = s /\ work'.level = w.level
        /\ work'.todo = w.need /\ work'.need = {}
    BY <2>1, <2>2 DEF Continue
  <2>4. LevelBegun'
    BY <2>3 DEF LevelBegun, GoneAbove, LevelSet
  <2> QED
    BY <2>3, <2>4 DEF Course, GivenUpGone, Releasing
<1>2. CASE w.need = {} /\ w.waiting
  BY <1>2, ConcludeCourse DEF LevelObserved
<1>3. CASE w.need = {} /\ ~w.waiting
  <2> DEFINE l == w.level - 1
  <2>1. l \in Int /\ w.level \in Nat
    BY DEF Works
  <2>2. \A c \in Plain : Level[c] > l => Gone(c)'
    <3> SUFFICES ASSUME NEW c \in Plain, Level[c] > l PROVE Gone(c)'
      OBVIOUS
    <3>1. Level[c] \in Nat
      BY LevelType, PlainOrShared
    <3>2. Level[c] > w.level \/ Level[c] = w.level
      BY <2>1, <3>1
    <3> QED
      BY <1>3, <3>2 DEF LevelSet
  <2>3. Downwards(l, s) \in Nat
    BY <2>1, DownwardsType
  <2>4. StartLevel(Downwards(l, s), s)
    BY <1>3 DEF LevelObserved
  <2> HIDE DEF l
  <2>5. \A c \in Plain : Level[c] > Downwards(l, s) => Gone(c)'
    BY <2>1, <2>2, SkippedGone
  <2> QED
    BY <2>3, <2>4, <2>5, StartLevelCourse
<1> QED
  BY <1>1, <1>2, <1>3

-----------------------------------------------------------------------------
\* What is gone stays gone.

FateKept == \A c \in Components : Gone(c) => Gone(c)'

LEMMA BecomeGone ==
  ASSUME fate \in [Components -> Fates], NEW c \in Components, NEW f, Become(c, f)
  PROVE  FateKept /\ (f \notin {"up", "leaving"} => Gone(c)')
  BY DEF Become, Gone, FateKept

LEMMA SameFate == ASSUME fate' = fate PROVE FateKept
  BY DEF FateKept, Gone

LEMMA PersistedKept ==
  ASSUME Persisted, FateKept, UNCHANGED <<status, cache, template, read>>, pc # "idle"
  PROVE  Persisted'
  BY PlainOrShared DEF Persisted, GivenUpGone, FateKept, Finished, AllGone

LEMMA GivenUpKept ==
  ASSUME Course, FateKept
  PROVE  \A c \in Plain : GivenUp(local.comps[c]) => Gone(c)'
  BY PlainOrShared DEF Course, GivenUpGone, FateKept

\* A step to anywhere that leaves the pass as it is.
LEMMA CourseKept ==
  ASSUME Course, FateKept, UNCHANGED <<pc, local, work, template>>
  PROVE  Course'
<1>1. GivenUpGone(local)'
  BY GivenUpKept DEF GivenUpGone
<1>2. LevelBegun => LevelBegun'
  <2> SUFFICES ASSUME LevelBegun PROVE LevelBegun'
    OBVIOUS
  <2>1. GoneAbove(work.level)'
    BY PlainOrShared DEF LevelBegun, GoneAbove, FateKept
  <2>2. LevelSet(work.level)' = LevelSet(work.level)
    BY DEF LevelSet
  <2>3. \A c \in LevelSet(work.level) : c \in Components
    BY PlainOrShared DEF LevelSet
  <2> QED
    BY <2>1, <2>2, <2>3 DEF LevelBegun, FateKept
<1>3. ReleaseBegun => ReleaseBegun'
  BY PlainOrShared, SharedType DEF ReleaseBegun, FateKept, Among
<1>4. Finished => Finished'
  BY DEF Finished, AllGone, FateKept
<1> QED
  BY <1>1, <1>2, <1>3, <1>4 DEF Course

LEMMA ChargedFacts ==
  ASSUME Typed, NEW c \in Components
  PROVE  /\ Charged(c).complete = local.complete
         /\ \A d \in Components \ {c} : Charged(c).comps[d] = local.comps[d]
         /\ GivenUp(Charged(c).comps[c]) => c \in Plain /\ Exhausted(c)
<1>1. local \in Statuses /\ local.comps[c].retries \in 0..MaxRetries
  BY DEF Typed, TypeOK, Statuses, Records
<1> DEFINE r == [retries |-> More(local.comps[c].retries), undeploy |-> c \in Plain]
<1>2. GivenUp(r) => c \in Plain /\ Exhausted(c)
  <2>1. r.retries = More(local.comps[c].retries) /\ (r.undeploy <=> c \in Plain)
    OBVIOUS
  <2>2. More(local.comps[c].retries) >= MaxRetries => Exhausted(c)
    BY <1>1, Bounds DEF More, Exhausted
  <2> HIDE DEF r
  <2> QED
    BY <2>1, <2>2 DEF GivenUp
<1>3. Charged(c) = [local EXCEPT !.comps = [local.comps EXCEPT ![c] = r]]
  BY DEF Charged
<1> HIDE DEF r
<1>4. /\ Charged(c).comps = [local.comps EXCEPT ![c] = r]
      /\ Charged(c).complete = local.complete
  BY <1>1, <1>3 DEF Statuses
<1>5. local.comps \in [Components -> Records]
  BY <1>1 DEF Statuses
<1> QED
  BY <1>2, <1>4, <1>5

-----------------------------------------------------------------------------
\* Undeploy.

LEMMA BeginOrder ==
  ASSUME Typed, OrderInv, Begin
  PROVE  OrderInv'
<1>1. cache \in Statuses /\ FateKept /\ ~read'.complete
  BY SameFate DEF Begin, history, Typed, TypeOK
<1>2. \A c \in Plain : GivenUp(cache.comps[c]) => Gone(c)'
  <2>1. GivenUpGone(cache)
    BY DEF OrderInv, Persisted
  <2> QED
    BY <1>1, <2>1, PlainOrShared DEF GivenUpGone, FateKept
<1>3. UNCHANGED <<status, cache, template, fate>>
  BY DEF Begin, others, history
<1>4. Persisted'
  <2>1. GivenUpGone(status)' /\ GivenUpGone(cache)'
    BY <1>3 DEF OrderInv, Persisted, GivenUpGone, Gone
  <2>2. status.complete' => Finished'
    BY <1>3 DEF OrderInv, Persisted, Finished, AllGone, Gone
  <2> QED
    BY <1>1, <2>1, <2>2 DEF Persisted
<1>5. CASE template
  <2>1. \A c \in Plain : Level[c] > Top => Gone(c)'
    BY TopType, LevelType, PlainOrShared
  <2>2. \A c \in Plain : Level[c] > Downwards(Top, cache) => Gone(c)'
    BY <1>2, <2>1, TopType, SkippedGone
  <2>3. Downwards(Top, cache) \in Nat
    BY TopType, DownwardsType
  <2>4. StartLevel(Downwards(Top, cache), cache) /\ ~cache.complete /\ template'
    BY <1>3, <1>5 DEF Begin
  <2>5. Course'
    BY <1>1, <1>2, <2>2, <2>3, <2>4, StartLevelCourse
  <2> QED
    BY <1>4, <2>5 DEF OrderInv
<1>6. CASE ~template
  <2> DEFINE t == [cache EXCEPT !.complete = TRUE]
  <2>1. t.comps = cache.comps
    BY <1>1 DEF Statuses
  <2>2. Conclude(t)
    BY <1>6 DEF Begin
  <2> HIDE DEF t
  <2>3. Course'
    BY <1>2, <1>3, <1>6, <2>1, <2>2, ConcludeCourse DEF Finished
  <2> QED
    BY <1>4, <2>3 DEF OrderInv
<1> QED
  BY <1>5, <1>6

\* One component fewer is before the pass in its level.
LEMMA GoOnCourse ==
  ASSUME pc = "observe", NEW s \in Statuses, NEW v \in Works,
         \A d \in Plain : GivenUp(s.comps[d]) => Gone(d)',
         \A d \in Plain : Level[d] > v.level => Gone(d)',
         v.todo \subseteq LevelSet(v.level), v.need \subseteq LevelSet(v.level),
         v.need # {} => v.waiting,
         \A d \in LevelSet(v.level) \ v.todo : Gone(d)' \/ v.waiting,
         ~s.complete, template',
         IF v.todo = {} THEN LevelObserved(s, v) ELSE Continue(pc, s, v)
  PROVE  Course'
<1>1. CASE v.todo = {}
  BY <1>1, LevelObservedCourse
<1>2. CASE v.todo # {}
  <2>1. pc' = "observe" /\ local' = s /\ work' = v
    BY <1>2 DEF Continue
  <2>2. LevelBegun'
    BY <2>1 DEF LevelBegun, GoneAbove, LevelSet
  <2> QED
    BY <2>1, <2>2 DEF Course, GivenUpGone, Releasing
<1> QED
  BY <1>1, <1>2

LEMMA ObserveOrder ==
  ASSUME Typed, OrderInv, NEW c \in Plain, Observe(c)
  PROVE  OrderInv' /\ FateKept
<1> DEFINE w == [work EXCEPT !.todo = @ \ {c}]
           awaited == [w EXCEPT !.waiting = TRUE]
           needed == [awaited EXCEPT !.need = @ \cup {c}]
           GoOn(s, v) == IF v.todo = {} THEN LevelObserved(s, v) ELSE Continue(pc, s, v)
<1>1. c \in Components /\ work \in Works /\ local \in Statuses /\ pc = "observe"
      /\ fate \in [Components -> Fates] /\ c \in work.todo /\ Charged(c) \in Statuses
  BY PlainOrShared, ChargedType DEF Observe, Typed, TypeOK, Fates
<1>2. /\ w \in Works /\ w.level = work.level /\ w.todo = work.todo \ {c}
      /\ w.need = work.need /\ w.waiting = work.waiting
  BY <1>1 DEF Works
<1>3. /\ awaited \in Works /\ awaited.level = work.level /\ awaited.todo = work.todo \ {c}
      /\ awaited.need = work.need /\ awaited.waiting
  <2> HIDE DEF w
  <2> QED
    BY <1>2 DEF Works
<1>4. /\ needed \in Works /\ needed.level = work.level /\ needed.todo = work.todo \ {c}
      /\ needed.need = work.need \cup {c} /\ needed.waiting
  <2> HIDE DEF awaited
  <2> QED
    BY <1>1, <1>3 DEF Works
<1>5. \/ GoOn(local, w) /\ Become(c, "removed")
      \/ GoOn(local, awaited) /\ UNCHANGED fate
      \/ GoOn(local, needed) /\ UNCHANGED fate
      \/ ~Exhausted(c) /\ GoOn(Charged(c), needed) /\ UNCHANGED fate
      \/ GoOn(Charged(c), w) /\ Become(c, "abandoned")
  BY DEF Observe
<1>6. UNCHANGED <<status, cache, template, read>>
  BY DEF Observe, untouched, others
<1> HIDE DEF w, awaited, needed
<1>7. FateKept
  BY <1>1, <1>5, BecomeGone, SameFate
<1>8. /\ \A d \in Plain : Level[d] > work.level => Gone(d)'
      /\ work.todo \subseteq LevelSet(work.level) /\ work.need \subseteq LevelSet(work.level)
      /\ work.need # {} => work.waiting
      /\ \A d \in LevelSet(work.level) \ work.todo : Gone(d)' \/ work.waiting
      /\ ~local.complete /\ template'
  BY <1>1, <1>6, <1>7, PlainOrShared DEF OrderInv, Course, LevelBegun, GoneAbove, LevelSet,
     FateKept
<1>9. \A d \in Plain : GivenUp(local.comps[d]) => Gone(d)'
  BY <1>7, GivenUpKept DEF OrderInv
<1>10. /\ ~Charged(c).complete
       /\ ~Exhausted(c) \/ Gone(c)'
             => \A d \in Plain : GivenUp(Charged(c).comps[d]) => Gone(d)'
  BY <1>1, <1>8, <1>9, PlainOrShared, ChargedFacts
<1>11. Course'
  <2>1. CASE GoOn(local, w) /\ Become(c, "removed")
    <3>1. Gone(c)'
      BY <1>1, <2>1, BecomeGone
    <3> QED
      BY <1>1, <1>2, <1>8, <1>9, <2>1, <3>1, GoOnCourse
  <2>2. CASE GoOn(local, awaited)
    BY <1>1, <1>3, <1>8, <1>9, <2>2, GoOnCourse
  <2>3. CASE GoOn(local, needed)
    BY <1>1, <1>4, <1>8, <1>9, <2>3, GoOnCourse
  <2>4. CASE ~Exhausted(c) /\ GoOn(Charged(c), needed)
    BY <1>1, <1>4, <1>8, <1>10, <2>4, GoOnCourse
  <2>5. CASE GoOn(Charged(c), w) /\ Become(c, "abandoned")
    <3>1. Gone(c)'
      BY <1>1, <2>5, BecomeGone
    <3> QED
      BY <1>1, <1>2, <1>8, <1>10, <2>5, <3>1, GoOnCourse
  <2> QED
    BY <1>5, <2>1, <2>2, <2>3, <2>4, <2>5
<1>12. Persisted'
  BY <1>1, <1>6, <1>7, PersistedKept DEF OrderInv
<1> QED
  BY <1>7, <1>11, <1>12 DEF OrderInv

LEMMA SubmitJobFate ==
  ASSUME Typed, NEW c \in Components, SubmitJob(c)
  PROVE  FateKept /\ (Become(c, "leaving") \/ fate' = fate)
<1>1. fate \in [Components -> Fates]
  BY DEF Typed, TypeOK, Fates
<1>2. Become(c, "leaving") \/ fate' = fate
  BY DEF SubmitJob
<1> QED
  BY <1>1, <1>2, BecomeGone, SameFate

LEMMA SubmitOrder ==
  ASSUME Typed, OrderInv, NEW c \in Plain, Submit(c)
  PROVE  OrderInv' /\ FateKept /\ (Become(c, "leaving") \/ fate' = fate)
<1>1. c \in Components /\ work \in Works /\ pc = "submit" /\ c \in work.todo
  BY PlainOrShared DEF Submit, Typed, TypeOK
<1>2. FateKept /\ (Become(c, "leaving") \/ fate' = fate)
  BY <1>1, SubmitJobFate, SameFate DEF Submit
<1>3. UNCHANGED <<status, cache, template, read>>
  BY DEF Submit, untouched, others
<1>4. \A d \in Plain : GivenUp(local.comps[d]) => Gone(d)'
  BY <1>2, GivenUpKept DEF OrderInv
<1>5. ~local.complete /\ template /\ LevelBegun
  BY <1>1 DEF OrderInv, Course
<1>6. CASE Conclude(local)
  BY <1>1, <1>2, <1>3, <1>4, <1>5, <1>6, ConcludeCourse, PersistedKept DEF OrderInv
<1>7. CASE Continue(pc, local, [work EXCEPT !.todo = @ \ {c}])
  <2> DEFINE w == [work EXCEPT !.todo = @ \ {c}]
  <2>1. w.level = work.level /\ w.todo = work.todo \ {c} /\ w.need = work.need
    BY <1>1 DEF Works
  <2> HIDE DEF w
  <2>2. /\ pc' = "submit" /\ local' = local /\ work'.level = work.level
        /\ work'.todo \subseteq work.todo /\ work'.need = work.need
    BY <1>1, <1>7, <2>1 DEF Continue, w
  <2>3. GoneAbove(work.level)'
    BY <1>2, <1>5, <2>2, PlainOrShared DEF LevelBegun, GoneAbove, FateKept
  <2>4. LevelBegun'
    BY <1>5, <2>2, <2>3 DEF LevelBegun, LevelSet
  <2>5. Course'
    BY <1>3, <1>4, <1>5, <2>2, <2>4 DEF Course, GivenUpGone, Releasing
  <2> QED
    BY <1>1, <1>2, <1>3, <2>5, PersistedKept DEF OrderInv
<1> QED
  BY <1>2, <1>6, <1>7 DEF Submit

-----------------------------------------------------------------------------
\* The shared components.

LEMMA AmongTail ==
  ASSUME NEW rest \in Seq(Shared), rest # <<>>, NEW x, Among(x, rest), x # Head(rest)
  PROVE  Among(x, Tail(rest))
<1>1. PICK i \in DOMAIN rest : rest[i] = x
  BY DEF Among
<1>2. i \in 1..Len(rest) /\ i # 1
  BY <1>1
<1>3. i - 1 \in DOMAIN Tail(rest) /\ Tail(rest)[i - 1] = x
  BY <1>1, <1>2
<1> QED
  BY <1>3 DEF Among

LEMMA ProceedCourse ==
  ASSUME Typed, Course, FateKept, pc \in Releasing, UNCHANGED template,
         NEW x \in Shared, x = This, Gone(x)', Proceed
  PROVE  Course'
<1>1. /\ work.rest \in Seq(Shared) /\ local \in Statuses /\ work.rest # <<>>
      /\ Tail(work.rest) \in Seq(Shared)
  BY DEF Typed, RestInv, TypeOK, Works
<1>2. ReleaseBegun /\ ~local.complete /\ template
  BY DEF Course, Releasing
<1>3. \A c \in Plain : Gone(c)'
  BY <1>2, PlainOrShared DEF ReleaseBegun, FateKept
<1>4. ASSUME NEW y \in Shared PROVE Gone(y)' \/ Among(y, Tail(work.rest))
  <2>1. CASE Gone(y)
    BY <2>1, SharedType DEF FateKept
  <2>2. CASE Among(y, work.rest) /\ y # x
    BY <1>1, <2>2, AmongTail DEF This
  <2> QED
    BY <1>2, <2>1, <2>2 DEF ReleaseBegun
<1>5. ReleaseFrom(Tail(work.rest), local)
  BY DEF Proceed
<1> QED
  BY <1>1, <1>2, <1>3, <1>4, <1>5, GivenUpKept, ReleaseFromCourse

\* The work on this shared component goes on, or the pass ends.
LEMMA ReleasingCourse ==
  ASSUME Typed, Course, FateKept, pc \in Releasing, UNCHANGED template,
         NEW s \in Statuses, s = local \/ \E x \in Shared : s = Charged(x),
         \/ Conclude(s)
         \/ \E p \in Releasing, w \in Works : w.rest = work.rest /\ Continue(p, s, w)
  PROVE  Course'
<1>1. ReleaseBegun /\ ~local.complete /\ template
  BY DEF Course, Releasing
<1>2. ~s.complete /\ \A c \in Plain : GivenUp(s.comps[c]) => Gone(c)'
  <2>1. CASE s = local
    BY <1>1, <2>1, GivenUpKept
  <2>2. ASSUME NEW x \in Shared, s = Charged(x)
        PROVE  ~s.complete /\ \A c \in Plain : GivenUp(s.comps[c]) => Gone(c)'
    <3>1. x \in Components /\ x \notin Plain
      BY SharedType DEF Plain
    <3> QED
      BY <1>1, <2>2, <3>1, GivenUpKept, ChargedFacts, PlainOrShared
  <2> QED
    BY <2>1, <2>2
<1>3. CASE Conclude(s)
  BY <1>2, <1>3, ConcludeCourse
<1>4. ASSUME NEW p \in Releasing, NEW w \in Works, w.rest = work.rest, Continue(p, s, w)
      PROVE  Course'
  <2>1. pc' = p /\ local' = s /\ work'.rest = work.rest
    BY <1>4 DEF Continue
  <2>2. ReleaseBegun'
    BY <1>1, <2>1, PlainOrShared, SharedType DEF ReleaseBegun, FateKept, Among
  <2> QED
    BY <1>1, <1>2, <2>1, <2>2 DEF Course, GivenUpGone, Releasing
<1> QED
  BY <1>3, <1>4

LEMMA DropWork ==
  ASSUME Typed, NEW s, NEW items \in Seq(Items), Drop(s, items)
  PROVE  \E p \in Releasing, w \in Works : w.rest = work.rest /\ Continue(p, s, w)
<1> DEFINE w == [work EXCEPT !.drops = items]
<1>1. w \in Works /\ w.rest = work.rest
  BY DEF Typed, TypeOK, Works
<1>2. Continue("drop", s, w)
  BY DEF Drop
<1> HIDE DEF w
<1> QED
  BY <1>1, <1>2 DEF Releasing

\* What the steps of a release have in common.
ReleaseStep(s) ==
    /\ FateKept
    /\ fate' = fate \/ \E f \in Fates \ {"up"} : Become(s, f)

LEMMA ReleaseOrder ==
  ASSUME Typed, OrderInv, NEW s \in Shared, Release(s)
  PROVE  OrderInv' /\ ReleaseStep(s)
<1>1. s \in Components /\ work \in Works /\ local \in Statuses /\ s = This
      /\ fate \in [Components -> Fates] /\ pc \in Releasing /\ pc # "idle"
  BY SharedType DEF Release, Releasing, Typed, TypeOK, Fates
<1>2. UNCHANGED <<status, cache, template, read>>
  BY DEF Release, untouched, others
<1>3. \/ fate' = fate \/ Become(s, "removed") \/ Become(s, "skipped")
      \/ Become(s, "leaving")
  BY DEF Release
<1>4. ReleaseStep(s)
  BY <1>1, <1>3, BecomeGone, SameFate DEF ReleaseStep, Fates
<1>5. Course'
  <2>1. \/ Proceed /\ (Become(s, "skipped") \/ Become(s, "removed"))
        \/ Conclude(local) \/ Continue("deprovision", local, work)
        \/ Drop(local, <<"provision">> \o BothSecrets)
    BY DEF Release
  <2>2. CASE Proceed /\ (Become(s, "skipped") \/ Become(s, "removed"))
    <3>1. Gone(s)'
      BY <1>1, <2>2, BecomeGone
    <3> QED
      BY <1>1, <1>2, <1>4, <2>2, <3>1, ProceedCourse DEF OrderInv, ReleaseStep
  <2>3. CASE Conclude(local) \/ Continue("deprovision", local, work)
    BY <1>1, <1>2, <1>4, <2>3, ReleasingCourse DEF OrderInv, ReleaseStep, Releasing
  <2>4. CASE Drop(local, <<"provision">> \o BothSecrets)
    <3>1. <<"provision">> \o BothSecrets \in Seq(Items)
      BY DEF BothSecrets, Items
    <3> QED
      BY <1>1, <1>2, <1>4, <2>4, <3>1, DropWork, ReleasingCourse DEF OrderInv, ReleaseStep
  <2> QED
    BY <2>1, <2>2, <2>3, <2>4
<1> QED
  BY <1>1, <1>2, <1>4, <1>5, PersistedKept DEF OrderInv, ReleaseStep

LEMMA DeprovisionOrder ==
  ASSUME Typed, OrderInv, NEW s \in Shared, Deprovision(s)
  PROVE  OrderInv' /\ ReleaseStep(s)
<1>1. s \in Components /\ work \in Works /\ local \in Statuses /\ s = This
      /\ fate \in [Components -> Fates] /\ pc \in Releasing /\ pc # "idle"
      /\ Charged(s) \in Statuses
  BY SharedType, ChargedType DEF Deprovision, Releasing, Typed, TypeOK, Fates
<1>2. UNCHANGED <<status, cache, template, read>>
  BY DEF Deprovision, untouched, others
<1>3. fate' = fate \/ Become(s, "abandoned")
  BY DEF Deprovision
<1>4. ReleaseStep(s)
  BY <1>1, <1>3, BecomeGone, SameFate DEF ReleaseStep, Fates
<1>5. Course'
  <2>1. \/ Conclude(local) \/ Continue("resubmit", local, work)
        \/ Continue("resubmit", Charged(s), work)
        \/ Drop(local, <<"provision", "deprovision">> \o BothSecrets)
        \/ Drop(Charged(s), BothSecrets)
    BY DEF Deprovision
  <2>2. CASE Conclude(local) \/ Continue("resubmit", local, work)
             \/ Continue("resubmit", Charged(s), work)
    BY <1>1, <1>2, <1>4, <2>2, ReleasingCourse DEF OrderInv, ReleaseStep, Releasing
  <2>3. CASE \/ Drop(local, <<"provision", "deprovision">> \o BothSecrets)
             \/ Drop(Charged(s), BothSecrets)
    <3>1. <<"provision", "deprovision">> \o BothSecrets \in Seq(Items)
          /\ BothSecrets \in Seq(Items)
      BY DEF BothSecrets, Items
    <3> QED
      BY <1>1, <1>2, <1>4, <2>3, <3>1, DropWork, ReleasingCourse DEF OrderInv, ReleaseStep
  <2> QED
    BY <2>1, <2>2, <2>3
<1> QED
  BY <1>1, <1>2, <1>4, <1>5, PersistedKept DEF OrderInv, ReleaseStep

LEMMA ResubmitOrder ==
  ASSUME Typed, OrderInv, NEW s \in Shared, Resubmit(s)
  PROVE  OrderInv' /\ ReleaseStep(s)
<1>1. s \in Components /\ local \in Statuses /\ pc \in Releasing /\ pc # "idle"
  BY SharedType DEF Resubmit, Releasing, Typed, TypeOK
<1>2. UNCHANGED <<status, cache, template, read>>
  BY DEF Resubmit, untouched, others
<1>3. ReleaseStep(s)
  BY <1>1, SubmitJobFate DEF Resubmit, ReleaseStep, Fates
<1>4. Course'
  BY <1>1, <1>2, <1>3, ReleasingCourse DEF Resubmit, OrderInv, ReleaseStep
<1> QED
  BY <1>1, <1>2, <1>3, <1>4, PersistedKept DEF OrderInv, ReleaseStep

LEMMA DropNextOrder ==
  ASSUME Typed, OrderInv, NEW s \in Shared, DropNext(s)
  PROVE  OrderInv' /\ ReleaseStep(s)
<1>1. s \in Components /\ work \in Works /\ local \in Statuses /\ s = This
      /\ fate \in [Components -> Fates] /\ pc \in Releasing /\ pc # "idle"
  BY SharedType DEF DropNext, Releasing, Typed, TypeOK, Fates
<1>2. UNCHANGED <<status, cache, template, read>>
  BY DEF DropNext, untouched, others
<1>3. fate' = fate \/ Become(s, "removed")
  BY DEF DropNext
<1>4. ReleaseStep(s)
  BY <1>1, <1>3, BecomeGone, SameFate DEF ReleaseStep, Fates
<1>5. Course'
  <2>1. \/ Conclude(local)
        \/ Len(work.drops) > 1 /\ Drop(local, Tail(work.drops))
        \/ Proceed /\ Become(s, "removed")
    BY DEF DropNext
  <2>2. CASE Conclude(local)
    BY <1>1, <1>2, <1>4, <2>2, ReleasingCourse DEF OrderInv, ReleaseStep
  <2>3. CASE Len(work.drops) > 1 /\ Drop(local, Tail(work.drops))
    <3>1. work.drops \in Seq(Items) /\ work.drops # <<>>
      BY <1>1, <2>3 DEF Works
    <3>2. Tail(work.drops) \in Seq(Items)
      BY <3>1
    <3> QED
      BY <1>1, <1>2, <1>4, <2>3, <3>2, DropWork, ReleasingCourse DEF OrderInv, ReleaseStep
  <2>4. CASE Proceed /\ Become(s, "removed")
    <3>1. Gone(s)'
      BY <1>1, <2>4, BecomeGone
    <3> QED
      BY <1>1, <1>2, <1>4, <2>4, <3>1, ProceedCourse DEF OrderInv, ReleaseStep
  <2> QED
    BY <2>1, <2>2, <2>3, <2>4
<1> QED
  BY <1>1, <1>2, <1>4, <1>5, PersistedKept DEF OrderInv, ReleaseStep

-----------------------------------------------------------------------------
\* The ends of a pass, and everybody else.

LEMMA EndPassCourse ==
  ASSUME EndPass
  PROVE  Course'
<1>1. \A c \in Plain : ~GivenUp(NoStatus.comps[c])
  BY PlainOrShared DEF NoStatus, GivenUp
<1>2. pc' = "idle" /\ local' = NoStatus
  BY DEF EndPass, Continue
<1> QED
  BY <1>1, <1>2 DEF Course, GivenUpGone, Releasing

\* A patch writes what the pass has decided, and the checkpoint only when there
\* is nothing left; it never takes the checkpoint back.
LEMMA PatchOrder ==
  ASSUME Typed, OrderInv, Patch
  PROVE  /\ OrderInv' /\ FateKept
         /\ UNCHANGED <<fate, template>>
         /\ status'.complete = status.complete \/ (~status.complete /\ status'.complete /\ Finished)
<1>1. /\ status \in Statuses /\ local \in Statuses /\ read \in Statuses
      /\ status.complete \in BOOLEAN /\ local.complete \in BOOLEAN
  BY DEF Typed, TypeOK, Statuses
<1>2. ~read.complete /\ (local.complete => Finished) /\ (status.complete => Finished)
  BY DEF Patch, OrderInv, Course, Persisted
<1>3. read.complete \in BOOLEAN
  BY <1>1 DEF Statuses
<1>4. UNCHANGED <<fate, template, cache>>
  BY DEF Patch, others, history
<1>5. FateKept
  BY <1>4, SameFate
<1>6. /\ status'.complete = status.complete \/ (status'.complete = local.complete /\ local.complete)
      /\ status'.comps = status.comps \/ status'.comps = local.comps
  <2>1. status' = status \/ status' = Merged
    BY DEF Patch
  <2>2. /\ Merged.complete = status.complete \/ (Merged.complete = local.complete /\ local.complete)
        /\ Merged.comps = status.comps \/ Merged.comps = local.comps
    <3>1. Merged.complete = IF local.complete = read.complete
                           THEN status.complete ELSE local.complete
      BY <1>1, MergedType
    <3>2. Merged.comps = IF local.comps = read.comps THEN status.comps ELSE local.comps
      BY <1>1, MergedType
    <3> QED
      BY <1>1, <1>2, <1>3, <3>1, <3>2
  <2>3. CASE status' = status
    BY <2>3
  <2>4. CASE status' = Merged
    BY <2>2, <2>4
  <2> QED
    BY <2>1, <2>3, <2>4
<1>7. Course'
  BY EndPassCourse DEF Patch
<1>8. Finished' = Finished
  BY <1>4 DEF Finished, AllGone, Gone
<1>9. GivenUpGone(status)' /\ GivenUpGone(cache)'
  BY <1>4, <1>6 DEF OrderInv, Course, Persisted, GivenUpGone, Gone
<1>10. pc' = "idle"
  BY DEF Patch, EndPass, Continue
<1>11. Persisted'
  BY <1>2, <1>6, <1>8, <1>9, <1>10 DEF Persisted
<1> QED
  BY <1>1, <1>2, <1>4, <1>5, <1>6, <1>7, <1>11 DEF OrderInv

LEMMA BreakOrder ==
  ASSUME Typed, OrderInv, StepFails \/ Abort
  PROVE  OrderInv' /\ UNCHANGED <<fate, template, status>>
<1>1. UNCHANGED <<fate, template, status, cache>>
  BY DEF StepFails, Abort, others, history, untouched
<1>2. FateKept
  BY <1>1, SameFate
<1>3. GivenUpGone(status)' /\ GivenUpGone(cache)' /\ (status'.complete => Finished')
  BY <1>1 DEF OrderInv, Persisted, GivenUpGone, Gone, Finished, AllGone
<1>4. CASE StepFails
  <2>1. pc # "idle" /\ ~local.complete /\ Conclude(local) /\ read' = read
    BY <1>4 DEF StepFails, OrderInv, Course, untouched
  <2>2. \A c \in Plain : GivenUp(local.comps[c]) => Gone(c)'
    BY <1>2, GivenUpKept DEF OrderInv
  <2>3. Course'
    BY <2>1, <2>2, ConcludeCourse
  <2>4. Persisted'
    BY <1>3, <2>1 DEF OrderInv, Persisted
  <2> QED
    BY <1>1, <2>3, <2>4 DEF OrderInv
<1>5. CASE Abort
  <2>1. EndPass /\ pc' = "idle"
    BY <1>5 DEF Abort, EndPass, Continue
  <2>2. Course' /\ Persisted'
    BY <1>3, <2>1, EndPassCourse DEF Persisted
  <2> QED
    BY <1>1, <2>2 DEF OrderInv
<1> QED
  BY <1>4, <1>5

LEMMA OthersOrder ==
  ASSUME Typed, OrderInv, Others
  PROVE  /\ OrderInv' /\ UNCHANGED <<fate, status>>
         /\ template' = template \/ (template /\ ~template')
<1>1. /\ UNCHANGED <<fate, status, pc, local, work, read>>
      /\ cache' = cache \/ cache' = status
      /\ template' = template \/ (template /\ ~template' /\ pc = "idle")
  BY DEF Others, TemplateDelete, SyncEnv, SyncBindings, ProviderDelete, ProvisionGone,
     SyncJob, JobGone, FinishJob, FinishProvision, FinishDeploy, operator, passVars, others
<1>2. FateKept
  BY <1>1, SameFate
<1>3. Course'
  <2>1. CASE template' = template
    BY <1>1, <1>2, <2>1, CourseKept DEF OrderInv
  <2>2. CASE pc = "idle"
    BY <1>1, <2>2 DEF OrderInv, Course, GivenUpGone, Gone, Releasing
  <2> QED
    BY <1>1, <2>1, <2>2
<1>4. Finished => Finished'
  BY <1>1 DEF Finished, AllGone, Gone
<1>5. GivenUpGone(status)' /\ GivenUpGone(cache)'
  BY <1>1 DEF OrderInv, Persisted, GivenUpGone, Gone
<1>6. Persisted'
  BY <1>1, <1>4, <1>5 DEF OrderInv, Persisted
<1> QED
  BY <1>1, <1>3, <1>6 DEF OrderInv

-----------------------------------------------------------------------------
\* The refinement.

Progress == [c \in Components |-> IF fate[c] \in {"up", "leaving"} THEN fate[c] ELSE "gone"]

UsersOf(c) == IF c \in Shared THEN Plain ELSE {d \in Plain : c \in DependsOn[d]}

LEMMA BecomeRefines ==
  ASSUME Typed, NEW c \in Components, NEW f \in Fates \ {"up"},
         status.complete => Gone(c), UNCHANGED <<template, status>>,
         \A d \in UsersOf(c) : d \in Components /\ Gone(d),
         fate' = fate \/ Become(c, f)
  PROVE  Ordered!Next \/ UNCHANGED Ordered!vars
<1>1. fate \in [Components -> Fates]
  BY DEF Typed, TypeOK, Fates
<1>2. CASE fate' = fate
  BY <1>2 DEF Ordered!vars
<1>3. CASE fate' # fate
  <2>1. ~Gone(c) /\ fate' = [fate EXCEPT ![c] = f] /\ fate[c] # f
    BY <1>1, <1>3 DEF Become, Gone
  <2>2. ~status.complete /\ ~status'.complete
    BY <2>1
  <2>3. \A d \in UsersOf(c) : Progress[d] = "gone"
    BY DEF Progress, Gone
  <2>4. CASE f = "leaving"
    <3>1. Progress[c] = "up" /\ Progress' = [Progress EXCEPT ![c] = "leaving"]
      BY <1>1, <2>1, <2>4 DEF Progress, Gone, Fates
    <3>2. Ordered!Leave(c)
      BY <2>2, <2>3, <3>1 DEF Ordered!Leave, Ordered!AllGone, Progress, UsersOf
    <3> QED
      BY <3>2 DEF Ordered!Next
  <2>5. CASE f # "leaving"
    <3>1. Progress[c] # "gone" /\ Progress' = [Progress EXCEPT ![c] = "gone"]
      BY <1>1, <2>1, <2>5 DEF Progress, Gone, Fates
    <3>2. Ordered!Go(c)
      BY <2>2, <2>3, <3>1 DEF Ordered!Go, Ordered!AllGone, Progress, UsersOf
    <3> QED
      BY <3>2 DEF Ordered!Next
  <2> QED
    BY <2>4, <2>5
<1> QED
  BY <1>2, <1>3

\* What uses a component of the level is deployed at a higher one.
LEMMA LevelUsers ==
  ASSUME OrderInv, pc \in {"observe", "submit"}, NEW c \in Plain, c \in work.todo
  PROVE  \A d \in UsersOf(c) : d \in Components /\ Gone(d)
<1>1. GoneAbove(work.level) /\ Level[c] = work.level
  BY DEF OrderInv, Course, LevelBegun, LevelSet
<1> SUFFICES ASSUME NEW d \in UsersOf(c) PROVE d \in Components /\ Gone(d)
  OBVIOUS
<1>2. d \in Plain /\ d \in Components /\ c \in DependsOn[d]
  BY PlainOrShared DEF UsersOf, Plain
<1>3. Level[c] < Level[d]
  BY <1>2, ConstantsAssumption
<1>4. Level[c] \in Nat /\ Level[d] \in Nat
  BY <1>2, LevelType, PlainOrShared
<1> QED
  BY <1>1, <1>2, <1>3, <1>4 DEF GoneAbove

LEMMA InitOrder == Init => OrderInv /\ Ordered!Init
<1> SUFFICES ASSUME Init PROVE OrderInv /\ Ordered!Init
  OBVIOUS
<1>1. /\ template = TRUE /\ pc = "idle" /\ local = NoStatus /\ cache = status
      /\ fate = [c \in Components |-> "up"]
  BY DEF Init
<1>2. status.complete = FALSE /\ \A c \in Plain : ~status.comps[c].undeploy
  <2>1. PICK done \in SUBSET Components, busy \in SUBSET Components :
           InitDeployment(done, busy)
    BY DEF Init
  <2>2. PICK spent \in 0..MaxRetries :
           status = [NoStatus EXCEPT !.comps = [c \in Components |->
             [retries |-> IF c \in busy THEN spent ELSE 0, undeploy |-> FALSE]]]
    BY <2>1 DEF InitDeployment
  <2> DEFINE cs == [c \in Components |->
             [retries |-> IF c \in busy THEN spent ELSE 0, undeploy |-> FALSE]]
  <2>3. \A c \in Components : ~cs[c].undeploy
    OBVIOUS
  <2>4. status = [NoStatus EXCEPT !.comps = cs]
    BY <2>2
  <2> HIDE DEF cs
  <2>5. status.comps = cs /\ status.complete = FALSE
    BY <2>4, NoStatusType DEF NoStatus, Statuses
  <2> QED
    BY <2>3, <2>5, PlainOrShared
<1>3. GivenUpGone(status) /\ GivenUpGone(cache) /\ GivenUpGone(local)
  <2>1. \A c \in Plain : ~NoStatus.comps[c].undeploy
    BY PlainOrShared DEF NoStatus
  <2> QED
    BY <1>1, <1>2, <2>1 DEF GivenUpGone, GivenUp
<1>4. OrderInv
  BY <1>1, <1>2, <1>3 DEF OrderInv, Course, Persisted, Releasing
<1>5. Ordered!Init
  BY <1>1, <1>2 DEF Ordered!Init
<1> QED
  BY <1>4, <1>5

LEMMA StepRefines ==
  ASSUME Typed, OrderInv, Next
  PROVE  OrderInv' /\ (Ordered!Next \/ UNCHANGED Ordered!vars)
<1>1. CASE Begin
  <2>1. UNCHANGED <<fate, template, status>>
    BY <1>1 DEF Begin, others, history
  <2> QED
    BY <1>1, <2>1, BeginOrder DEF Ordered!vars
<1>2. CASE Patch
  <2>1. CASE status'.complete = status.complete
    BY <1>2, <2>1, PatchOrder DEF Ordered!vars
  <2>2. CASE ~status.complete /\ status'.complete /\ Finished
    <3>1. status.complete = FALSE /\ status'.complete = TRUE
      <4>1. status \in Statuses /\ status' \in Statuses
        BY <1>2, EndType DEF Typed, TypeOK
      <4> QED
        BY <2>2, <4>1 DEF Statuses
    <3>2. (\A c \in Components : Progress[c] = "gone") \/ ~template
      BY <2>2 DEF Finished, AllGone, Gone, Progress
    <3>3. Ordered!Finish
      BY <1>2, <2>2, <3>1, <3>2, PatchOrder DEF Ordered!Finish, Ordered!AllGone, Progress
    <3> QED
      BY <1>2, <3>3, PatchOrder DEF Ordered!Next
  <2> QED
    BY <1>2, <2>1, <2>2, PatchOrder
<1>3. CASE StepFails \/ Abort
  BY <1>3, BreakOrder DEF Ordered!vars
<1>4. CASE Others
  <2>1. CASE template' = template
    BY <1>4, <2>1, OthersOrder DEF Ordered!vars
  <2>2. CASE template /\ ~template'
    <3>1. template' = FALSE
      BY <1>4, <2>2, OthersType DEF Typed, TypeOK
    <3>2. Ordered!Forget
      BY <1>4, <2>2, <3>1, OthersOrder DEF Ordered!Forget
    <3> QED
      BY <1>4, <3>2, OthersOrder DEF Ordered!Next
  <2> QED
    BY <1>4, <2>1, <2>2, OthersOrder
<1>5. ASSUME NEW c \in Plain, Observe(c) \/ Submit(c)
      PROVE  OrderInv' /\ (Ordered!Next \/ UNCHANGED Ordered!vars)
  <2>1. /\ c \in Components /\ c \in work.todo /\ pc \in {"observe", "submit"}
        /\ UNCHANGED <<template, status>>
    BY <1>5, PlainOrShared DEF Observe, Submit, untouched, others
  <2>2. OrderInv'
    BY <1>5, ObserveOrder, SubmitOrder
  <2>3. \E f \in Fates \ {"up"} : fate' = fate \/ Become(c, f)
    <3>1. \/ fate' = fate \/ Become(c, "leaving")
          \/ Become(c, "removed") \/ Become(c, "abandoned")
      BY <1>5, SubmitOrder DEF Observe
    <3> QED
      BY <3>1 DEF Fates
  <2>4. status.complete => Gone(c)
    BY <2>1 DEF OrderInv, Course, Persisted, Finished, AllGone
  <2> QED
    BY <2>1, <2>2, <2>3, <2>4, LevelUsers, BecomeRefines
<1>6. ASSUME NEW s \in Shared, Release(s) \/ Deprovision(s) \/ Resubmit(s) \/ DropNext(s)
      PROVE  OrderInv' /\ (Ordered!Next \/ UNCHANGED Ordered!vars)
  <2>1. s \in Components /\ pc \in Releasing /\ UNCHANGED <<template, status>>
    BY <1>6, SharedType DEF Release, Deprovision, Resubmit, DropNext, Releasing, untouched,
       others
  <2>2. OrderInv' /\ ReleaseStep(s)
    BY <1>6, ReleaseOrder, DeprovisionOrder, ResubmitOrder, DropNextOrder
  <2>3. \E f \in Fates \ {"up"} : fate' = fate \/ Become(s, f)
    BY <2>2 DEF ReleaseStep, Fates
  <2>4. status.complete => Gone(s)
    BY <2>1 DEF OrderInv, Course, Persisted, Finished, AllGone, Releasing
  <2>5. \A d \in UsersOf(s) : d \in Components /\ Gone(d)
    BY <2>1, PlainOrShared DEF UsersOf, OrderInv, Course, ReleaseBegun
  <2> QED
    BY <2>1, <2>2, <2>3, <2>4, <2>5, BecomeRefines
<1> QED
  BY <1>1, <1>2, <1>3, <1>4, <1>5, <1>6, NextCases

LEMMA StutterOrder ==
  ASSUME OrderInv, UNCHANGED vars
  PROVE  OrderInv' /\ UNCHANGED Ordered!vars
<1>1. UNCHANGED <<template, status, cache, pc, read, local, work, fate>>
  BY DEF vars, others, passVars, history
<1>2. FateKept
  BY <1>1, SameFate
<1>3. Course'
  BY <1>1, <1>2, CourseKept DEF OrderInv
<1>4. Persisted'
  BY <1>1 DEF OrderInv, Persisted, GivenUpGone, Gone, Finished, AllGone
<1> QED
  BY <1>1, <1>3, <1>4 DEF OrderInv, Ordered!vars

\* What the pass has put behind it is gone, whatever old copy of the status it
\* started from.
LEMMA OrderInvariant == Spec => [](Typed /\ OrderInv)
<1>1. Init => OrderInv
  BY InitOrder
<1>2. Typed /\ OrderInv /\ [Next]_vars => OrderInv'
  BY StepRefines, StutterOrder
<1> QED
  BY <1>1, <1>2, TypedInvariant, PTL DEF Spec

\* Components are undeployed after those that depend on them, allocations are
\* released after everything that may use them is undeployed, and the checkpoint
\* comes last: in every order of events, for any graph of components.
THEOREM TeardownOrdered == Spec => ImplementsTeardown
<1>1. Init => Ordered!Init
  BY InitOrder
<1>2. Typed /\ OrderInv /\ [Next]_vars => [Ordered!Next]_(Ordered!vars)
  BY StepRefines, StutterOrder
<1> QED
  BY <1>1, <1>2, OrderInvariant, PTL DEF Spec, ImplementsTeardown, Ordered!Spec

=============================================================================
