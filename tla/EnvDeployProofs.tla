-------------------------- MODULE EnvDeployProofs --------------------------
(***************************************************************************)
(* Proofs about EnvDeploy, for any graph of components, any number of      *)
(* retries, edits and failures: its types always, and its safety when no   *)
(* pass starts before the cache shows the patch of the one before it.      *)
(***************************************************************************)
EXTENDS EnvDeploy, TLAPS

-----------------------------------------------------------------------------
\* Types.  A component that has used up its retries has failed, and a failed
\* one is never before a pass: that keeps the count within its limit.

Phases == {"none", "Pending", "Submitting", "Deploying", "Ready", "Failed"}

Records == [phase : Phases, retries : 0..MaxRetries]

Steps == {"idle", "submit", "observe", "check", "patch"}

Counts(s) == \A c \in Components : s.comps[c].retries = MaxRetries => s.comps[c].phase = "Failed"

\* The phases a step of the pass has before it.
PhasesAt(p) ==
    IF p = "submit" THEN {"none", "Pending"}
    ELSE IF p = "observe" THEN {"Submitting"} ELSE {"Deploying"}

\* What is before the pass is as it was when it began.
Before(c) == local.comps[c] = Reset(read).comps[c]

TodoInv ==
    /\ pc \in {"submit", "observe", "check"} =>
          \A c \in todo : Before(c) /\ Reset(read).comps[c].phase \in PhasesAt(pc)
    /\ pc = "observe" =>
          /\ read.status.observed = read.edit
          /\ \A c \in Components : read.status.comps[c].phase # "Submitting" => Before(c)

CountInv ==
    /\ Counts(status) /\ Counts(cache.status) /\ Counts(read.status) /\ Counts(local)
    /\ TodoInv

Typed == TypeOK /\ CountInv

LEMMA Bounds ==
  MaxRetries \in Nat /\ MaxRetries > 1 /\ MaxEdits \in Nat /\ MaxFailures \in Nat
  BY ConstantsAssumption

LEMMA StatusType ==
  Statuses = [observed : -1..MaxEdits, phase : {"", "Deploying", "Ready", "Failed"},
              comps : [Components -> Records]]
  BY DEF Statuses, Records, Phases

LEMMA NoComponentsType ==
  /\ NoComponents \in [Components -> Records]
  /\ \A c \in Components : NoComponents[c].phase = "none" /\ NoComponents[c].retries = 0
  BY Bounds DEF NoComponents, Records, Phases

\* A status whose components are all at their beginning.
Fresh(o) == [observed |-> o, phase |-> "", comps |-> NoComponents]

LEMMA FreshStatus ==
  ASSUME NEW o \in -1..MaxEdits
  PROVE  /\ Fresh(o) \in Statuses /\ Counts(Fresh(o))
         /\ Fresh(o).observed = o /\ Fresh(o).phase = ""
         /\ \A c \in Components : Fresh(o).comps[c].phase = "none"
<1>1. Fresh(o).observed = o /\ Fresh(o).phase = "" /\ Fresh(o).comps = NoComponents
  BY DEF Fresh
<1>2. Fresh(o) \in Statuses
  <2>1. NoComponents \in [Components -> Records]
    BY NoComponentsType
  <2> QED
    BY <2>1, StatusType DEF Fresh
<1>3. \A c \in Components : Fresh(o).comps[c].phase = "none" /\ Fresh(o).comps[c].retries = 0
  BY <1>1, NoComponentsType
<1>4. Counts(Fresh(o))
  BY <1>3, Bounds DEF Counts
<1> QED
  BY <1>1, <1>2, <1>3, <1>4

LEMMA NewStatusType ==
  /\ NewStatus \in Statuses /\ Counts(NewStatus)
  /\ NewStatus.observed = Nothing /\ NewStatus.phase = ""
<1>1. -1 \in -1..MaxEdits
  BY Bounds
<1>2. NewStatus = Fresh(-1)
  BY DEF NewStatus, Nothing, Fresh
<1>3. Fresh(-1) \in Statuses /\ Counts(Fresh(-1)) /\ Fresh(-1).observed = -1 /\ Fresh(-1).phase = ""
  BY <1>1, FreshStatus
<1> QED
  BY <1>2, <1>3 DEF Nothing

LEMMA NoReadType == NoRead \in Copies /\ NoRead.status = NewStatus
<1>0. NewStatus \in Statuses
  BY NewStatusType
<1>1. 0 \in 0..MaxEdits
  BY Bounds
<1> QED
  BY <1>0, <1>1 DEF NoRead, Copies

LEMMA ContentType ==
  ASSUME NEW c, NEW e \in 0..MaxEdits
  PROVE  WantedContent(c, e) \in Contents
  BY DEF WantedContent, Contents

LEMMA NoJobType == NoJob \in Jobs
<1>1. 0 \in Contents /\ 0 \in 0..MaxRetries
  BY Bounds DEF Contents
<1> QED
  BY <1>1 DEF NoJob, Jobs

\* A component's record is replaced in a status.
Put(s, c, r) == [s EXCEPT !.comps = [s.comps EXCEPT ![c] = r]]

LEMMA PutFacts ==
  ASSUME NEW s \in Statuses, NEW c \in Components, NEW r \in Records
  PROVE  /\ Put(s, c, r) \in Statuses
         /\ Put(s, c, r).observed = s.observed /\ Put(s, c, r).phase = s.phase
         /\ Put(s, c, r).comps[c] = r
         /\ \A d \in Components : d # c => Put(s, c, r).comps[d] = s.comps[d]
<1> DEFINE cs == [s.comps EXCEPT ![c] = r]
<1>1. s.comps \in [Components -> Records]
  BY StatusType
<1>2. cs \in [Components -> Records] /\ cs[c] = r
      /\ \A d \in Components : d # c => cs[d] = s.comps[d]
  BY <1>1
<1>3. Put(s, c, r) = [s EXCEPT !.comps = cs]
  BY DEF Put
<1> HIDE DEF cs
<1> QED
  BY <1>2, <1>3, StatusType

LEMMA RecordFacts ==
  ASSUME NEW s \in Statuses, NEW c \in Components
  PROVE  /\ s.comps[c] \in Records /\ s.comps[c].retries \in 0..MaxRetries
         /\ s.comps[c].phase \in Phases
  BY StatusType DEF Records

LEMMA SetPhaseFacts ==
  ASSUME NEW s \in Statuses, NEW c \in Components, NEW p \in Phases
  PROVE  /\ SetPhase(s, c, p) \in Statuses
         /\ SetPhase(s, c, p).observed = s.observed /\ SetPhase(s, c, p).phase = s.phase
         /\ SetPhase(s, c, p).comps[c].phase = p
         /\ SetPhase(s, c, p).comps[c].retries = s.comps[c].retries
         /\ \A d \in Components : d # c => SetPhase(s, c, p).comps[d] = s.comps[d]
<1> DEFINE r == [s.comps[c] EXCEPT !.phase = p]
<1>1. r \in Records /\ r.phase = p /\ r.retries = s.comps[c].retries
  BY RecordFacts DEF Records
<1>2. SetPhase(s, c, p) = Put(s, c, r)
  BY DEF SetPhase, Put
<1> HIDE DEF r
<1> QED
  BY <1>1, <1>2, PutFacts

LEMMA SetReadyFacts ==
  ASSUME NEW s \in Statuses, NEW c \in Components
  PROVE  /\ SetReady(s, c) \in Statuses
         /\ SetReady(s, c).observed = s.observed /\ SetReady(s, c).phase = s.phase
         /\ SetReady(s, c).comps[c].phase = "Ready" /\ SetReady(s, c).comps[c].retries = 0
         /\ \A d \in Components : d # c => SetReady(s, c).comps[d] = s.comps[d]
<1> DEFINE r == [phase |-> "Ready", retries |-> 0]
<1>1. r \in Records /\ r.phase = "Ready" /\ r.retries = 0
  BY Bounds DEF Records, Phases
<1>2. SetReady(s, c) = Put(s, c, r)
  BY DEF SetReady, Put
<1> HIDE DEF r
<1> QED
  BY <1>1, <1>2, PutFacts

LEMMA ChargedFacts ==
  ASSUME local \in Statuses, Counts(local), NEW c \in Components,
         local.comps[c].phase # "Failed"
  PROVE  /\ Charged(c) \in Statuses /\ Counts(Charged(c))
         /\ Charged(c).observed = local.observed /\ Charged(c).phase = local.phase
         /\ Charged(c).comps[c].phase = IF Exhausted(c) THEN "Failed" ELSE "Pending"
         /\ \A d \in Components : d # c => Charged(c).comps[d] = local.comps[d]
<1>1. local.comps[c].retries \in 0..MaxRetries /\ local.comps[c].retries # MaxRetries
  BY RecordFacts DEF Counts
<1> DEFINE r == [phase |-> IF Exhausted(c) THEN "Failed" ELSE "Pending",
                 retries |-> Counted(local.comps[c].retries)]
<1>2. r.phase = IF Exhausted(c) THEN "Failed" ELSE "Pending"
  OBVIOUS
<1>3. r.retries = local.comps[c].retries + 1
  BY DEF Counted
<1>4. r \in Records
  BY <1>1, Bounds DEF Records, Phases, Counted
<1>5. r.retries = MaxRetries => r.phase = "Failed"
  BY <1>1, <1>3, Bounds DEF Exhausted
<1>6. Charged(c) = Put(local, c, r)
  BY DEF Charged, Put
<1> HIDE DEF r
<1>7. Counts(Charged(c))
  BY <1>4, <1>5, <1>6, PutFacts DEF Counts
<1> QED
  BY <1>2, <1>4, <1>6, <1>7, PutFacts

LEMMA PhaseFacts ==
  ASSUME NEW s \in Statuses, NEW p \in {"", "Deploying", "Ready", "Failed"}
  PROVE  /\ [s EXCEPT !.phase = p] \in Statuses
         /\ [s EXCEPT !.phase = p].observed = s.observed
         /\ [s EXCEPT !.phase = p].phase = p
         /\ [s EXCEPT !.phase = p].comps = s.comps
  BY StatusType

LEMMA GiveUpFacts ==
  ASSUME NEW s \in Statuses
  PROVE  /\ GiveUp(s) \in Statuses
         /\ GiveUp(s).observed = s.observed /\ GiveUp(s).phase = "Failed"
         /\ GiveUp(s).comps = s.comps
         /\ Counts(s) => Counts(GiveUp(s))
  BY PhaseFacts DEF GiveUp, Counts

LEMMA ResetFacts ==
  ASSUME NEW r \in Copies, Counts(r.status)
  PROVE  /\ Reset(r) \in Statuses /\ Counts(Reset(r)) /\ Reset(r).observed = r.edit
         /\ r.status.observed = r.edit => Reset(r) = r.status
         /\ r.status.observed # r.edit =>
               Reset(r).phase = "" /\ \A c \in Components : Reset(r).comps[c].phase = "none"
<1>1. r.edit \in 0..MaxEdits /\ r.status \in Statuses
  BY DEF Copies
<1>2. CASE r.status.observed = r.edit
  BY <1>1, <1>2 DEF Reset
<1>3. CASE r.status.observed # r.edit
  <2>1. Reset(r) = Fresh(r.edit)
    BY <1>3 DEF Reset, Fresh
  <2>2. r.edit \in -1..MaxEdits
    BY <1>1, Bounds
  <2>3. /\ Fresh(r.edit) \in Statuses /\ Counts(Fresh(r.edit))
        /\ Fresh(r.edit).observed = r.edit /\ Fresh(r.edit).phase = ""
        /\ \A c \in Components : Fresh(r.edit).comps[c].phase = "none"
    BY <2>2, FreshStatus
  <2> QED
    BY <1>3, <2>1, <2>3
<1> QED
  BY <1>2, <1>3

LEMMA MergedFacts ==
  ASSUME status \in Statuses, local \in Statuses, read \in Copies
  PROVE  /\ Merged \in Statuses
         /\ Merged.comps = status.comps \/ Merged.comps = local.comps
         /\ read.status = status => Merged = local
<1>1. DOMAIN status = {"observed", "phase", "comps"} /\ DOMAIN local = DOMAIN status
  BY StatusType
<1>2. Merged = [observed |-> IF local.observed = read.status.observed
                             THEN status.observed ELSE local.observed,
                phase    |-> IF local.phase = read.status.phase
                             THEN status.phase ELSE local.phase,
                comps    |-> IF local.comps = read.status.comps
                             THEN status.comps ELSE local.comps]
  BY <1>1 DEF Merged
<1>3. read.status = status => Merged = local
  BY <1>2, StatusType
<1> QED
  BY <1>2, <1>3, StatusType

\* What the pass keeps in its own variables is well typed.
PassType ==
    /\ pc \in Steps /\ local \in Statuses /\ todo \subseteq Components
    /\ Counts(local) /\ TodoInv

\* The pass handles a component and goes on.
LEMMA Handled ==
  ASSUME Typed, NEW c \in todo, pc \in {"submit", "observe", "check"},
         NEW s \in Statuses, Counts(s),
         \A d \in Components : d # c => s.comps[d] = local.comps[d],
         UNCHANGED read, Continue(pc, s, todo \ {c})
  PROVE  PassType'
<1>1. pc' = pc /\ local' = s /\ todo' = todo \ {c} /\ read' = read
  BY DEF Continue
<1>2. pc' \in Steps /\ local' \in Statuses /\ todo' \subseteq Components
  BY <1>1 DEF Typed, TypeOK, Steps
<1>3. Counts(local)'
  BY <1>1 DEF Counts
<1>4. TodoInv'
  <2>1. ASSUME NEW d \in todo', pc \in {"submit", "observe", "check"}
        PROVE  local'.comps[d] = Reset(read).comps[d]
               /\ Reset(read).comps[d].phase \in PhasesAt(pc)
    <3>1. d \in todo /\ d # c /\ d \in Components
      BY <1>1 DEF Typed, TypeOK
    <3> QED
      BY <1>1, <3>1 DEF Typed, CountInv, TodoInv, Before
  <2>2. ASSUME pc = "observe"
        PROVE  /\ read.status.observed = read.edit
               /\ \A d \in Components : read.status.comps[d].phase # "Submitting" =>
                     local'.comps[d] = Reset(read).comps[d]
    <3>1. read.status.observed = read.edit /\ Reset(read) = read.status
      BY <2>2 DEF Typed, CountInv, TodoInv, Reset
    <3>2. Reset(read).comps[c].phase = "Submitting"
      BY <2>2 DEF Typed, CountInv, TodoInv, PhasesAt
    <3> QED
      BY <1>1, <2>2, <3>1, <3>2 DEF Typed, CountInv, TodoInv, Before
  <2> QED
    BY <1>1, <2>1, <2>2 DEF TodoInv, Before, PhasesAt, Reset
<1> QED
  BY <1>2, <1>3, <1>4 DEF PassType

\* The pass comes to its patch, or to its end.
LEMMA Concludes ==
  ASSUME NEW s \in Statuses, Counts(s), Continue("patch", s, {})
  PROVE  PassType'
  BY DEF Continue, PassType, Steps, TodoInv, Counts

LEMMA Leaves ==
  ASSUME EndPass
  PROVE  PassType' /\ read' = NoRead
<1>1. pc' = "idle" /\ local' = NewStatus /\ todo' = {} /\ read' = NoRead
  BY DEF EndPass
<1>2. NewStatus \in Statuses /\ Counts(NewStatus)
  BY NewStatusType
<1> QED
  BY <1>1, <1>2 DEF PassType, Steps, TodoInv, Counts

\* Nothing of the pass changes.
LEMMA PassKept ==
  ASSUME Typed, UNCHANGED passVars
  PROVE  PassType'
<1>1. pc' = pc /\ read' = read /\ local' = local /\ todo' = todo
  BY DEF passVars
<1>2. PassType
  BY DEF Typed, TypeOK, CountInv, PassType, Steps
<1> QED
  BY <1>1, <1>2 DEF PassType, TodoInv, Before, Reset, Counts

\* The rest of the state, when only the pass moves.
LEMMA Others ==
  ASSUME Typed, UNCHANGED <<edit, status, cache, installed>>, PassType',
         read' \in Copies, Counts(read'.status),
         job' \in [Components -> Jobs], failures' \in 0..MaxFailures
  PROVE  Typed'
  BY DEF Typed, TypeOK, CountInv, PassType, Steps, Counts

LEMMA Kept ==
  ASSUME Typed
  PROVE  /\ read \in Copies /\ Counts(read.status) /\ cache \in Copies /\ Counts(cache.status)
         /\ local \in Statuses /\ Counts(local) /\ todo \subseteq Components
         /\ job \in [Components -> Jobs] /\ failures \in 0..MaxFailures
         /\ read.edit \in 0..MaxEdits /\ read.status \in Statuses
  BY DEF Typed, TypeOK, CountInv, Copies

LEMMA FailType ==
  ASSUME Typed, Fail
  PROVE  failures' \in 0..MaxFailures
<1>1. failures \in 0..MaxFailures
  BY Kept
<1> QED
  BY <1>1, Bounds DEF Fail

\* The pass begins with step p, for components cs that are all in a phase of p.
LEMMA BeginsStep ==
  ASSUME Typed, Begin, NEW p \in {"submit", "observe", "check"}, NEW cs \in SUBSET Components,
         \A c \in cs : Reset(cache).comps[c].phase \in PhasesAt(p),
         p = "observe" => cs # {},
         Continue(p, [Reset(cache) EXCEPT !.phase = "Deploying"], cs)
  PROVE  PassType'
<1> DEFINE s == Reset(cache)
           d == [s EXCEPT !.phase = "Deploying"]
<1>1. read' = cache
  BY DEF Begin, Read
<1>2. s \in Statuses /\ Counts(s)
  BY Kept, ResetFacts
<1>3. d \in Statuses /\ d.comps = s.comps
  BY <1>2, PhaseFacts
<1>4. Counts(d)
  BY <1>2, <1>3 DEF Counts
<1>5. pc' = p /\ local' = d /\ todo' = cs
  BY DEF Continue
<1>6. ASSUME p = "observe"
      PROVE  cache.status.observed = cache.edit
  <2>1. PICK c \in cs : TRUE
    BY <1>6
  <2>2. s.comps[c].phase = "Submitting"
    BY <1>6, <2>1 DEF PhasesAt
  <2> QED
    BY <2>1, <2>2, Kept, ResetFacts
<1>7. TodoInv'
  <2> HIDE DEF s, d
  <2> QED
    BY <1>1, <1>3, <1>5, <1>6 DEF TodoInv, Before, PhasesAt, s
<1> HIDE DEF s, d
<1> QED
  BY <1>3, <1>4, <1>5, <1>7 DEF PassType, Steps, Counts

LEMMA InType ==
  ASSUME NEW s, NEW phases
  PROVE  /\ In(s, phases) \subseteq Components
         /\ \A c \in In(s, phases) : s.comps[c].phase \in phases
  BY DEF In, Frontier, Unready

LEMMA BeginTyped ==
  ASSUME Typed, Begin
  PROVE  Typed'
<1> DEFINE s == Reset(cache)
           d == [s EXCEPT !.phase = "Deploying"]
<1>1. s \in Statuses /\ Counts(s)
  BY Kept, ResetFacts
<1>2. PassType'
  <2>1. CASE Continue("patch", s, {})
    BY <1>1, <2>1, Concludes
  <2>2. CASE Continue("patch", [s EXCEPT !.phase = "Ready"], {})
    <3>1. [s EXCEPT !.phase = "Ready"] \in Statuses /\ [s EXCEPT !.phase = "Ready"].comps = s.comps
      BY <1>1, PhaseFacts
    <3>2. Counts([s EXCEPT !.phase = "Ready"])
      BY <1>1, <3>1 DEF Counts
    <3> QED
      BY <2>2, <3>1, <3>2, Concludes
  <2>3. CASE Continue("submit", d, In(s, {"none", "Pending"}))
    BY <2>3, InType, BeginsStep DEF PhasesAt
  <2>4. CASE In(s, {"Submitting"}) # {} /\ Continue("observe", d, In(s, {"Submitting"}))
    BY <2>4, InType, BeginsStep DEF PhasesAt
  <2>5. CASE Continue("check", d, In(s, {"Deploying"}))
    BY <2>5, InType, BeginsStep DEF PhasesAt
  <2> QED
    BY <2>1, <2>2, <2>3, <2>4, <2>5 DEF Begin
<1>3. read' = cache /\ UNCHANGED <<edit, status, cache, job, installed, failures>>
  BY DEF Begin, Read
<1> QED
  BY <1>2, <1>3, Kept, Others

LEMMA BeginFailsTyped ==
  ASSUME Typed, BeginFails
  PROVE  Typed'
<1> DEFINE s == Reset(cache)
<1>1. s \in Statuses /\ Counts(s) /\ GiveUp(s) \in Statuses /\ Counts(GiveUp(s))
  BY Kept, ResetFacts, GiveUpFacts
<1>2. PassType'
  BY <1>1, Concludes DEF BeginFails
<1>3. read' = cache /\ UNCHANGED <<edit, status, cache, job, installed>>
  BY DEF BeginFails, Read
<1>4. failures' \in 0..MaxFailures
  BY FailType DEF BeginFails
<1> QED
  BY <1>2, <1>3, <1>4, Kept, Others

LEMMA SubmitJobType ==
  ASSUME Typed, NEW c \in Components, SubmitJob(c)
  PROVE  job' \in [Components -> Jobs]
<1>1. WantedContent(c, read.edit) \in Contents
  BY Kept, ContentType
<1>2. WantedAttempt(c) \in 0..MaxRetries
  BY Kept, RecordFacts, Bounds DEF WantedAttempt
<1>3. job[c] \in Jobs /\ job \in [Components -> Jobs]
  BY Kept
<1>4. CASE job' = [job EXCEPT ![c] = [content |-> WantedContent(c, read.edit),
                      attempt |-> WantedAttempt(c), seen |-> FALSE, state |-> "running"]]
  BY <1>1, <1>2, <1>3, <1>4 DEF Jobs
<1>5. CASE job' = [job EXCEPT ![c].state = "deleting", ![c].seen = FALSE]
  BY <1>3, <1>5 DEF Jobs
<1> QED
  BY <1>3, <1>4, <1>5 DEF SubmitJob

\* What the pass has before it has not failed and has retries left.
LEMMA TodoFacts ==
  ASSUME Typed, pc \in {"submit", "observe", "check"}, NEW c \in todo
  PROVE  /\ c \in Components /\ local.comps[c].phase \in PhasesAt(pc)
         /\ local.comps[c].phase # "Failed" /\ local.comps[c].retries # MaxRetries
<1>1. c \in Components /\ local.comps[c].phase \in PhasesAt(pc)
  BY DEF Typed, TypeOK, CountInv, TodoInv, Before
<1> QED
  BY <1>1, Kept DEF PhasesAt, Counts

\* It may move to any phase.
LEMMA MovedOn ==
  ASSUME Typed, pc \in {"submit", "observe", "check"}, NEW c \in todo, NEW p \in Phases
  PROVE  /\ SetPhase(local, c, p) \in Statuses /\ Counts(SetPhase(local, c, p))
         /\ \A d \in Components : d # c => SetPhase(local, c, p).comps[d] = local.comps[d]
<1>1. c \in Components /\ local.comps[c].retries # MaxRetries
  BY TodoFacts
<1>2. local \in Statuses /\ Counts(local)
  BY Kept
<1> QED
  BY <1>1, <1>2, SetPhaseFacts DEF Counts

LEMMA MadeReady ==
  ASSUME Typed, pc \in {"submit", "observe", "check"}, NEW c \in todo
  PROVE  /\ SetReady(local, c) \in Statuses /\ Counts(SetReady(local, c))
         /\ \A d \in Components : d # c => SetReady(local, c).comps[d] = local.comps[d]
<1>1. c \in Components
  BY TodoFacts
<1>2. local \in Statuses /\ Counts(local)
  BY Kept
<1> QED
  BY <1>1, <1>2, SetReadyFacts, Bounds DEF Counts

LEMMA MadeCharged ==
  ASSUME Typed, pc \in {"submit", "observe", "check"}, NEW c \in todo
  PROVE  /\ Charged(c) \in Statuses /\ Counts(Charged(c))
         /\ \A d \in Components : d # c => Charged(c).comps[d] = local.comps[d]
<1>1. c \in Components /\ local.comps[c].phase # "Failed"
  BY TodoFacts
<1> QED
  BY <1>1, Kept, ChargedFacts

LEMMA SubmitTyped ==
  ASSUME Typed, NEW c \in Components, Submit(c)
  PROVE  Typed'
<1>1. pc = "submit" /\ c \in todo /\ "Submitting" \in Phases
      /\ UNCHANGED <<edit, status, cache, read, installed, failures>>
  BY DEF Submit, Phases
<1>2. PassType'
  BY <1>1, Handled, MovedOn, MadeReady DEF Submit
<1>3. job' \in [Components -> Jobs]
  BY SubmitJobType, Kept DEF Submit
<1> QED
  BY <1>1, <1>2, <1>3, Kept, Others

LEMMA RefusalTyped ==
  ASSUME Typed, Refusal
  PROVE  Typed'
<1>1. UNCHANGED <<edit, status, cache, read, job, installed, failures>>
  BY DEF Refusal, SubmitRefused, ObserveRefused
<1>2. CASE \E c \in Components : SubmitRefused(c)
  BY <1>1, <1>2, Handled, Kept, Others DEF SubmitRefused
<1>3. CASE \E c \in Components : ObserveRefused(c)
  BY <1>1, <1>3, Concludes, Kept, Others DEF ObserveRefused
<1> QED
  BY <1>2, <1>3 DEF Refusal

LEMMA SubmitFailsTyped ==
  ASSUME Typed, NEW c \in Components, SubmitFails(c)
  PROVE  Typed'
<1>1. pc = "submit" /\ c \in todo /\ UNCHANGED <<edit, status, cache, read, job, installed>>
  BY DEF SubmitFails
<1>2. PassType'
  <2>2. CASE Continue(pc, GiveUp(SetPhase(local, c, "Failed")), todo \ {c})
    <3> DEFINE s == SetPhase(local, c, "Failed")
    <3>1. s \in Statuses /\ Counts(s) /\ \A d \in Components : d # c => s.comps[d] = local.comps[d]
      BY <1>1, MovedOn DEF Phases
    <3>2. GiveUp(s) \in Statuses /\ Counts(GiveUp(s)) /\ GiveUp(s).comps = s.comps
      BY <3>1, GiveUpFacts
    <3> QED
      BY <1>1, <2>2, <3>1, <3>2, Handled
  <2>3. CASE Continue(pc, Charged(c), todo \ {c})
    BY <1>1, <2>3, Handled, MadeCharged
  <2> QED
    BY <2>2, <2>3 DEF SubmitFails
<1>3. failures' \in 0..MaxFailures
  BY FailType, Kept DEF SubmitFails
<1> QED
  BY <1>1, <1>2, <1>3, Kept, Others

LEMMA SubmitEndTyped ==
  ASSUME Typed, SubmitEnd
  PROVE  Typed'
<1> DEFINE before == Reset(read).comps
           Restored(dropped) ==
              [local EXCEPT !.comps = [c \in Components |->
                 IF c \in dropped THEN before[c] ELSE local.comps[c]]]
<1>1. local \in Statuses /\ Counts(local) /\ Reset(read) \in Statuses /\ Counts(Reset(read))
  BY Kept, ResetFacts
<1>2. ASSUME NEW dropped
      PROVE  Restored(dropped) \in Statuses /\ Counts(Restored(dropped))
  <2> DEFINE cs == [c \in Components |-> IF c \in dropped THEN before[c] ELSE local.comps[c]]
  <2>1. cs \in [Components -> Records]
    BY <1>1, StatusType
  <2>2. \A c \in Components : cs[c].retries = MaxRetries => cs[c].phase = "Failed"
    BY <1>1 DEF Counts
  <2>3. Restored(dropped) = [local EXCEPT !.comps = cs]
    OBVIOUS
  <2> HIDE DEF cs, Restored
  <2> QED
    BY <1>1, <2>1, <2>2, <2>3, StatusType DEF Counts
<1>3. GiveUp(local) \in Statuses /\ Counts(GiveUp(local))
  BY <1>1, GiveUpFacts
<1>4. \/ \E dropped : Continue("patch", Restored(dropped), {})
      \/ Continue("patch", GiveUp(local), {})
      \/ Continue("patch", local, {})
  BY DEF SubmitEnd
<1> HIDE DEF Restored
<1>5. PassType'
  BY <1>1, <1>2, <1>3, <1>4, Concludes
<1>6. UNCHANGED <<edit, status, cache, read, job, installed, failures>>
  BY DEF SubmitEnd
<1> QED
  BY <1>5, <1>6, Kept, Others

LEMMA ObserveTyped ==
  ASSUME Typed, NEW c \in Components, Observe(c)
  PROVE  Typed'
<1>1. pc = "observe" /\ c \in todo
      /\ UNCHANGED <<edit, status, cache, read, job, installed, failures>>
  BY DEF Observe
<1>2. "Pending" \in Phases /\ "Deploying" \in Phases
  BY DEF Phases
<1>3. /\ Charged(c) \in Statuses /\ Counts(Charged(c))
      /\ \A d \in Components : d # c => Charged(c).comps[d] = local.comps[d]
  BY <1>1, MadeCharged
<1>4. /\ GiveUp(Charged(c)) \in Statuses /\ Counts(GiveUp(Charged(c)))
      /\ GiveUp(Charged(c)).comps = Charged(c).comps
  BY <1>3, GiveUpFacts
<1>5. PassType'
  <2>1. CASE Continue(pc, SetPhase(local, c, "Pending"), todo \ {c})
    BY <1>1, <1>2, <2>1, Handled, MovedOn
  <2>2. CASE Continue(pc, local, todo \ {c})
    BY <1>1, <2>2, Handled, Kept
  <2>3. CASE Continue(pc, SetReady(local, c), todo \ {c})
    BY <1>1, <2>3, Handled, MadeReady
  <2>4. CASE Continue(pc, SetPhase(local, c, "Deploying"), todo \ {c})
    BY <1>1, <1>2, <2>4, Handled, MovedOn
  <2>5. CASE Continue(pc, Charged(c), todo \ {c})
    BY <1>1, <1>3, <2>5, Handled
  <2>6. CASE Continue(pc, GiveUp(Charged(c)), todo \ {c})
    BY <1>1, <1>3, <1>4, <2>6, Handled
  <2>7. CASE Continue("patch", GiveUp(Charged(c)), {})
    BY <1>4, <2>7, Concludes
  <2> QED
    BY <2>1, <2>2, <2>3, <2>4, <2>5, <2>6, <2>7 DEF Observe
<1> QED
  BY <1>1, <1>5, Kept, Others

LEMMA ObserveEndTyped ==
  ASSUME Typed, ObserveEnd
  PROVE  Typed'
<1>1. pc = "observe" /\ UNCHANGED <<edit, status, cache, read, job, installed, failures>>
  BY DEF ObserveEnd
<1>2. local \in Statuses /\ Counts(local)
  BY Kept
<1>3. PassType'
  <2>1. CASE Continue("patch", local, {})
    BY <1>2, <2>1, Concludes
  <2>2. CASE Continue("check", local, In(read.status, {"Deploying"}))
    <3>1. pc' = "check" /\ local' = local /\ todo' = In(read.status, {"Deploying"})
      BY <2>2 DEF Continue
    <3>2. todo' \subseteq Components /\ \A c \in todo' : read.status.comps[c].phase = "Deploying"
      BY <3>1, InType
    <3>3. Reset(read) = read.status
      BY <1>1 DEF Typed, CountInv, TodoInv, Reset
    <3>4. \A c \in todo' : Before(c)
      BY <1>1, <3>2 DEF Typed, CountInv, TodoInv
    <3>5. TodoInv'
      BY <1>1, <3>1, <3>2, <3>3, <3>4 DEF TodoInv, Before, PhasesAt, Reset
    <3> QED
      BY <1>2, <3>1, <3>2, <3>5 DEF PassType, Steps, Counts
  <2> QED
    BY <2>1, <2>2 DEF ObserveEnd
<1> QED
  BY <1>1, <1>3, Kept, Others

LEMMA CheckTyped ==
  ASSUME Typed, NEW c \in Components, Check(c)
  PROVE  Typed'
<1>1. pc = "check" /\ c \in todo
      /\ UNCHANGED <<edit, status, cache, read, job, installed, failures>>
  BY DEF Check
<1>2. /\ Charged(c) \in Statuses /\ Counts(Charged(c))
      /\ \A d \in Components : d # c => Charged(c).comps[d] = local.comps[d]
  BY <1>1, MadeCharged
<1>3. GiveUp(Charged(c)) \in Statuses /\ Counts(GiveUp(Charged(c)))
  BY <1>2, GiveUpFacts
<1>4. PassType'
  <2>1. CASE Continue(pc, SetReady(local, c), todo \ {c})
    BY <1>1, <2>1, Handled, MadeReady
  <2>2. CASE Continue(pc, Charged(c), todo \ {c})
    BY <1>1, <1>2, <2>2, Handled
  <2>3. CASE Continue("patch", GiveUp(Charged(c)), {})
    BY <1>3, <2>3, Concludes
  <2> QED
    BY <2>1, <2>2, <2>3 DEF Check
<1> QED
  BY <1>1, <1>4, Kept, Others

LEMMA CheckOnTyped ==
  ASSUME Typed, CheckOn
  PROVE  Typed'
<1>1. pc = "check" /\ UNCHANGED <<edit, status, cache, read, job, installed, failures>>
  BY DEF CheckOn
<1>2. local \in Statuses /\ Counts(local)
  BY Kept
<1>3. PassType'
  <2>1. ASSUME NEW c \in todo, Continue(pc, local, todo \ {c})
        PROVE  PassType'
    BY <1>1, <1>2, <2>1, Handled
  <2>2. CASE Continue("patch", local, {})
    BY <1>2, <2>2, Concludes
  <2> QED
    BY <2>1, <2>2 DEF CheckOn
<1> QED
  BY <1>1, <1>3, Kept, Others

LEMMA StepFailsTyped ==
  ASSUME Typed, StepFails
  PROVE  Typed'
<1>1. Continue("patch", local, {}) /\ UNCHANGED <<edit, status, cache, read, job, installed>>
  BY DEF StepFails
<1>2. PassType'
  BY <1>1, Concludes, Kept
<1>3. failures' \in 0..MaxFailures
  BY FailType DEF StepFails
<1> QED
  BY <1>1, <1>2, <1>3, Kept, Others

LEMMA PatchTyped ==
  ASSUME Typed, Patch
  PROVE  Typed'
<1>1. EndPass /\ status' = Merged /\ UNCHANGED <<edit, cache, job, installed, failures>>
  BY DEF Patch
<1>2. PassType' /\ read' = NoRead
  BY <1>1, Leaves
<1>3. read' \in Copies /\ Counts(read'.status)
  BY <1>2, NoReadType, NewStatusType
<1>4. status \in Statuses /\ Counts(status)
  BY DEF Typed, TypeOK, CountInv
<1>5. status' \in Statuses /\ (status'.comps = status.comps \/ status'.comps = local.comps)
  BY <1>1, <1>4, Kept, MergedFacts
<1>6. Counts(status')
  BY <1>4, <1>5, Kept DEF Counts
<1> QED
  BY <1>1, <1>2, <1>3, <1>5, <1>6 DEF Typed, TypeOK, CountInv, PassType, Steps, Counts

LEMMA AbortTyped ==
  ASSUME Typed, Abort
  PROVE  Typed'
<1>1. EndPass /\ UNCHANGED <<edit, status, cache, job, installed>>
  BY DEF Abort
<1>2. PassType' /\ read' = NoRead
  BY <1>1, Leaves
<1>3. read' \in Copies /\ Counts(read'.status)
  BY <1>2, NoReadType, NewStatusType
<1>4. failures' \in 0..MaxFailures
  BY FailType DEF Abort
<1> QED
  BY <1>1, <1>2, <1>3, <1>4, Kept, Others

\* What others do: the spec, the cache and the Jobs.
LEMMA WorldTyped ==
  ASSUME Typed, UNCHANGED <<status, passVars, failures>>, edit' \in 0..MaxEdits,
         cache' \in Copies, Counts(cache'.status), job' \in [Components -> Jobs],
         installed' \in [Components -> Contents \cup {Nothing}]
  PROVE  Typed'
<1>1. PassType'
  BY PassKept
<1> QED
  BY <1>1 DEF Typed, TypeOK, CountInv, PassType, Steps, Counts, passVars

LEMMA WorldKept ==
  ASSUME Typed
  PROVE  /\ edit \in 0..MaxEdits /\ status \in Statuses /\ Counts(status)
         /\ installed \in [Components -> Contents \cup {Nothing}]
  BY DEF Typed, TypeOK, CountInv

LEMMA EnvironmentTyped ==
  ASSUME Typed, SpecEdit \/ SyncEnv
  PROVE  Typed'
<1>1. CASE SpecEdit
  <2>1. edit' \in 0..MaxEdits
    BY <1>1, WorldKept, Bounds DEF SpecEdit
  <2> QED
    BY <1>1, <2>1, Kept, WorldKept, WorldTyped DEF SpecEdit
<1>2. CASE SyncEnv
  <2>1. cache' \in Copies /\ cache'.status = status
    BY <1>2, WorldKept DEF SyncEnv, Copies
  <2> QED
    BY <1>2, <2>1, Kept, WorldKept, WorldTyped DEF SyncEnv
<1> QED
  BY <1>1, <1>2

LEMMA JobTyped ==
  ASSUME Typed, NEW c \in Components,
         SyncJob(c) \/ JobGone(c) \/ \E state \in Ended : FinishJob(c, state)
  PROVE  Typed'
<1>1. job \in [Components -> Jobs] /\ job[c] \in Jobs
  BY Kept
<1>2. CASE SyncJob(c)
  <2>1. job' \in [Components -> Jobs]
    BY <1>1, <1>2 DEF SyncJob, Jobs
  <2> QED
    BY <1>2, <2>1, Kept, WorldKept, WorldTyped DEF SyncJob
<1>3. CASE JobGone(c)
  <2>1. [NoJob EXCEPT !.seen = FALSE] \in Jobs
    BY NoJobType DEF Jobs
  <2>2. job' \in [Components -> Jobs]
    BY <1>1, <1>3, <2>1 DEF JobGone
  <2> QED
    BY <1>3, <2>2, Kept, WorldKept, WorldTyped DEF JobGone
<1>4. ASSUME NEW state \in Ended, FinishJob(c, state)
      PROVE  Typed'
  <2>1. job' \in [Components -> Jobs]
    BY <1>1, <1>4 DEF FinishJob, Jobs, Ended
  <2>2. job[c].content \in Contents
    BY <1>1 DEF Jobs
  <2>3. installed' \in [Components -> Contents \cup {Nothing}]
    BY <1>4, <2>2, WorldKept DEF FinishJob
  <2> QED
    BY <1>4, <2>1, <2>3, Kept, WorldKept, WorldTyped DEF FinishJob
<1> QED
  BY <1>2, <1>3, <1>4

LEMMA InitTyped ==
  ASSUME Init
  PROVE  Typed
<1>1. NoRead \in Copies /\ NewStatus \in Statuses /\ Counts(NewStatus) /\ NoRead.status = NewStatus
  BY NoReadType, NewStatusType
<1>2. NoJob \in Jobs
  BY NoJobType
<1>3. TypeOK
  BY <1>1, <1>2, Bounds DEF Init, TypeOK
<1>4. CountInv
  BY <1>1 DEF Init, CountInv, TodoInv
<1> QED
  BY <1>3, <1>4 DEF Typed

LEMMA NextTyped ==
  ASSUME Typed, [Next]_vars
  PROVE  Typed'
<1>1. CASE Next
  BY <1>1, BeginTyped, BeginFailsTyped, SubmitTyped, RefusalTyped, SubmitFailsTyped, SubmitEndTyped,
     ObserveTyped, ObserveEndTyped, CheckTyped, CheckOnTyped, StepFailsTyped, PatchTyped,
     AbortTyped, EnvironmentTyped, JobTyped DEF Next, Pass
<1>2. CASE UNCHANGED vars
  BY <1>2, Kept, WorldKept, WorldTyped DEF vars
<1> QED
  BY <1>1, <1>2

LEMMA AlwaysTyped == Spec => []Typed
  BY InitTyped, NextTyped, PTL DEF Spec

\* Every status that is read, worked on or written is a status of the API, and
\* a count of failures never exceeds the limit at which the component fails.
THEOREM DeployTypeCorrect == Spec => []TypeOK
<1>1. Typed => TypeOK
  BY DEF Typed
<1> QED
  BY <1>1, AlwaysTyped, PTL

-----------------------------------------------------------------------------
\* Safety, when every pass starts from a cache that shows the last patch.

\* The status never speaks of a generation the cache has not shown, and while
\* a pass runs it is the one the pass read.
AgeInv ==
    /\ status.observed <= cache.edit /\ cache.edit <= edit
    /\ pc # "idle" =>
          /\ read.status = status /\ local.observed = read.edit
          /\ status.observed <= read.edit /\ read.edit <= cache.edit

\* What status s says was installed is installed, from the generation of s.
Claims(s) ==
    \A c \in JobBacked : s.comps[c].phase \in {"Deploying", "Ready"} =>
        job[c].state = "succeeded" /\ installed[c] = WantedContent(c, s.observed)

\* The status need not be right once the pass that forgets it may come.
ClaimInv ==
    /\ \A c \in Components : job[c].state = "succeeded" => installed[c] = job[c].content
    /\ status.observed = cache.edit => Claims(status)
    /\ pc # "idle" => Claims(local) /\ Claims(Reset(read))

PhaseInv ==
    /\ status.phase = "Ready" => Unready(status) = {}
    /\ local.phase = "Ready" => Unready(local) = {}
    /\ pc \in {"submit", "observe", "check"} => local.phase # "Ready"
    /\ pc # "idle" /\ GivenUp(Reset(read)) => pc = "patch" /\ GivenUp(local)
    /\ pc = "submit" => todo \subseteq Frontier(Reset(read))

Good == AgeInv /\ ClaimInv /\ PhaseInv

Safe == Typed /\ Good

LEMMA BackedType == JobBacked \subseteq Components
  BY ConstantsAssumption DEF JobBacked, Plain

LEMMA InitGood ==
  ASSUME Init
  PROVE  Good
<1>1. /\ NewStatus.observed = -1 /\ NewStatus.phase = ""
      /\ \A c \in Components : NewStatus.comps[c].phase = "none"
  BY NewStatusType, NoComponentsType DEF Nothing, NewStatus
<1>2. /\ edit = 0 /\ status = NewStatus /\ cache.edit = 0 /\ pc = "idle" /\ local = NewStatus
      /\ \A c \in Components : job[c].state = "absent"
  BY DEF Init, NoRead, NoJob
<1>3. AgeInv
  <2>1. status.observed = -1 /\ cache.edit = 0 /\ edit = 0 /\ pc = "idle"
    BY <1>1, <1>2
  <2>2. -1 <= 0 /\ 0 <= 0
    OBVIOUS
  <2> QED
    BY <2>1, <2>2 DEF AgeInv
<1>4. ClaimInv
  BY <1>1, <1>2, BackedType DEF ClaimInv, Claims
<1>5. PhaseInv
  BY <1>1, <1>2 DEF PhaseInv
<1> QED
  BY <1>3, <1>4, <1>5 DEF Good

\* A step of the pass that leaves everything else alone.
LEMMA StepGood ==
  ASSUME Safe, pc \in {"submit", "observe", "check"},
         UNCHANGED <<edit, status, cache, read, job, installed>>,
         NEW p \in Steps \ {"idle"}, NEW s, NEW cs, Continue(p, s, cs),
         s.observed = local.observed, Claims(s), s.phase # "Ready",
         p = "submit" => pc = "submit" /\ cs \subseteq todo
  PROVE  Good'
<1>1. pc' = p /\ local' = s /\ todo' = cs
  BY DEF Continue
<1>2. AgeInv'
  BY <1>1 DEF Safe, Good, AgeInv
<1>3. ClaimInv'
  BY <1>1 DEF Safe, Good, ClaimInv, Claims, Reset, WantedContent
<1>4. ~GivenUp(Reset(read))
  BY DEF Safe, Good, PhaseInv
<1>5. PhaseInv'
  BY <1>1, <1>4 DEF Safe, Good, PhaseInv, GivenUp, Reset, Frontier, Unready
<1> QED
  BY <1>2, <1>3, <1>5 DEF Good

\* One component's claim is added or withdrawn.
LEMMA ClaimsMoved ==
  ASSUME Safe, pc # "idle", NEW c, NEW s, s.observed = local.observed,
         \A d \in Components : d # c => s.comps[d] = local.comps[d],
         c \in JobBacked /\ s.comps[c].phase \in {"Deploying", "Ready"} =>
            job[c].state = "succeeded" /\ installed[c] = WantedContent(c, read.edit)
  PROVE  Claims(s)
<1>1. Claims(local) /\ local.observed = read.edit
  BY DEF Safe, Good, AgeInv, ClaimInv
<1> QED
  BY <1>1, BackedType DEF Claims

\* A pass that begins claims what the status claims, if it is of this spec.
LEMMA FreshClaims ==
  ASSUME SeesOwnWrites, Safe, Read
  PROVE  /\ Claims(Reset(cache)) /\ Reset(cache) \in Statuses
         /\ Reset(cache).observed = cache.edit
         /\ Reset(cache).phase = "Ready" => Unready(Reset(cache)) = {}
<1>1. cache.status = status /\ cache \in Copies /\ Counts(cache.status)
  BY Kept DEF Read, Safe
<1>2. CASE status.observed = cache.edit
  <2>1. Reset(cache) = status
    BY <1>1, <1>2 DEF Reset
  <2> QED
    BY <1>2, <2>1, WorldKept DEF Safe, Good, ClaimInv, PhaseInv
<1>3. CASE status.observed # cache.edit
  <2>1. /\ Reset(cache) \in Statuses /\ Reset(cache).observed = cache.edit
        /\ Reset(cache).phase = "" /\ \A c \in Components : Reset(cache).comps[c].phase = "none"
    BY <1>1, <1>3, ResetFacts
  <2> QED
    BY <2>1, BackedType DEF Claims
<1> QED
  BY <1>2, <1>3

LEMMA StartGood ==
  ASSUME SeesOwnWrites, Safe, Read, UNCHANGED <<edit, status, cache, job, installed>>,
         NEW p \in Steps \ {"idle"}, NEW s, NEW cs, Continue(p, s, cs),
         s.observed = cache.edit, s.comps = Reset(cache).comps,
         s.phase = "Ready" => p = "patch" /\ Unready(Reset(cache)) = {},
         GivenUp(Reset(cache)) => p = "patch" /\ GivenUp(s),
         p = "submit" => cs \subseteq Frontier(Reset(cache))
  PROVE  Good'
<1>1. /\ pc' = p /\ local' = s /\ todo' = cs /\ read' = cache /\ cache.status = status
  BY DEF Continue, Read
<1>2. cache.edit \in Nat /\ edit \in Nat /\ status.observed <= cache.edit
  BY Kept, WorldKept DEF Safe, Copies, Good, AgeInv
<1>3. AgeInv'
  BY <1>1, <1>2 DEF Safe, Good, AgeInv
<1>4. Claims(s)
  BY FreshClaims DEF Claims
<1>5. ClaimInv'
  BY <1>1, <1>4, FreshClaims DEF Safe, Good, ClaimInv, Claims, Reset, WantedContent
<1>6. PhaseInv'
  BY <1>1 DEF Safe, Good, PhaseInv, GivenUp, Reset, Frontier, Unready
<1> QED
  BY <1>3, <1>5, <1>6 DEF Good

LEMMA BeginGood ==
  ASSUME SeesOwnWrites, Safe, Begin
  PROVE  Good'
<1> DEFINE s == Reset(cache)
           d == [s EXCEPT !.phase = "Deploying"]
           e == [s EXCEPT !.phase = "Ready"]
<1>1. Read /\ UNCHANGED <<edit, status, cache, job, installed>>
  BY DEF Begin
<1>2. s \in Statuses /\ s.observed = cache.edit /\ (s.phase = "Ready" => Unready(s) = {})
  BY <1>1, FreshClaims
<1>3. /\ d.observed = s.observed /\ d.phase = "Deploying" /\ d.comps = s.comps
      /\ e.observed = s.observed /\ e.phase = "Ready" /\ e.comps = s.comps
  BY <1>2, PhaseFacts
<1>4. {"submit", "observe", "check", "patch"} \subseteq Steps \ {"idle"}
  BY DEF Steps
<1>5. CASE GivenUp(s) /\ Continue("patch", s, {})
  BY <1>1, <1>2, <1>4, <1>5, StartGood DEF GivenUp
<1>6. CASE ~GivenUp(s) /\ Unready(s) = {} /\ Continue("patch", e, {})
  <2> HIDE DEF e
  <2> QED
    BY <1>1, <1>2, <1>3, <1>4, <1>6, StartGood
<1>7. CASE ~GivenUp(s) /\ Continue("submit", d, In(s, {"none", "Pending"}))
  <2>1. In(s, {"none", "Pending"}) \subseteq Frontier(s)
    BY DEF In
  <2> HIDE DEF d
  <2> QED
    BY <1>1, <1>2, <1>3, <1>4, <1>7, <2>1, StartGood
<1>8. CASE ~GivenUp(s) /\ (\/ Continue("observe", d, In(s, {"Submitting"}))
                          \/ Continue("check", d, In(s, {"Deploying"})))
  <2> HIDE DEF d
  <2> QED
    BY <1>1, <1>2, <1>3, <1>4, <1>8, StartGood
<1> QED
  BY <1>5, <1>6, <1>7, <1>8 DEF Begin

LEMMA BeginFailsGood ==
  ASSUME SeesOwnWrites, Safe, BeginFails
  PROVE  Good'
<1> DEFINE s == Reset(cache)
<1>1. Read /\ UNCHANGED <<edit, status, cache, job, installed>>
  BY DEF BeginFails
<1>2. s \in Statuses /\ s.observed = cache.edit /\ (s.phase = "Ready" => Unready(s) = {})
  BY <1>1, FreshClaims
<1>3. GiveUp(s).observed = s.observed /\ GiveUp(s).phase = "Failed" /\ GiveUp(s).comps = s.comps
  BY <1>2, GiveUpFacts
<1>4. "patch" \in Steps \ {"idle"}
  BY DEF Steps
<1>5. CASE Continue("patch", s, {})
  BY <1>1, <1>2, <1>4, <1>5, StartGood
<1>6. CASE Continue("patch", GiveUp(s), {})
  BY <1>1, <1>2, <1>3, <1>4, <1>6, StartGood DEF GivenUp
<1> QED
  BY <1>5, <1>6 DEF BeginFails

\* The claims of s after the step.
ClaimsAfter(s) ==
    \A c \in JobBacked : s.comps[c].phase \in {"Deploying", "Ready"} =>
        job'[c].state = "succeeded" /\ installed'[c] = WantedContent(c, s.observed)

\* The step touches the Job of one component, of which s claims nothing.
LEMMA ClaimsKept ==
  ASSUME NEW s, Claims(s), NEW c,
         \A d \in Components : d # c => job'[d] = job[d] /\ installed'[d] = installed[d],
         c \in JobBacked => s.comps[c].phase \notin {"Deploying", "Ready"}
  PROVE  ClaimsAfter(s)
  BY BackedType DEF Claims, ClaimsAfter

LEMMA SubmitJobFacts ==
  ASSUME Typed, NEW c \in Components, SubmitJob(c)
  PROVE  /\ \A d \in Components : d # c => job'[d] = job[d]
         /\ job'[c] = job[c] \/ job'[c].state \in {"running", "deleting"}
<1>1. job \in [Components -> Jobs] /\ job[c] \in Jobs
  BY Kept
<1>2. CASE job' = [job EXCEPT ![c] = [content |-> WantedContent(c, read.edit),
                      attempt |-> WantedAttempt(c), seen |-> FALSE, state |-> "running"]]
  BY <1>1, <1>2
<1>3. CASE job' = [job EXCEPT ![c].state = "deleting", ![c].seen = FALSE]
  BY <1>1, <1>3 DEF Jobs
<1> QED
  BY <1>2, <1>3 DEF SubmitJob

\* A component that is submitted is claimed by nobody.
LEMMA TodoUnclaimed ==
  ASSUME Safe, pc = "submit", NEW c \in todo
  PROVE  /\ c \in Components /\ Reset(read).comps[c].phase \notin {"Deploying", "Ready"}
         /\ status.observed = cache.edit => status.comps[c].phase \notin {"Deploying", "Ready"}
<1>1. c \in Components /\ Reset(read).comps[c].phase \in {"none", "Pending"}
  BY DEF Safe, Typed, TypeOK, CountInv, TodoInv, PhasesAt
<1>2. ASSUME status.observed = cache.edit
      PROVE  Reset(read) = status
  <2>1. /\ read.status = status /\ status.observed <= read.edit /\ read.edit <= cache.edit
        /\ read.edit \in Nat /\ cache.edit \in Nat
    BY Kept DEF Safe, Good, AgeInv, Copies
  <2>2. status.observed = read.edit
    BY <1>2, <2>1
  <2> QED
    BY <2>1, <2>2 DEF Reset
<1> QED
  BY <1>1, <1>2

LEMMA SubmitGood ==
  ASSUME Safe, NEW c \in Components, Submit(c)
  PROVE  Good'
<1>1. pc = "submit" /\ c \in todo /\ UNCHANGED <<edit, status, cache, read, installed>>
  BY DEF Submit
<1>2. local \in Statuses /\ local.phase # "Ready" /\ "submit" \in Steps \ {"idle"}
  BY <1>1, Kept DEF Safe, Good, PhaseInv, Steps
<1>3. CASE SubmitJob(c) /\ Continue(pc, SetPhase(local, c, "Submitting"), todo \ {c})
  <2> DEFINE s == SetPhase(local, c, "Submitting")
  <2>1. /\ s.observed = local.observed /\ s.phase = local.phase /\ s.comps[c].phase = "Submitting"
        /\ \A d \in Components : d # c => s.comps[d] = local.comps[d]
    BY <1>2, SetPhaseFacts DEF Phases
  <2> HIDE DEF s
  <2>2. pc' = "submit" /\ local' = s /\ todo' = todo \ {c}
    BY <1>1, <1>3 DEF Continue, s
  <2>3. /\ \A d \in Components : d # c => job'[d] = job[d] /\ installed'[d] = installed[d]
        /\ job'[c] = job[c] \/ job'[c].state \in {"running", "deleting"}
    BY <1>1, <1>3, SubmitJobFacts DEF Safe
  <2>4. Claims(s)
    BY <1>1, <2>1, ClaimsMoved
  <2>5. ClaimsAfter(s)
    BY <2>1, <2>3, <2>4, ClaimsKept
  <2>6. ClaimsAfter(Reset(read))
    BY <1>1, <2>3, ClaimsKept, TodoUnclaimed DEF Safe, Good, ClaimInv
  <2>7. status.observed = cache.edit => ClaimsAfter(status)
    BY <1>1, <2>3, ClaimsKept, TodoUnclaimed DEF Safe, Good, ClaimInv
  <2>8. \A d \in Components : job'[d].state = "succeeded" => installed'[d] = job'[d].content
    BY <1>1, <2>3 DEF Safe, Good, ClaimInv
  <2>9. AgeInv'
    BY <1>1, <2>1, <2>2 DEF Safe, Good, AgeInv
  <2>10. ClaimInv'
    BY <1>1, <2>2, <2>5, <2>6, <2>7, <2>8 DEF ClaimInv, Claims, ClaimsAfter, Reset, WantedContent
  <2>11. ~GivenUp(Reset(read)) /\ s.phase # "Ready"
    BY <1>1, <1>2, <2>1 DEF Safe, Good, PhaseInv
  <2>12. PhaseInv'
    BY <1>1, <2>2, <2>11 DEF Safe, Good, PhaseInv, GivenUp, Reset, Frontier, Unready
  <2> QED
    BY <2>9, <2>10, <2>12 DEF Good
<1>4. CASE c \in Shared \ Provisioned /\ UNCHANGED job
           /\ Continue(pc, SetReady(local, c), todo \ {c})
  <2> DEFINE s == SetReady(local, c)
  <2>1. /\ s.observed = local.observed /\ s.phase = local.phase
        /\ \A d \in Components : d # c => s.comps[d] = local.comps[d]
    BY <1>2, SetReadyFacts
  <2>2. c \notin JobBacked
    BY <1>4 DEF JobBacked, Plain
  <2> HIDE DEF s
  <2>3. Claims(s)
    BY <1>1, <2>1, <2>2, ClaimsMoved
  <2> QED
    BY <1>1, <1>2, <1>4, <2>1, <2>3, StepGood DEF s
<1> QED
  BY <1>3, <1>4 DEF Submit

\* What the pass works on while it has components before it.
LEMMA Working ==
  ASSUME Safe, pc \in {"submit", "observe", "check"}
  PROVE  /\ local \in Statuses /\ local.phase # "Ready" /\ Claims(local)
         /\ pc \in Steps \ {"idle"} /\ "patch" \in Steps \ {"idle"} /\ pc # "idle"
  BY Kept DEF Safe, Good, PhaseInv, ClaimInv, Steps

\* A failed component claims nothing; its failure is charged, or is final.
LEMMA ChargedClaims ==
  ASSUME Safe, pc \in {"submit", "observe", "check"}, NEW c \in todo
  PROVE  /\ Charged(c).observed = local.observed /\ Charged(c).phase # "Ready" /\ Claims(Charged(c))
         /\ GiveUp(Charged(c)).observed = local.observed
         /\ GiveUp(Charged(c)).phase # "Ready" /\ Claims(GiveUp(Charged(c)))
<1> DEFINE s == Charged(c)
<1>1. /\ c \in Components /\ s \in Statuses
      /\ s.observed = local.observed /\ s.phase = local.phase
      /\ s.comps[c].phase \in {"Failed", "Pending"}
      /\ \A d \in Components : d # c => s.comps[d] = local.comps[d]
  BY TodoFacts, Kept, ChargedFacts DEF Safe
<1> HIDE DEF s
<1>2. Claims(s)
  BY <1>1, Working, ClaimsMoved
<1>3. /\ GiveUp(s).observed = s.observed /\ GiveUp(s).phase = "Failed" /\ GiveUp(s).comps = s.comps
  BY <1>1, GiveUpFacts
<1>4. Claims(GiveUp(s))
  BY <1>2, <1>3 DEF Claims
<1>5. /\ s.observed = local.observed /\ s.phase # "Ready" /\ Claims(s)
      /\ GiveUp(s).observed = local.observed /\ GiveUp(s).phase # "Ready" /\ Claims(GiveUp(s))
  BY <1>1, <1>2, <1>3, <1>4, Working
<1> QED
  BY <1>5 DEF s

LEMMA RefusalGood ==
  ASSUME Safe, Refusal
  PROVE  Good'
<1>1. PICK c \in Components : SubmitRefused(c) \/ ObserveRefused(c)
  BY DEF Refusal
<1>2. CASE SubmitRefused(c)
  BY <1>2, Working, StepGood DEF SubmitRefused
<1>3. CASE ObserveRefused(c)
  BY <1>3, Working, StepGood DEF ObserveRefused
<1> QED
  BY <1>1, <1>2, <1>3

LEMMA SubmitFailsGood ==
  ASSUME Safe, NEW c \in Components, SubmitFails(c)
  PROVE  Good'
<1>1. pc = "submit" /\ c \in todo /\ UNCHANGED <<edit, status, cache, read, job, installed>>
  BY DEF SubmitFails
<1>3. CASE Continue(pc, GiveUp(SetPhase(local, c, "Failed")), todo \ {c})
  <2> DEFINE s == SetPhase(local, c, "Failed")
  <2>1. /\ s \in Statuses /\ s.observed = local.observed /\ s.comps[c].phase = "Failed"
        /\ \A d \in Components : d # c => s.comps[d] = local.comps[d]
    BY <1>1, Working, SetPhaseFacts DEF Phases
  <2> HIDE DEF s
  <2>2. Claims(s)
    BY <1>1, <2>1, ClaimsMoved
  <2>3. /\ GiveUp(s).observed = s.observed /\ GiveUp(s).phase = "Failed" /\ GiveUp(s).comps = s.comps
    BY <2>1, GiveUpFacts
  <2>4. Claims(GiveUp(s))
    BY <2>2, <2>3 DEF Claims
  <2>5. Continue(pc, GiveUp(s), todo \ {c})
    BY <1>3 DEF s
  <2> QED
    BY <1>1, <2>1, <2>3, <2>4, <2>5, Working, StepGood
<1>4. CASE Continue(pc, Charged(c), todo \ {c})
  BY <1>1, <1>4, Working, ChargedClaims, StepGood
<1> QED
  BY <1>3, <1>4 DEF SubmitFails

LEMMA SubmitEndGood ==
  ASSUME Safe, SubmitEnd
  PROVE  Good'
<1> DEFINE before == Reset(read).comps
           Restored(dropped) ==
              [local EXCEPT !.comps = [c \in Components |->
                 IF c \in dropped THEN before[c] ELSE local.comps[c]]]
<1>1. pc = "submit" /\ UNCHANGED <<edit, status, cache, read, job, installed>>
  BY DEF SubmitEnd
<1>2. /\ local.observed = read.edit /\ Reset(read).observed = read.edit
      /\ Claims(local) /\ Claims(Reset(read))
  BY <1>1, Kept, ResetFacts DEF Safe, Good, AgeInv, ClaimInv
<1>3. ASSUME NEW dropped
      PROVE  /\ Restored(dropped).observed = local.observed /\ Restored(dropped).phase = local.phase
             /\ Claims(Restored(dropped))
  <2> DEFINE cs == [c \in Components |-> IF c \in dropped THEN before[c] ELSE local.comps[c]]
             s == Restored(dropped)
  <2>1. s = [local EXCEPT !.comps = cs]
    OBVIOUS
  <2>2. \A c \in Components : cs[c] = before[c] \/ cs[c] = local.comps[c]
    OBVIOUS
  <2> HIDE DEF cs, s
  <2>3. s.observed = local.observed /\ s.phase = local.phase /\ s.comps = cs
    BY <1>1, <2>1, Working, StatusType
  <2>4. Claims(s)
    BY <1>2, <2>2, <2>3, BackedType DEF Claims
  <2> QED
    BY <2>3, <2>4 DEF s
<1>4. /\ GiveUp(local).observed = local.observed /\ GiveUp(local).phase = "Failed"
      /\ GiveUp(local).comps = local.comps
  BY <1>1, Working, GiveUpFacts
<1>5. Claims(GiveUp(local))
  BY <1>2, <1>4 DEF Claims
<1>6. \/ \E dropped : Continue("patch", Restored(dropped), {})
      \/ Continue("patch", GiveUp(local), {})
      \/ Continue("patch", local, {})
  BY DEF SubmitEnd
<1> HIDE DEF Restored
<1>7. CASE \E dropped : Continue("patch", Restored(dropped), {})
  <2>1. PICK dropped : Continue("patch", Restored(dropped), {})
    BY <1>7
  <2> QED
    BY <1>1, <1>3, <2>1, Working, StepGood
<1>8. CASE Continue("patch", GiveUp(local), {})
  BY <1>1, <1>4, <1>5, <1>8, Working, StepGood
<1>9. CASE Continue("patch", local, {})
  BY <1>1, <1>9, Working, StepGood
<1> QED
  BY <1>6, <1>7, <1>8, <1>9

LEMMA ObserveGood ==
  ASSUME Safe, NEW c \in Components, Observe(c)
  PROVE  Good'
<1>1. pc = "observe" /\ c \in todo /\ UNCHANGED <<edit, status, cache, read, job, installed>>
  BY DEF Observe
<1>2. \A p \in Phases :
         /\ SetPhase(local, c, p).observed = local.observed
         /\ SetPhase(local, c, p).phase = local.phase /\ SetPhase(local, c, p).comps[c].phase = p
         /\ \A d \in Components : d # c => SetPhase(local, c, p).comps[d] = local.comps[d]
  BY <1>1, Working, SetPhaseFacts
<1>3. CASE Continue(pc, SetPhase(local, c, "Pending"), todo \ {c})
  <2> DEFINE s == SetPhase(local, c, "Pending")
  <2>1. /\ s.observed = local.observed /\ s.phase = local.phase /\ s.comps[c].phase = "Pending"
        /\ \A d \in Components : d # c => s.comps[d] = local.comps[d]
    BY <1>2 DEF Phases
  <2>2. Continue(pc, s, todo \ {c})
    BY <1>3
  <2> HIDE DEF s
  <2>3. Claims(s)
    BY <1>1, <2>1, ClaimsMoved
  <2> QED
    BY <1>1, <2>1, <2>2, <2>3, Working, StepGood
<1>4. CASE Continue(pc, local, todo \ {c})
  BY <1>1, <1>4, Working, StepGood
<1>5. CASE /\ "succeeded" \in Verdicts(c)
           /\ Continue(pc, IF c \in Shared THEN SetReady(local, c)
                           ELSE SetPhase(local, c, "Deploying"), todo \ {c})
  <2> DEFINE s == IF c \in Shared THEN SetReady(local, c) ELSE SetPhase(local, c, "Deploying")
  <2>1. /\ s.observed = local.observed /\ s.phase = local.phase
        /\ \A d \in Components : d # c => s.comps[d] = local.comps[d]
    BY <1>1, <1>2, Working, SetReadyFacts DEF Phases
  <2>2. Continue(pc, s, todo \ {c})
    BY <1>5
  <2> HIDE DEF s
  <2>3. job[c].state = "succeeded" /\ job[c].content = WantedContent(c, read.edit)
    BY <1>5 DEF Verdicts, Ended, Matches
  <2>4. installed[c] = WantedContent(c, read.edit)
    BY <2>3 DEF Safe, Good, ClaimInv
  <2>5. Claims(s)
    BY <1>1, <2>1, <2>3, <2>4, ClaimsMoved
  <2> QED
    BY <1>1, <2>1, <2>2, <2>5, Working, StepGood
<1>6. CASE Continue(pc, Charged(c), todo \ {c})
  BY <1>1, <1>6, Working, ChargedClaims, StepGood
<1>7. CASE Continue(pc, GiveUp(Charged(c)), todo \ {c})
  BY <1>1, <1>7, Working, ChargedClaims, StepGood
<1>8. CASE Continue("patch", GiveUp(Charged(c)), {})
  BY <1>1, <1>8, Working, ChargedClaims, StepGood
<1> QED
  BY <1>3, <1>4, <1>5, <1>6, <1>7, <1>8 DEF Observe

LEMMA ObserveEndGood ==
  ASSUME Safe, ObserveEnd
  PROVE  Good'
<1>1. pc = "observe" /\ UNCHANGED <<edit, status, cache, read, job, installed>>
  BY DEF ObserveEnd
<1>2. "check" \in Steps \ {"idle"}
  BY DEF Steps
<1> QED
  BY <1>1, <1>2, Working, StepGood DEF ObserveEnd

LEMMA CheckGood ==
  ASSUME Safe, NEW c \in Components, Check(c)
  PROVE  Good'
<1>1. pc = "check" /\ c \in todo /\ UNCHANGED <<edit, status, cache, read, job, installed>>
  BY DEF Check
<1>2. CASE Continue(pc, SetReady(local, c), todo \ {c})
  <2> DEFINE s == SetReady(local, c)
  <2>1. /\ s.observed = local.observed /\ s.phase = local.phase
        /\ \A d \in Components : d # c => s.comps[d] = local.comps[d]
    BY <1>1, Working, SetReadyFacts
  <2>2. local.comps[c].phase = "Deploying"
    BY <1>1, TodoFacts DEF Safe, PhasesAt
  <2>3. c \in JobBacked => job[c].state = "succeeded" /\ installed[c] = WantedContent(c, read.edit)
    BY <1>1, <2>2, Working DEF Claims, Safe, Good, AgeInv
  <2> HIDE DEF s
  <2>4. Claims(s)
    BY <1>1, <2>1, <2>3, ClaimsMoved
  <2>5. Continue(pc, s, todo \ {c})
    BY <1>2 DEF s
  <2> QED
    BY <1>1, <2>1, <2>4, <2>5, Working, StepGood
<1>3. CASE Continue(pc, Charged(c), todo \ {c})
  BY <1>1, <1>3, Working, ChargedClaims, StepGood
<1>4. CASE Continue("patch", GiveUp(Charged(c)), {})
  BY <1>1, <1>4, Working, ChargedClaims, StepGood
<1> QED
  BY <1>2, <1>3, <1>4 DEF Check

LEMMA CheckOnGood ==
  ASSUME Safe, CheckOn
  PROVE  Good'
<1>1. pc = "check" /\ UNCHANGED <<edit, status, cache, read, job, installed>>
  BY DEF CheckOn
<1>2. ASSUME NEW c \in todo, Continue(pc, local, todo \ {c})
      PROVE  Good'
  BY <1>1, <1>2, Working, StepGood
<1>3. CASE Continue("patch", local, {})
  BY <1>1, <1>3, Working, StepGood
<1> QED
  BY <1>2, <1>3 DEF CheckOn

LEMMA StepFailsGood ==
  ASSUME Safe, StepFails
  PROVE  Good'
<1>1. pc \in {"observe", "check"} /\ Continue("patch", local, {})
      /\ UNCHANGED <<edit, status, cache, read, job, installed>>
  BY DEF StepFails
<1> QED
  BY <1>1, Working, StepGood

\* No pass: nothing is worked on.
LEMMA IdleGood ==
  ASSUME EndPass
  PROVE  pc' = "idle" /\ local'.phase = ""
  BY NewStatusType DEF EndPass

LEMMA PatchGood ==
  ASSUME Safe, Patch
  PROVE  Good'
<1>1. /\ pc = "patch" /\ status' = Merged /\ UNCHANGED <<edit, cache, job, installed>>
      /\ pc' = "idle" /\ local'.phase = ""
  BY IdleGood DEF Patch
<1>2. read.status = status
  BY <1>1 DEF Safe, Good, AgeInv
<1>3. status' = local
  BY <1>1, <1>2, Kept, WorldKept, MergedFacts DEF Safe
<1>4. AgeInv'
  BY <1>1, <1>3 DEF Safe, Good, AgeInv
<1>5. ClaimInv'
  BY <1>1, <1>3 DEF Safe, Good, ClaimInv, Claims, WantedContent
<1>6. PhaseInv'
  BY <1>1, <1>3 DEF Safe, Good, PhaseInv, Unready
<1> QED
  BY <1>4, <1>5, <1>6 DEF Good

LEMMA AbortGood ==
  ASSUME Safe, Abort
  PROVE  Good'
<1>1. /\ UNCHANGED <<edit, status, cache, job, installed>>
      /\ pc' = "idle" /\ local'.phase = ""
  BY IdleGood DEF Abort
<1>2. AgeInv'
  BY <1>1 DEF Safe, Good, AgeInv
<1>3. ClaimInv'
  BY <1>1 DEF Safe, Good, ClaimInv, Claims, WantedContent
<1>4. PhaseInv'
  BY <1>1 DEF Safe, Good, PhaseInv, Unready
<1> QED
  BY <1>2, <1>3, <1>4 DEF Good

LEMMA EnvironmentGood ==
  ASSUME Safe, SpecEdit \/ SyncEnv
  PROVE  Good'
<1>1. /\ UNCHANGED <<status, pc, read, local, todo, job, installed>>
      /\ edit \in Nat /\ cache.edit \in Nat /\ status.observed \in Int /\ read.edit \in Nat
      /\ status.observed <= cache.edit /\ cache.edit <= edit
  <2>1. edit \in Nat /\ cache.edit \in Nat /\ read.edit \in Nat
    BY Kept, WorldKept DEF Safe, Copies
  <2>2. status.observed \in -1..MaxEdits
    BY WorldKept, StatusType DEF Safe
  <2>3. status.observed \in Int
    BY <2>2
  <2> QED
    BY <2>1, <2>3 DEF SpecEdit, SyncEnv, passVars, Safe, Good, AgeInv
<1>2. \/ edit' = edit + 1 /\ cache' = cache
      \/ edit' = edit /\ cache'.edit = edit
  BY DEF SpecEdit, SyncEnv
<1>3. AgeInv'
  BY <1>1, <1>2 DEF Safe, Good, AgeInv
<1>4. status.observed = cache'.edit => status.observed = cache.edit
  BY <1>1, <1>2
<1>5. ClaimInv'
  BY <1>1, <1>4 DEF Safe, Good, ClaimInv, Claims, WantedContent, Reset
<1>6. PhaseInv'
  BY <1>1 DEF Safe, Good, PhaseInv, Unready, GivenUp, Reset, Frontier
<1> QED
  BY <1>3, <1>5, <1>6 DEF Good

LEMMA JobGood ==
  ASSUME Safe, NEW c \in Components,
         SyncJob(c) \/ JobGone(c) \/ \E state \in Ended : FinishJob(c, state)
  PROVE  Good'
<1>1. UNCHANGED <<edit, status, cache, pc, read, local, todo>>
  BY DEF SyncJob, JobGone, FinishJob, passVars
<1>2. job \in [Components -> Jobs] /\ job[c] \in Jobs
      /\ installed \in [Components -> Contents \cup {Nothing}]
  BY Kept, WorldKept DEF Safe
<1>3. \A d \in Components : d # c => job'[d] = job[d] /\ installed'[d] = installed[d]
  BY <1>2 DEF SyncJob, JobGone, FinishJob
<1>4. \/ /\ job'[c].state = job[c].state /\ job'[c].content = job[c].content
         /\ installed'[c] = installed[c]
      \/ /\ job[c].state # "succeeded"
         /\ job'[c].state = "succeeded" => installed'[c] = job'[c].content
  <2>1. CASE SyncJob(c)
    BY <1>2, <2>1 DEF SyncJob, Jobs
  <2>2. CASE JobGone(c)
    BY <1>2, <2>2 DEF JobGone, NoJob
  <2>3. ASSUME NEW state \in Ended, FinishJob(c, state)
        PROVE  /\ job[c].state # "succeeded"
               /\ job'[c].state = "succeeded" => installed'[c] = job'[c].content
    BY <1>2, <2>3 DEF FinishJob, Jobs, Ended
  <2> QED
    BY <2>1, <2>2, <2>3
<1>5. ASSUME NEW s, Claims(s)
      PROVE  ClaimsAfter(s)
  BY <1>3, <1>4, <1>5, BackedType DEF Claims, ClaimsAfter
<1>6. AgeInv'
  BY <1>1 DEF Safe, Good, AgeInv
<1>7. \A d \in Components : job'[d].state = "succeeded" => installed'[d] = job'[d].content
  BY <1>3, <1>4 DEF Safe, Good, ClaimInv
<1>8. /\ status.observed = cache.edit => ClaimsAfter(status)
      /\ pc # "idle" => ClaimsAfter(local) /\ ClaimsAfter(Reset(read))
  BY <1>5 DEF Safe, Good, ClaimInv
<1>9. ClaimInv'
  BY <1>1, <1>7, <1>8 DEF ClaimInv, Claims, ClaimsAfter, Reset, WantedContent
<1>10. PhaseInv'
  BY <1>1 DEF Safe, Good, PhaseInv, Unready, GivenUp, Reset, Frontier
<1> QED
  BY <1>6, <1>9, <1>10 DEF Good

LEMMA NextGood ==
  ASSUME SeesOwnWrites, Safe, [Next]_vars
  PROVE  Good'
<1>1. CASE Next
  BY <1>1, BeginGood, BeginFailsGood, SubmitGood, RefusalGood, SubmitFailsGood, SubmitEndGood, ObserveGood,
     ObserveEndGood, CheckGood, CheckOnGood, StepFailsGood, PatchGood, AbortGood,
     EnvironmentGood, JobGood DEF Next, Pass
<1>2. CASE UNCHANGED vars
  <2>1. UNCHANGED <<edit, status, cache, pc, read, local, todo, job, installed>>
    BY <1>2 DEF vars, passVars
  <2>2. AgeInv'
    BY <2>1 DEF Safe, Good, AgeInv
  <2>3. ClaimInv'
    BY <2>1 DEF Safe, Good, ClaimInv, Claims, WantedContent, Reset
  <2>4. PhaseInv'
    BY <2>1 DEF Safe, Good, PhaseInv, Unready, GivenUp, Reset, Frontier
  <2> QED
    BY <2>2, <2>3, <2>4 DEF Good
<1> QED
  BY <1>1, <1>2

\* With its own writes before it, the operator never acts on a status that
\* claims more than was installed.
THEOREM DeployInvariant ==
  ASSUME SeesOwnWrites
  PROVE  Spec => []Safe
<1>1. Init => Safe
  BY InitTyped, InitGood DEF Safe
<1>2. Safe /\ [Next]_vars => Safe'
  BY NextTyped, NextGood DEF Safe
<1> QED
  BY <1>1, <1>2, PTL DEF Spec

\* An environment that says it is ready for the current spec has all its
\* components installed from it.
THEOREM ReadyMeansInstalled ==
  ASSUME SeesOwnWrites
  PROVE  Spec => []ReadyIsInstalled
<1>1. Safe => ReadyIsInstalled
  <2> SUFFICES ASSUME Safe, status.phase = "Ready", status.observed = edit, NEW c \in JobBacked
               PROVE  installed[c] = WantedContent(c, edit)
    BY DEF ReadyIsInstalled
  <2>1. edit \in Nat /\ cache.edit \in Nat /\ status.observed <= cache.edit /\ cache.edit <= edit
    BY Kept, WorldKept DEF Safe, Copies, Good, AgeInv
  <2>2. status.observed = cache.edit
    BY <2>1
  <2>3. Claims(status)
    BY <2>2 DEF Safe, Good, ClaimInv
  <2>4. status.comps[c].phase = "Ready"
    BY BackedType DEF Safe, Good, PhaseInv, Unready
  <2> QED
    BY <2>3, <2>4 DEF Claims
<1> QED
  BY <1>1, DeployInvariant, PTL

\* Only a submission creates or deletes a Job, and only its own.
LEMMA OnlySubmits ==
  ASSUME Safe, Next, NEW c \in Components, JobCreated(c) \/ JobDeleted(c)
  PROVE  pc = "submit" /\ c \in todo
<1>1. job \in [Components -> Jobs]
  BY Kept DEF Safe
<1>2. ASSUME NEW d \in Components, SyncJob(d) \/ JobGone(d) \/ \E state \in Ended : FinishJob(d, state)
      PROVE  FALSE
  <2>1. d # c => job'[c] = job[c]
    BY <1>1, <1>2 DEF SyncJob, JobGone, FinishJob
  <2>2. SyncJob(d) => job'[c].state = job[c].state
    BY <1>1, <2>1 DEF SyncJob, Jobs
  <2>3. d = c /\ JobGone(d) => job[c].state = "deleting" /\ job'[c].state = "absent"
    BY <1>1 DEF JobGone, NoJob
  <2>4. ASSUME d = c, NEW state \in Ended, FinishJob(d, state)
        PROVE  job[c].state = "running" /\ job'[c].state \in Ended
    BY <1>1, <2>4 DEF FinishJob, Jobs
  <2> QED
    BY <1>2, <2>1, <2>2, <2>3, <2>4 DEF JobCreated, JobDeleted, Ended
<1>3. job' # job
  BY DEF JobCreated, JobDeleted
<1>4. PICK d \in Components : Submit(d) /\ SubmitJob(d)
  BY <1>2, <1>3 DEF Next, Pass, Begin, SubmitEnd, ObserveEnd, CheckOn, Patch, Refusal, SubmitRefused,
     ObserveRefused, SubmitFails, Observe, Check, BeginFails, StepFails, Abort, SpecEdit, SyncEnv,
     Submit
<1>5. d # c => job'[c] = job[c]
  BY <1>4, SubmitJobFacts DEF Safe
<1> QED
  BY <1>4, <1>5 DEF Submit, JobCreated, JobDeleted

\* An environment that failed stays failed, and starts or deletes no Job,
\* until its spec changes.
THEOREM FailedStaysFailed ==
  ASSUME SeesOwnWrites
  PROVE  Spec => FailedIsFinal
<1> DEFINE Stays ==
      status.phase = "Failed" /\ status.observed = edit =>
         /\ edit' # edit \/ status'.phase = "Failed"
         /\ \A c \in Components : ~JobCreated(c) /\ ~JobDeleted(c)
<1>1. Safe /\ [Next]_vars => [Stays]_vars
  <2> SUFFICES ASSUME Safe, Next, status.phase = "Failed", status.observed = edit
               PROVE  /\ status'.phase = "Failed"
                      /\ \A c \in Components : ~JobCreated(c) /\ ~JobDeleted(c)
    OBVIOUS
  <2>1. ASSUME pc # "idle"
        PROVE  pc = "patch" /\ local.phase = "Failed" /\ read.status = status
    <3>1. /\ read.status = status /\ status.observed <= read.edit /\ read.edit <= cache.edit
          /\ cache.edit <= edit /\ read.edit \in Nat /\ cache.edit \in Nat /\ edit \in Nat
      BY <2>1, Kept, WorldKept DEF Safe, Copies, Good, AgeInv
    <3>2. status.observed = read.edit
      BY <3>1
    <3>3. GivenUp(Reset(read))
      BY <3>1, <3>2 DEF Reset, GivenUp
    <3> QED
      BY <2>1, <3>1, <3>3 DEF Safe, Good, PhaseInv, GivenUp
  <2>2. CASE Patch
    <3>1. status' = Merged /\ pc # "idle"
      BY <2>2 DEF Patch
    <3>2. Merged = local
      BY <2>1, <3>1, Kept, WorldKept, MergedFacts DEF Safe
    <3> QED
      BY <2>1, <2>2, <3>1, <3>2, OnlySubmits
  <2>3. CASE ~Patch
    <3>1. status' = status
      BY <2>3 DEF Next, Pass, Begin, SubmitEnd, ObserveEnd, CheckOn, Submit, Refusal,
         SubmitRefused, ObserveRefused, SubmitFails, Observe, Check, BeginFails, StepFails, Abort, SpecEdit, SyncEnv, SyncJob, JobGone, FinishJob
    <3> QED
      BY <2>1, <3>1, OnlySubmits
  <2> QED
    BY <2>2, <2>3
<1>2. [][Stays]_vars => FailedIsFinal
  BY DEF FailedIsFinal
<1> QED
  BY <1>1, <1>2, DeployInvariant, PTL DEF Spec

\* A component's Job starts only when everything the component depends on was
\* installed from the generation of the spec that the Job is made from.
THEOREM DependenciesAreFirst ==
  ASSUME SeesOwnWrites
  PROVE  Spec => DependenciesFirst
<1> DEFINE First ==
      \A c \in Components : JobCreated(c) =>
         \A d \in DependsOn[c] \cap JobBacked : installed[d] = WantedContent(d, read.edit)
<1>1. Safe /\ [Next]_vars => [First]_vars
  <2> SUFFICES ASSUME Safe, Next, NEW c \in Components, JobCreated(c),
                      NEW d \in DependsOn[c] \cap JobBacked
               PROVE  installed[d] = WantedContent(d, read.edit)
    OBVIOUS
  <2>1. pc = "submit" /\ c \in todo
    BY OnlySubmits
  <2>2. c \in Frontier(Reset(read))
    BY <2>1 DEF Safe, Good, PhaseInv
  <2>3. /\ d \in Components /\ Level[c] \in Nat /\ Level[d] \in Nat /\ Level[d] < Level[c]
    BY BackedType, ConstantsAssumption
  <2>4. d \notin Unready(Reset(read))
    BY <2>2, <2>3 DEF Frontier
  <2>5. Reset(read).comps[d].phase = "Ready"
    BY <2>3, <2>4 DEF Unready
  <2>6. Claims(Reset(read)) /\ Reset(read).observed = read.edit
    BY <2>1, Kept, ResetFacts DEF Safe, Good, ClaimInv
  <2> QED
    BY <2>5, <2>6 DEF Claims
<1>2. [][First]_vars => DependenciesFirst
  BY DEF DependenciesFirst
<1> QED
  BY <1>1, <1>2, DeployInvariant, PTL DEF Spec

-----------------------------------------------------------------------------
\* The order of the installation, whatever copies the passes read.

\* What status s says was installed once was installed, from some generation.
Backs(s) ==
    \A c \in JobBacked : s.comps[c].phase \in {"Deploying", "Ready"} => installed[c] # Nothing

\* Something of c is in the cluster.
Started(c) == job[c].state # "absent" \/ installed[c] # Nothing

\* Everything on the levels below c was installed at some time.
Founded(c) == \A d \in JobBacked : Level[d] < Level[c] => installed[d] # Nothing

InstalledInOrder == \A c \in Components : Started(c) => Founded(c)

FoundInv ==
    /\ InstalledInOrder
    /\ \A c \in Components : job[c].state = "succeeded" => installed[c] # Nothing
    /\ Backs(status) /\ Backs(cache.status) /\ Backs(read.status) /\ Backs(local)
    /\ pc = "submit" => \A c \in todo : Founded(c)

\* A component whose phase is neither Deploying nor Ready needs no backing.
LEMMA BacksMoved ==
  ASSUME NEW c, NEW s, Backs(local),
         \A d \in Components : d # c => s.comps[d] = local.comps[d],
         c \in JobBacked /\ s.comps[c].phase \in {"Deploying", "Ready"} => installed[c] # Nothing
  PROVE  Backs(s)
  BY BackedType DEF Backs

LEMMA BacksEmpty ==
  ASSUME NEW s, \A c \in Components : s.comps[c].phase = "none"
  PROVE  Backs(s)
  BY BackedType DEF Backs

LEMMA NewStatusBacks == Backs(NewStatus)
<1>1. \A c \in Components : NewStatus.comps[c].phase = "none"
  BY NoComponentsType DEF NewStatus
<1> QED
  BY <1>1, BacksEmpty

LEMMA ResetBacks ==
  ASSUME NEW r \in Copies, Counts(r.status), Backs(r.status)
  PROVE  Backs(Reset(r))
<1>1. CASE r.status.observed = r.edit
  BY <1>1, ResetFacts
<1>2. CASE r.status.observed # r.edit
  BY <1>2, ResetFacts, BacksEmpty
<1> QED
  BY <1>1, <1>2

\* The components before a level that is not ready are ready.
LEMMA FrontierFounded ==
  ASSUME NEW s, Backs(s), NEW c \in Frontier(s)
  PROVE  Founded(c)
<1> SUFFICES ASSUME NEW d \in JobBacked, Level[d] < Level[c]
             PROVE  installed[d] # Nothing
  BY DEF Founded
<1>1. c \in Components /\ d \in Components /\ Level[c] \in Nat /\ Level[d] \in Nat
  BY BackedType, ConstantsAssumption DEF Frontier, Unready
<1>2. d \notin Unready(s)
  BY <1>1 DEF Frontier
<1>3. s.comps[d].phase = "Ready"
  BY <1>1, <1>2 DEF Unready
<1> QED
  BY <1>3 DEF Backs

LEMMA InitFound ==
  ASSUME Init
  PROVE  FoundInv
<1>1. /\ status = NewStatus /\ cache.status = NewStatus /\ read.status = NewStatus
      /\ local = NewStatus /\ pc = "idle"
      /\ \A c \in Components : job[c].state = "absent" /\ installed[c] = Nothing
  BY DEF Init, NoRead, NoJob
<1> QED
  BY <1>1, NewStatusBacks DEF FoundInv, InstalledInOrder, Started

\* A step of the pass that leaves the Jobs alone.
LEMMA StepFound ==
  ASSUME Typed, FoundInv, UNCHANGED <<status, cache, job, installed>>,
         Backs(read'.status), NEW p, NEW s, NEW cs, Continue(p, s, cs), Backs(s),
         p = "submit" => \A c \in cs : Founded(c)
  PROVE  FoundInv'
<1>1. pc' = p /\ local' = s /\ todo' = cs
  BY DEF Continue
<1> QED
  BY <1>1 DEF FoundInv, InstalledInOrder, Started, Founded, Backs

LEMMA BeginFound ==
  ASSUME Typed, FoundInv, Begin
  PROVE  FoundInv'
<1> DEFINE s == Reset(cache)
           d == [s EXCEPT !.phase = "Deploying"]
           e == [s EXCEPT !.phase = "Ready"]
<1>1. read' = cache /\ UNCHANGED <<status, cache, job, installed>>
  BY DEF Begin, Read
<1>2. s \in Statuses /\ Backs(s) /\ Backs(cache.status)
  BY Kept, ResetFacts, ResetBacks DEF FoundInv
<1>3. d.comps = s.comps /\ e.comps = s.comps
  BY <1>2, PhaseFacts
<1>4. Backs(d) /\ Backs(e)
  BY <1>2, <1>3 DEF Backs
<1>5. \A c \in In(s, {"none", "Pending"}) : Founded(c)
  BY <1>2, FrontierFounded DEF In
<1>6. \/ Continue("patch", s, {}) \/ Continue("patch", e, {})
      \/ Continue("submit", d, In(s, {"none", "Pending"}))
      \/ Continue("observe", d, In(s, {"Submitting"}))
      \/ Continue("check", d, In(s, {"Deploying"}))
  BY DEF Begin
<1> HIDE DEF s, d, e
<1> QED
  BY <1>1, <1>2, <1>4, <1>5, <1>6, StepFound

LEMMA BeginFailsFound ==
  ASSUME Typed, FoundInv, BeginFails
  PROVE  FoundInv'
<1>1. read' = cache /\ UNCHANGED <<status, cache, job, installed>>
  BY DEF BeginFails, Read
<1>2. Reset(cache) \in Statuses /\ Backs(Reset(cache)) /\ Backs(cache.status)
  BY Kept, ResetFacts, ResetBacks DEF FoundInv
<1>3. Backs(GiveUp(Reset(cache)))
  BY <1>2, GiveUpFacts DEF Backs
<1> QED
  BY <1>1, <1>2, <1>3, StepFound DEF BeginFails

LEMMA SubmitFound ==
  ASSUME Typed, FoundInv, NEW c \in Components, Submit(c)
  PROVE  FoundInv'
<1>1. pc = "submit" /\ c \in todo /\ UNCHANGED <<status, cache, read, installed>>
  BY DEF Submit
<1>2. local \in Statuses /\ Backs(local) /\ Backs(read.status) /\ Founded(c)
      /\ \A d \in todo : Founded(d)
  BY <1>1, Kept DEF FoundInv
<1>3. CASE SubmitJob(c) /\ Continue(pc, SetPhase(local, c, "Submitting"), todo \ {c})
  <2> DEFINE s == SetPhase(local, c, "Submitting")
  <2>1. s.comps[c].phase = "Submitting" /\ \A d \in Components : d # c => s.comps[d] = local.comps[d]
    BY <1>2, SetPhaseFacts DEF Phases
  <2> HIDE DEF s
  <2>2. pc' = "submit" /\ local' = s /\ todo' = todo \ {c}
    BY <1>1, <1>3 DEF Continue, s
  <2>3. Backs(s)
    BY <1>2, <2>1, BacksMoved
  <2>4. /\ \A d \in Components : d # c => job'[d] = job[d]
        /\ job'[c] = job[c] \/ job'[c].state \in {"running", "deleting"}
    BY <1>3, SubmitJobFacts
  <2>5. InstalledInOrder'
    BY <1>1, <1>2, <2>4 DEF FoundInv, InstalledInOrder, Started, Founded
  <2>6. \A d \in Components : job'[d].state = "succeeded" => installed'[d] # Nothing
    BY <1>1, <2>4 DEF FoundInv
  <2>7. Backs(status)' /\ Backs(cache.status)' /\ Backs(read.status)' /\ Backs(local)'
    BY <1>1, <2>2, <2>3 DEF FoundInv, Backs
  <2>8. (pc = "submit" => \A d \in todo : Founded(d))'
    BY <1>1, <1>2, <2>2 DEF Founded
  <2> QED
    BY <2>5, <2>6, <2>7, <2>8 DEF FoundInv
<1>4. CASE c \in Shared \ Provisioned /\ UNCHANGED job
           /\ Continue(pc, SetReady(local, c), todo \ {c})
  <2>1. \A d \in Components : d # c => SetReady(local, c).comps[d] = local.comps[d]
    BY <1>2, SetReadyFacts
  <2>2. c \notin JobBacked
    BY <1>4 DEF JobBacked, Plain
  <2>3. Backs(SetReady(local, c))
    BY <1>2, <2>1, <2>2, BacksMoved
  <2> QED
    BY <1>1, <1>2, <1>4, <2>3, StepFound
<1> QED
  BY <1>3, <1>4 DEF Submit

\* A component that is charged or fails needs no backing.
LEMMA ChargedBacks ==
  ASSUME Typed, FoundInv, pc \in {"submit", "observe", "check"}, NEW c \in todo
  PROVE  Backs(Charged(c)) /\ Backs(GiveUp(Charged(c)))
<1> DEFINE s == Charged(c)
<1>1. /\ s \in Statuses /\ s.comps[c].phase \in {"Failed", "Pending"}
      /\ \A d \in Components : d # c => s.comps[d] = local.comps[d]
  BY TodoFacts, Kept, ChargedFacts
<1> HIDE DEF s
<1>2. Backs(s)
  BY <1>1, BacksMoved DEF FoundInv
<1>3. Backs(GiveUp(s))
  BY <1>1, <1>2, GiveUpFacts DEF Backs
<1> QED
  BY <1>2, <1>3 DEF s

LEMMA RefusalFound ==
  ASSUME Typed, FoundInv, Refusal
  PROVE  FoundInv'
<1>1. PICK c \in Components : SubmitRefused(c) \/ ObserveRefused(c)
  BY DEF Refusal
<1>2. Backs(local) /\ Backs(read.status)
  BY <1>1 DEF FoundInv, SubmitRefused, ObserveRefused
<1>3. CASE SubmitRefused(c)
  <2>1. \A d \in todo \ {c} : Founded(d)
    BY <1>3 DEF SubmitRefused, FoundInv
  <2> QED
    BY <1>2, <1>3, <2>1, StepFound DEF SubmitRefused
<1>4. CASE ObserveRefused(c)
  BY <1>2, <1>4, StepFound DEF ObserveRefused
<1> QED
  BY <1>1, <1>3, <1>4

LEMMA SubmitFailsFound ==
  ASSUME Typed, FoundInv, NEW c \in Components, SubmitFails(c)
  PROVE  FoundInv'
<1>1. pc = "submit" /\ c \in todo /\ UNCHANGED <<status, cache, read, job, installed>>
  BY DEF SubmitFails
<1>2. local \in Statuses /\ Backs(local) /\ Backs(read.status) /\ \A d \in todo \ {c} : Founded(d)
  BY <1>1, Kept DEF FoundInv
<1> DEFINE s == SetPhase(local, c, "Failed")
<1>3. /\ s \in Statuses /\ s.comps[c].phase = "Failed"
      /\ \A d \in Components : d # c => s.comps[d] = local.comps[d]
  BY <1>2, SetPhaseFacts DEF Phases
<1>4. Continue(pc, GiveUp(s), todo \ {c}) \/ Continue(pc, Charged(c), todo \ {c})
  BY DEF SubmitFails
<1> HIDE DEF s
<1>5. Backs(s)
  BY <1>2, <1>3, BacksMoved
<1>6. Backs(GiveUp(s))
  BY <1>3, <1>5, GiveUpFacts DEF Backs
<1> QED
  BY <1>1, <1>2, <1>4, <1>6, ChargedBacks, StepFound

LEMMA SubmitEndFound ==
  ASSUME Typed, FoundInv, SubmitEnd
  PROVE  FoundInv'
<1> DEFINE before == Reset(read).comps
           Restored(dropped) ==
              [local EXCEPT !.comps = [c \in Components |->
                 IF c \in dropped THEN before[c] ELSE local.comps[c]]]
<1>1. pc = "submit" /\ UNCHANGED <<status, cache, read, job, installed>>
  BY DEF SubmitEnd
<1>2. local \in Statuses /\ Backs(local) /\ Backs(read.status) /\ Backs(Reset(read))
  BY Kept, ResetBacks DEF FoundInv
<1>3. ASSUME NEW dropped
      PROVE  Backs(Restored(dropped))
  <2> DEFINE cs == [c \in Components |-> IF c \in dropped THEN before[c] ELSE local.comps[c]]
             s == Restored(dropped)
  <2>1. s = [local EXCEPT !.comps = cs]
    OBVIOUS
  <2>2. \A c \in Components : cs[c] = before[c] \/ cs[c] = local.comps[c]
    OBVIOUS
  <2> HIDE DEF cs, s
  <2>3. s.comps = cs
    BY <1>2, <2>1, StatusType
  <2>4. Backs(s)
    BY <1>2, <2>2, <2>3, BackedType DEF Backs
  <2> QED
    BY <2>4 DEF s
<1>4. Backs(GiveUp(local))
  BY <1>2, GiveUpFacts DEF Backs
<1>5. \/ \E dropped : Continue("patch", Restored(dropped), {})
      \/ Continue("patch", GiveUp(local), {})
      \/ Continue("patch", local, {})
  BY DEF SubmitEnd
<1> HIDE DEF Restored
<1> QED
  BY <1>1, <1>2, <1>3, <1>4, <1>5, StepFound

LEMMA ObserveFound ==
  ASSUME Typed, FoundInv, NEW c \in Components, Observe(c)
  PROVE  FoundInv'
<1>1. pc = "observe" /\ c \in todo /\ UNCHANGED <<status, cache, read, job, installed>>
  BY DEF Observe
<1>2. local \in Statuses /\ Backs(local) /\ Backs(read.status)
  BY Kept DEF FoundInv
<1>3. CASE Continue(pc, SetPhase(local, c, "Pending"), todo \ {c})
  <2>1. /\ SetPhase(local, c, "Pending").comps[c].phase = "Pending"
        /\ \A d \in Components : d # c => SetPhase(local, c, "Pending").comps[d] = local.comps[d]
    BY <1>2, SetPhaseFacts DEF Phases
  <2>2. Backs(SetPhase(local, c, "Pending"))
    BY <1>2, <2>1, BacksMoved
  <2> QED
    BY <1>1, <1>2, <1>3, <2>2, StepFound
<1>4. CASE /\ "succeeded" \in Verdicts(c)
           /\ Continue(pc, IF c \in Shared THEN SetReady(local, c)
                           ELSE SetPhase(local, c, "Deploying"), todo \ {c})
  <2> DEFINE s == IF c \in Shared THEN SetReady(local, c) ELSE SetPhase(local, c, "Deploying")
  <2>1. \A d \in Components : d # c => s.comps[d] = local.comps[d]
    BY <1>2, SetPhaseFacts, SetReadyFacts DEF Phases
  <2>2. Continue(pc, s, todo \ {c})
    BY <1>4
  <2> HIDE DEF s
  <2>3. job[c].state = "succeeded"
    BY <1>4 DEF Verdicts, Ended
  <2>4. Backs(s)
    BY <1>2, <2>1, <2>3, BacksMoved DEF FoundInv
  <2> QED
    BY <1>1, <1>2, <2>2, <2>4, StepFound
<1>5. CASE \/ Continue(pc, local, todo \ {c}) \/ Continue(pc, Charged(c), todo \ {c})
           \/ Continue(pc, GiveUp(Charged(c)), todo \ {c})
           \/ Continue("patch", GiveUp(Charged(c)), {})
  BY <1>1, <1>2, <1>5, ChargedBacks, StepFound
<1> QED
  BY <1>3, <1>4, <1>5 DEF Observe

LEMMA CheckFound ==
  ASSUME Typed, FoundInv, NEW c \in Components, Check(c)
  PROVE  FoundInv'
<1>1. pc = "check" /\ c \in todo /\ UNCHANGED <<status, cache, read, job, installed>>
  BY DEF Check
<1>2. local \in Statuses /\ Backs(local) /\ Backs(read.status)
  BY Kept DEF FoundInv
<1>3. CASE installed[c] # Nothing /\ Continue(pc, SetReady(local, c), todo \ {c})
  <2>1. \A d \in Components : d # c => SetReady(local, c).comps[d] = local.comps[d]
    BY <1>2, SetReadyFacts
  <2>2. Backs(SetReady(local, c))
    BY <1>2, <1>3, <2>1, BacksMoved
  <2> QED
    BY <1>1, <1>2, <1>3, <2>2, StepFound
<1>4. CASE \/ Continue(pc, Charged(c), todo \ {c})
           \/ Continue("patch", GiveUp(Charged(c)), {})
  BY <1>1, <1>2, <1>4, ChargedBacks, StepFound
<1> QED
  BY <1>3, <1>4 DEF Check

\* The steps that go on with the status the pass has.
LEMMA SameFound ==
  ASSUME Typed, FoundInv, ObserveEnd \/ CheckOn \/ StepFails
  PROVE  FoundInv'
<1>1. pc # "submit" /\ UNCHANGED <<status, cache, read, job, installed>>
  BY DEF ObserveEnd, CheckOn, StepFails
<1>2. Backs(local) /\ Backs(read.status)
  BY DEF FoundInv
<1>3. \E p \in {pc, "check", "patch"} : \E cs : Continue(p, local, cs)
  BY DEF ObserveEnd, CheckOn, StepFails
<1> QED
  BY <1>1, <1>2, <1>3, StepFound

\* The pass ends, with its patch or without.
LEMMA EndFound ==
  ASSUME Typed, FoundInv, Patch \/ Abort
  PROVE  FoundInv'
<1>1. /\ pc' = "idle" /\ read'.status = NewStatus /\ local' = NewStatus
      /\ UNCHANGED <<cache, job, installed>>
  BY DEF Patch, Abort, EndPass, NoRead
<1>2. status'.comps = status.comps \/ status'.comps = local.comps
  <2>1. CASE Patch
    BY <2>1, Kept, WorldKept, MergedFacts DEF Patch
  <2>2. CASE Abort
    BY <2>2 DEF Abort
  <2> QED
    BY <2>1, <2>2
<1>3. Backs(NewStatus)
  BY NewStatusBacks
<1> QED
  BY <1>1, <1>2, <1>3 DEF FoundInv, InstalledInOrder, Started, Founded, Backs

\* Nothing is uninstalled here, so what was founded remains so.
LEMMA FoundStays ==
  ASSUME FoundInv, UNCHANGED <<pc, read, local, todo, status>>,
         cache' = cache \/ cache'.status = status,
         \A c \in Components : installed[c] # Nothing => installed'[c] # Nothing,
         \A c \in Components : Started(c)' => Started(c),
         \A c \in Components : job'[c].state = "succeeded" => installed'[c] # Nothing
  PROVE  FoundInv'
<1>1. InstalledInOrder'
  BY BackedType DEF FoundInv, InstalledInOrder, Founded
<1>2. Backs(status)' /\ Backs(cache.status)' /\ Backs(read.status)' /\ Backs(local)'
  BY BackedType DEF FoundInv, Backs
<1>3. (pc = "submit" => \A c \in todo : Founded(c))'
  BY BackedType DEF FoundInv, Founded
<1> QED
  BY <1>1, <1>2, <1>3 DEF FoundInv

LEMMA EnvironmentFound ==
  ASSUME Typed, FoundInv, SpecEdit \/ SyncEnv
  PROVE  FoundInv'
<1>1. /\ UNCHANGED <<pc, read, local, todo, status, job, installed>>
      /\ cache' = cache \/ cache'.status = status
  BY DEF SpecEdit, SyncEnv, passVars
<1>2. \A c \in Components : job'[c].state = "succeeded" => installed'[c] # Nothing
  BY <1>1 DEF FoundInv
<1> QED
  BY <1>1, <1>2, FoundStays DEF Started

LEMMA JobFound ==
  ASSUME Typed, FoundInv, NEW c \in Components,
         SyncJob(c) \/ JobGone(c) \/ \E state \in Ended : FinishJob(c, state)
  PROVE  FoundInv'
<1>1. UNCHANGED <<pc, read, local, todo, status, cache>>
  BY DEF SyncJob, JobGone, FinishJob, passVars
<1>2. job \in [Components -> Jobs] /\ job[c] \in Jobs /\ job[c].content \in Contents
      /\ installed \in [Components -> Contents \cup {Nothing}]
  BY Kept, WorldKept DEF Jobs
<1>3. \A d \in Components : d # c => job'[d] = job[d] /\ installed'[d] = installed[d]
  BY <1>2 DEF SyncJob, JobGone, FinishJob
<1>4. job[c].content # Nothing
  BY <1>2, ConstantsAssumption DEF Contents, Nothing
<1>5. /\ installed[c] # Nothing => installed'[c] # Nothing
      /\ Started(c)' => Started(c)
      /\ job'[c].state = "succeeded" => installed'[c] # Nothing
  <2>1. CASE SyncJob(c)
    BY <1>2, <2>1 DEF SyncJob, Jobs, Started, FoundInv
  <2>2. CASE JobGone(c)
    BY <1>2, <2>2 DEF JobGone, NoJob, Started
  <2>3. ASSUME NEW state \in Ended, FinishJob(c, state)
        PROVE  /\ installed[c] # Nothing => installed'[c] # Nothing
               /\ job[c].state # "absent"
               /\ job'[c].state = "succeeded" => installed'[c] # Nothing
    BY <1>2, <1>4, <2>3 DEF FinishJob, Jobs, Ended
  <2> QED
    BY <2>1, <2>2, <2>3 DEF Started
<1>6. /\ \A d \in Components : installed[d] # Nothing => installed'[d] # Nothing
      /\ \A d \in Components : Started(d)' => Started(d)
      /\ \A d \in Components : job'[d].state = "succeeded" => installed'[d] # Nothing
  BY <1>3, <1>5 DEF Started, FoundInv
<1> QED
  BY <1>1, <1>6, FoundStays

LEMMA NextFound ==
  ASSUME Typed, FoundInv, [Next]_vars
  PROVE  FoundInv'
<1>1. CASE Next
  BY <1>1, BeginFound, BeginFailsFound, SubmitFound, RefusalFound, SubmitFailsFound, SubmitEndFound,
     ObserveFound, CheckFound, SameFound, EndFound, EnvironmentFound, JobFound DEF Next, Pass
<1>2. CASE UNCHANGED vars
  BY <1>2, FoundStays DEF vars, passVars, Started, FoundInv
<1> QED
  BY <1>1, <1>2

\* Whatever copies its passes read, wherever they are cut short and whenever the
\* spec is edited, the operator never starts or keeps a component on top of one
\* that was never installed: what has a Job, or was installed, stands on levels
\* that were all installed at some time.  A teardown relies on that when it takes
\* what exists to be closed under dependencies (EnvTeardown!Init).
THEOREM LevelsAreFounded == Spec => []InstalledInOrder
<1>1. FoundInv => InstalledInOrder
  BY DEF FoundInv
<1> QED
  BY <1>1, AlwaysTyped, InitFound, NextFound, PTL DEF Spec

=============================================================================
