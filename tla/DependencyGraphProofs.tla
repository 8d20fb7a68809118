----------------------- MODULE DependencyGraphProofs -----------------------
(***************************************************************************)
(* Proofs about DependencyGraph: BuildLevels computes the levels, and      *)
(* refuses cycles and nothing else, for templates of any size.  The        *)
(* argument counts the edges that a component still waits for; no          *)
(* induction over the graph is needed, because the loop builds the levels  *)
(* in the order the induction would go.                                    *)
(***************************************************************************)
EXTENDS DependencyGraph, FiniteSetTheorems, SequenceTheorems, TLAPS

-----------------------------------------------------------------------------
\* The dependencies, counted by their places in the list.

\* The template has passed the validation.
WellFormed == ~Duplicated /\ \A c \in NamesOf : DependsOn(c) \subseteq NamesOf

Taken == Visited \cup level

\* The places at which c lists something that was not taken yet.
Left(c) == {j \in 1..Len(Listed(c)) : Listed(c)[j] \notin Taken}

LEMMA ListedType ==
  ASSUME components \in Templates, NEW c \in NamesOf
  PROVE  Listed(c) \in Seq(Names)
<1>1. components \in Seq([name : Names, dependsOn : Seq(Names)])
  BY ConstantsAssumption
<1>2. PICK i \in Indices : components[i].name = c
  BY DEF NamesOf
<1> DEFINE k == CHOOSE k \in {components[j] : j \in Indices} : k.name = c
<1>3. k \in {components[j] : j \in Indices}
  BY <1>2
<1>4. k \in [name : Names, dependsOn : Seq(Names)]
  <2>1. PICK j \in 1..Len(components) : k = components[j]
    BY <1>3 DEF Indices
  <2>2. components[j] \in [name : Names, dependsOn : Seq(Names)]
    BY <1>1, ElementOfSeq
  <2> QED
    BY <2>1, <2>2
<1> QED
  BY <1>4 DEF Listed

LEMMA PlacesFinite ==
  ASSUME components \in Templates, NEW c \in NamesOf
  PROVE  /\ Len(Listed(c)) \in Nat
         /\ IsFiniteSet(1..Len(Listed(c)))
         /\ Cardinality(1..Len(Listed(c))) = Len(Listed(c))
         /\ \A T \in SUBSET (1..Len(Listed(c))) : IsFiniteSet(T) /\ Cardinality(T) \in Nat
<1>1. Len(Listed(c)) \in Nat
  BY ListedType, LenProperties
<1>2. IsFiniteSet(1..Len(Listed(c))) /\ Cardinality(1..Len(Listed(c))) = Len(Listed(c))
  BY <1>1, FS_Interval
<1>3. ASSUME NEW T \in SUBSET (1..Len(Listed(c))) PROVE IsFiniteSet(T) /\ Cardinality(T) \in Nat
  BY <1>2, FS_Subset, FS_CardinalityType
<1> QED
  BY <1>1, <1>2, <1>3

\* All that c depends on was taken when no place is left.
LEMMA LeftEmpty ==
  ASSUME NEW c \in NamesOf
  PROVE  Left(c) = {} <=> DependsOn(c) \subseteq Taken
  BY DEF Left, DependsOn

-----------------------------------------------------------------------------
\* The invariant.

\* The loop runs, or has run to its end.
Built == pc = "running" \/ result \in {"ok", "cycle"}

Stages ==
    /\ pc \in {"start", "running", "done"}
    /\ result \in {"none", "ok", "duplicate", "unknown", "cycle"}
    /\ pc # "done" => result = "none"
    /\ pc = "done" => result # "none"
    /\ ~Built => inDegree = << >> /\ queue = {} /\ level = {} /\ next = {} /\ levels = << >>

\* Whoever is queued, or taken, is a component, and so only once.
Places ==
    /\ queue \subseteq NamesOf /\ level \subseteq NamesOf /\ next \subseteq NamesOf
    /\ levels \in Seq(SUBSET NamesOf)
    /\ queue \cap (Taken \cup next) = {} /\ next \cap Taken = {} /\ level \cap Visited = {}
    /\ \A i, j \in 1..Len(levels) : i # j => levels[i] \cap levels[j] = {}

\* The degrees count what is left, and whoever has nothing left is known.
Counted ==
    /\ inDegree = [c \in NamesOf |-> Cardinality(Left(c))]
    /\ \A c \in NamesOf : Left(c) = {} <=> c \in Taken \cup queue \cup next

Before(i) == UNION {levels[j] : j \in 1..(i - 1)}

\* c belongs right behind the levels in d, which ends with last.
Follows(c, d, last) == DependsOn(c) \subseteq d /\ DependsOn(c) \cap last # {}

\* Each component is behind all it depends on, by one level.
Layered ==
    /\ \A i \in 1..Len(levels) : \A c \in levels[i] :
          /\ DependsOn(c) \subseteq Before(i)
          /\ i > 1 => DependsOn(c) \cap levels[i - 1] # {}
    /\ \A c \in queue \cup level :
          /\ DependsOn(c) \subseteq Visited
          /\ levels # << >> => DependsOn(c) \cap levels[Len(levels)] # {}
    /\ \A c \in next : DependsOn(c) \cap level # {}

Waiting(S) == \A c \in S : DependsOn(c) \cap S # {}

\* Components that wait for each other are never taken.
CyclesLeft == \A S \in SUBSET NamesOf : Waiting(S) => S \cap Taken = {}

Concluded ==
    /\ result = "ok" => Visited = NamesOf
    /\ result = "cycle" => queue = {} /\ level = {} /\ Visited # NamesOf

LevelInv ==
    /\ components \in Templates
    /\ Stages /\ Concluded
    /\ Built => WellFormed /\ Places /\ Counted /\ Layered /\ CyclesLeft

-----------------------------------------------------------------------------
LEMMA LevelInit == Init => LevelInv
  BY DEF Init, LevelInv, Stages, Concluded, Built

\* The operators on the input do not change with the state.
LEMMA InputKept ==
  ASSUME UNCHANGED components
  PROVE  /\ NamesOf' = NamesOf /\ WellFormed' = WellFormed
         /\ \A c : Listed(c)' = Listed(c) /\ DependsOn(c)' = DependsOn(c)
         /\ \A c, d : Edges(d, c)' = Edges(d, c)
         /\ \A S : Waiting(S)' = Waiting(S)
  BY DEF NamesOf, WellFormed, Duplicated, Listed, DependsOn, Edges, Indices, Waiting

\* What keeps the levels, what was taken and the queues keeps all of it.
LEMMA VisitedKept ==
  ASSUME UNCHANGED levels
  PROVE  Visited' = Visited /\ \A i : Before(i)' = Before(i)
  BY DEF Visited, Before

LEMMA LeftKept ==
  ASSUME UNCHANGED components, Taken' = Taken
  PROVE  \A c : Left(c)' = Left(c)
  BY InputKept DEF Left

LEMMA QuietKeeps ==
  ASSUME UNCHANGED <<components, inDegree, queue, level, next, levels>>,
         Places, Counted, Layered, CyclesLeft
  PROVE  Places' /\ Counted' /\ Layered' /\ CyclesLeft'
<1>1. Visited' = Visited /\ Taken' = Taken /\ \A i : Before(i)' = Before(i)
  BY VisitedKept DEF Taken
<1>2. NamesOf' = NamesOf /\ \A c : DependsOn(c)' = DependsOn(c)
  BY InputKept
<1>3. Counted'
  BY <1>1, <1>2, LeftKept DEF Counted
<1>4. Places' /\ Layered'
  BY <1>1, <1>2 DEF Places, Layered
<1>5. CyclesLeft'
  BY <1>1, <1>2, InputKept DEF CyclesLeft
<1> QED
  BY <1>3, <1>4, <1>5

-----------------------------------------------------------------------------
\* The validation and the first queue.
LEMMA StartKeeps ==
  ASSUME LevelInv, Start
  PROVE  LevelInv'
<1>0. components' = components /\ components \in Templates /\ UNCHANGED <<level, next, levels>>
  BY DEF Start, LevelInv
<1>00. /\ result = "none" /\ inDegree = << >> /\ queue = {} /\ level = {} /\ next = {}
       /\ levels = << >> /\ pc = "start" /\ ~Built
  BY DEF Start, LevelInv, Stages, Built
<1>1. ASSUME NEW r \in {"duplicate", "unknown"}, Finish(r), UNCHANGED <<inDegree, queue>>
      PROVE LevelInv'
  BY <1>0, <1>00, <1>1 DEF Finish, LevelInv, Stages, Concluded, Built
<1>2. CASE /\ ~Duplicated
           /\ \A c \in NamesOf : DependsOn(c) \subseteq NamesOf
           /\ pc' = "running"
           /\ inDegree' = [c \in NamesOf |-> CountListed(c)]
           /\ queue' = {c \in NamesOf : Listed(c) = << >>}
           /\ UNCHANGED result
  <2>1. WellFormed' /\ NamesOf' = NamesOf
    BY <1>0, <1>2, InputKept DEF WellFormed
  <2>2. Taken' = {} /\ Visited' = {}
    BY <1>0, <1>00 DEF Taken, Visited
  <2>3. ASSUME NEW c \in NamesOf
        PROVE  /\ Left(c)' = 1..Len(Listed(c)) /\ Len(Listed(c)) \in Nat
               /\ Left(c)' = {} <=> Listed(c) = << >>
    <3>1. Left(c)' = 1..Len(Listed(c))
      BY <1>0, <2>2, InputKept DEF Left
    <3>2. Listed(c) \in Seq(Names)
      BY <1>0, ListedType
    <3>3. Len(Listed(c)) \in Nat
      BY <3>2, LenProperties
    <3>4. Len(Listed(c)) = 0 <=> Listed(c) = << >>
      BY <3>2, EmptySeq
    <3>5. 1..Len(Listed(c)) = {} <=> Len(Listed(c)) = 0
      BY <1>0, PlacesFinite, FS_EmptySet
    <3> QED
      BY <3>1, <3>3, <3>4, <3>5
  <2>4. Places'
    BY <1>0, <1>00, <1>2, <2>1, <2>2 DEF Places
  <2>5. Counted'
    <3>1. \A c \in NamesOf : CountListed(c) = Cardinality(Left(c)')
      BY <1>0, <2>3, PlacesFinite DEF CountListed
    <3> QED
      BY <1>0, <1>00, <1>2, <2>1, <2>2, <2>3, <3>1 DEF Counted
  <2>6. Layered'
    <3>1. \A c \in queue' : DependsOn(c)' = {}
      BY <1>0, <1>2, InputKept DEF DependsOn
    <3> QED
      BY <1>0, <1>00, <3>1 DEF Layered
  <2>7. CyclesLeft'
    BY <2>2 DEF CyclesLeft
  <2> QED
    BY <1>0, <1>00, <1>2, <2>1, <2>4, <2>5, <2>6, <2>7 DEF LevelInv, Stages, Concluded, Built
<1> QED
  BY <1>1, <1>2 DEF Start

-----------------------------------------------------------------------------
\* One component is visited.

\* The edges from d are what is left less when d is taken.
LEMMA EdgesLeave ==
  ASSUME components \in Templates, NEW c \in NamesOf, NEW d, d \notin Taken,
         UNCHANGED components, Taken' = Taken \cup {d}
  PROVE  /\ Cardinality(Left(c)') = Cardinality(Left(c)) - Edges(d, c)
         /\ Edges(d, c) > 0 <=> d \in DependsOn(c)
         /\ Cardinality(Left(c)) = Edges(d, c) <=> Left(c)' = {}
<1> DEFINE at == {j \in 1..Len(Listed(c)) : Listed(c)[j] = d}
<1>1. Left(c)' = Left(c) \ at /\ at \subseteq Left(c)
  BY InputKept DEF Left
<1>2. /\ IsFiniteSet(Left(c)) /\ Cardinality(Left(c)) \in Nat
      /\ IsFiniteSet(at) /\ Cardinality(at) \in Nat
      /\ IsFiniteSet(Left(c)') /\ Cardinality(Left(c)') \in Nat
  BY <1>1, PlacesFinite DEF Left
<1>3. Edges(d, c) = Cardinality(at)
  BY DEF Edges
<1>4. d \in DependsOn(c) <=> at # {}
  BY DEF DependsOn
<1> HIDE DEF at
<1>5. Left(c) \cap at = at
  BY <1>1
<1>6. Cardinality(Left(c)') = Cardinality(Left(c)) - Cardinality(at)
  BY <1>1, <1>2, <1>5, FS_Difference
<1>7. (Cardinality(at) = 0 <=> at = {}) /\ (Cardinality(Left(c)') = 0 <=> Left(c)' = {})
  BY <1>2, FS_EmptySet
<1> QED
  BY <1>2, <1>3, <1>4, <1>6, <1>7

LEMMA VisitKeeps ==
  ASSUME LevelInv, NEW d \in NamesOf, Visit(d)
  PROVE  LevelInv'
<1>0. /\ components' = components /\ components \in Templates /\ levels' = levels
      /\ pc = "running" /\ pc' = "running" /\ result' = result /\ d \in queue
      /\ queue' = queue \ {d} /\ level' = level \cup {d}
      /\ next' = next \cup {c \in NamesOf : Released(d, c)}
      /\ inDegree' = [c \in NamesOf |-> inDegree[c] - Edges(d, c)]
  BY DEF Visit, LevelInv
<1>1. WellFormed /\ Places /\ Counted /\ Layered /\ CyclesLeft
  BY <1>0 DEF LevelInv, Built
<1>2. Visited' = Visited /\ Taken' = Taken \cup {d} /\ \A i : Before(i)' = Before(i)
  BY <1>0, VisitedKept DEF Taken
<1>3. /\ NamesOf' = NamesOf /\ WellFormed' /\ \A c : DependsOn(c)' = DependsOn(c)
  BY <1>0, <1>1, InputKept
<1>4. d \notin Taken /\ d \notin next
  BY <1>0, <1>1 DEF Places
<1>5. ASSUME NEW c \in NamesOf
      PROVE  /\ inDegree[c] - Edges(d, c) = Cardinality(Left(c)')
             /\ Released(d, c) <=> d \in DependsOn(c) /\ Left(c)' = {}
             /\ Left(c)' = {} <=> Left(c) = {} \/ Released(d, c)
             /\ Left(c) = {} => d \notin DependsOn(c)
  <2>1. inDegree[c] = Cardinality(Left(c))
    BY <1>1 DEF Counted
  <2>2. /\ Cardinality(Left(c)') = Cardinality(Left(c)) - Edges(d, c)
        /\ Edges(d, c) > 0 <=> d \in DependsOn(c)
        /\ Cardinality(Left(c)) = Edges(d, c) <=> Left(c)' = {}
    BY <1>0, <1>2, <1>4, EdgesLeave
  <2>3. Left(c) = {} => d \notin DependsOn(c)
    BY <1>4, LeftEmpty
  <2>4. Left(c)' = {} <=> DependsOn(c) \subseteq Taken \cup {d}
    BY <1>0, <1>2, InputKept DEF Left, DependsOn
  <2>5. Left(c)' = {} /\ d \notin DependsOn(c) => Left(c) = {}
    BY <2>4, LeftEmpty
  <2>6. Left(c) = {} => Left(c)' = {}
    BY <2>4, LeftEmpty
  <2> QED
    BY <2>1, <2>2, <2>3, <2>5, <2>6 DEF Released
<1>6. Counted'
  <2>1. inDegree' = [c \in NamesOf |-> Cardinality(Left(c)')]
    BY <1>0, <1>5
  <2>2. ASSUME NEW c \in NamesOf PROVE Left(c)' = {} <=> c \in (Taken \cup queue \cup next)'
    BY <1>0, <1>1, <1>2, <1>5 DEF Counted
  <2> QED
    BY <1>3, <2>1, <2>2 DEF Counted
<1>7. Places'
  <2>1. \A c \in NamesOf : Released(d, c) => Left(c) # {}
    BY <1>5
  <2>2. \A c \in NamesOf : Released(d, c) => c \notin Taken \cup queue \cup next
    BY <1>1, <2>1 DEF Counted
  <2> DEFINE new == {c \in NamesOf : Released(d, c)}
  <2>3. new \subseteq NamesOf /\ new \cap (Taken \cup queue \cup next) = {} /\ next' = next \cup new
    BY <1>0, <2>2
  <2> HIDE DEF new
  <2>4. /\ queue' \cap (Taken \cup next)' = {} /\ next' \cap Taken' = {}
        /\ level' \cap Visited' = {}
    BY <1>0, <1>1, <1>2, <1>4, <2>3 DEF Places, Taken
  <2>5. queue' \subseteq NamesOf' /\ level' \subseteq NamesOf' /\ next' \subseteq NamesOf'
    BY <1>0, <1>1, <1>3, <2>3 DEF Places
  <2> QED
    BY <1>0, <1>1, <1>3, <2>4, <2>5 DEF Places
<1>8. Layered'
  <2>1. \A c \in NamesOf : Released(d, c) => d \in DependsOn(c)
    BY <1>5
  <2> QED
    BY <1>0, <1>1, <1>2, <1>3, <2>1 DEF Layered
<1>9. CyclesLeft'
  <2>1. ASSUME NEW S \in SUBSET NamesOf, Waiting(S) PROVE S \cap (Taken \cup {d}) = {}
    <3>1. S \cap Taken = {}
      BY <1>1, <2>1 DEF CyclesLeft
    <3>2. DependsOn(d) \subseteq Taken
      BY <1>0, <1>1 DEF Layered, Taken
    <3>3. d \notin S
      BY <2>1, <3>1, <3>2 DEF Waiting
    <3> QED
      BY <3>1, <3>3
  <2> QED
    BY <1>0, <1>2, <1>3, <2>1, InputKept DEF CyclesLeft
<1> QED
  BY <1>0, <1>3, <1>6, <1>7, <1>8, <1>9 DEF LevelInv, Stages, Concluded, Built

-----------------------------------------------------------------------------
\* A level is complete.

LEMMA AppendLevel ==
  ASSUME NEW S, levels \in Seq(S), level \in S, levels' = Append(levels, level)
  PROVE  /\ levels' \in Seq(S) /\ levels' # << >>
         /\ Len(levels) \in Nat /\ Len(levels') = Len(levels) + 1
         /\ \A i \in 1..Len(levels) : levels'[i] = levels[i]
         /\ levels'[Len(levels')] = level
         /\ Visited' = Visited \cup level
         /\ \A i \in 1..Len(levels') : Before(i)' = Before(i)
         /\ Before(Len(levels')) = Visited
         /\ (Len(levels) > 0) <=> (levels # << >>)
<1>1. /\ levels' \in Seq(S) /\ levels' # << >>
      /\ Len(levels) \in Nat /\ Len(levels') = Len(levels) + 1
      /\ \A i \in 1..Len(levels) : levels'[i] = levels[i]
      /\ levels'[Len(levels')] = level
  BY AppendProperties, LenProperties
<1>2. Visited' = Visited \cup level
  BY <1>1 DEF Visited
<1>3. \A i \in 1..Len(levels') : Before(i)' = Before(i)
  BY <1>1 DEF Before
<1>4. Before(Len(levels')) = Visited
  BY <1>1 DEF Before, Visited
<1>5. (Len(levels) > 0) <=> (levels # << >>)
  BY EmptySeq
<1> QED
  BY <1>1, <1>2, <1>3, <1>4, <1>5

LEMMA EndLevelKeeps ==
  ASSUME LevelInv, EndLevel
  PROVE  LevelInv'
<1>0. /\ components' = components /\ components \in Templates /\ inDegree' = inDegree
      /\ pc = "running" /\ pc' = "running" /\ result' = result /\ queue = {}
      /\ levels' = Append(levels, level) /\ level' = {} /\ queue' = next /\ next' = {}
  BY DEF EndLevel, LevelInv
<1>1. WellFormed /\ Places /\ Counted /\ Layered /\ CyclesLeft
  BY <1>0 DEF LevelInv, Built
<1>2. level \in SUBSET NamesOf /\ levels \in Seq(SUBSET NamesOf)
  BY <1>1 DEF Places
<1>3. /\ levels' \in Seq(SUBSET NamesOf) /\ levels' # << >>
      /\ Len(levels) \in Nat /\ Len(levels') = Len(levels) + 1
      /\ \A i \in 1..Len(levels) : levels'[i] = levels[i]
      /\ levels'[Len(levels')] = level
      /\ Visited' = Visited \cup level
      /\ \A i \in 1..Len(levels') : Before(i)' = Before(i)
      /\ Before(Len(levels')) = Visited
      /\ (Len(levels) > 0) <=> (levels # << >>)
  BY <1>0, <1>2, AppendLevel
<1>4. Taken' = Taken
  BY <1>0, <1>3 DEF Taken
<1>5. /\ NamesOf' = NamesOf /\ WellFormed' /\ \A c : DependsOn(c)' = DependsOn(c)
  BY <1>0, <1>1, InputKept
<1>6. Counted'
  <2>1. \A c : Left(c)' = Left(c)
    BY <1>0, <1>4, LeftKept
  <2> QED
    BY <1>0, <1>1, <1>4, <1>5, <2>1 DEF Counted
<1>7. Places'
  <2>1. ASSUME NEW i \in 1..Len(levels) PROVE levels[i] \cap level = {}
    BY <1>1 DEF Places, Visited
  <2>2. \A i, j \in 1..Len(levels') : i # j => levels'[i] \cap levels'[j] = {}
    <3> SUFFICES ASSUME NEW i \in 1..Len(levels'), NEW j \in 1..Len(levels'), i # j
                 PROVE  levels'[i] \cap levels'[j] = {}
      OBVIOUS
    <3>1. CASE i \in 1..Len(levels) /\ j \in 1..Len(levels)
      BY <1>1, <1>3, <3>1 DEF Places
    <3>2. CASE i = Len(levels') /\ j \in 1..Len(levels)
      BY <1>3, <2>1, <3>2
    <3>3. CASE j = Len(levels') /\ i \in 1..Len(levels)
      BY <1>3, <2>1, <3>3
    <3> QED
      BY <1>3, <3>1, <3>2, <3>3
  <2>3. /\ queue' \cap (Taken' \cup next') = {} /\ next' \cap Taken' = {}
        /\ level' \cap Visited' = {}
    BY <1>0, <1>1, <1>4 DEF Places
  <2> QED
    BY <1>0, <1>1, <1>3, <1>5, <2>2, <2>3 DEF Places
<1>8. Layered'
  <2>1. ASSUME NEW i \in 1..Len(levels'), NEW c \in levels'[i]
        PROVE  /\ DependsOn(c) \subseteq Before(i)
               /\ i > 1 => DependsOn(c) \cap levels'[i - 1] # {}
    <3>1. CASE i \in 1..Len(levels)
      <4>1. i > 1 => i - 1 \in 1..Len(levels)
        BY <1>3, <3>1
      <4> QED
        BY <1>1, <1>3, <3>1, <4>1 DEF Layered
    <3>2. CASE i = Len(levels')
      <4>1. c \in level
        BY <1>3, <3>2
      <4>2. DependsOn(c) \subseteq Visited
        BY <1>1, <4>1 DEF Layered
      <4>3. i > 1 => levels # << >> /\ i - 1 = Len(levels) /\ levels'[i - 1] = levels[Len(levels)]
        BY <1>3, <3>2
      <4> QED
        BY <1>1, <1>3, <3>2, <4>1, <4>2, <4>3 DEF Layered
    <3> QED
      BY <1>3, <3>1, <3>2
  <2>2. ASSUME NEW c \in next
        PROVE  DependsOn(c) \subseteq Visited' /\ DependsOn(c) \cap level # {}
    <3>1. c \in NamesOf /\ Left(c) = {}
      BY <1>1 DEF Places, Counted
    <3> QED
      BY <1>1, <1>3, <3>1, LeftEmpty DEF Layered, Taken
  <2> QED
    BY <1>0, <1>3, <1>5, <2>1, <2>2 DEF Layered
<1>9. CyclesLeft'
  BY <1>0, <1>1, <1>4, <1>5, InputKept DEF CyclesLeft
<1> QED
  BY <1>0, <1>5, <1>6, <1>7, <1>8, <1>9 DEF LevelInv, Stages, Concluded, Built

-----------------------------------------------------------------------------
LEMMA ConcludeKeeps ==
  ASSUME LevelInv, Conclude
  PROVE  LevelInv'
<1>0. /\ UNCHANGED <<components, inDegree, queue, level, next, levels>>
      /\ pc = "running" /\ pc' = "done" /\ result' \in {"ok", "cycle"} /\ queue = {} /\ level = {}
      /\ result' = "ok" <=> Visited = NamesOf
  BY DEF Conclude, Finish, AllVisited
<1>1. WellFormed /\ Places /\ Counted /\ Layered /\ CyclesLeft /\ components \in Templates
  BY <1>0 DEF LevelInv, Built
<1>2. Places' /\ Counted' /\ Layered' /\ CyclesLeft'
  BY <1>0, <1>1, QuietKeeps
<1>3. WellFormed' /\ NamesOf' = NamesOf /\ Visited' = Visited
  BY <1>0, <1>1, InputKept, VisitedKept
<1> QED
  BY <1>0, <1>1, <1>2, <1>3 DEF LevelInv, Stages, Concluded, Built

LEMMA SameKeeps ==
  ASSUME LevelInv, UNCHANGED vars
  PROVE  LevelInv'
<1>0. UNCHANGED <<components, inDegree, queue, level, next, levels>> /\ UNCHANGED <<pc, result>>
  BY DEF vars
<1>1. WellFormed' = WellFormed /\ NamesOf' = NamesOf /\ Visited' = Visited
  BY <1>0, InputKept, VisitedKept
<1>2. Built => Places' /\ Counted' /\ Layered' /\ CyclesLeft'
  BY <1>0, QuietKeeps DEF LevelInv
<1> QED
  BY <1>0, <1>1, <1>2 DEF LevelInv, Stages, Concluded, Built

LEMMA LevelNext ==
  ASSUME LevelInv, [Next]_vars
  PROVE  LevelInv'
  BY StartKeeps, VisitKeeps, EndLevelKeeps, ConcludeKeeps, SameKeeps DEF Next, Returned

\* The inductive invariant: a component is known to have nothing left exactly
\* when it was queued, and the levels built so far are final.
THEOREM LevelInvariant == Spec => []LevelInv
<1>1. LevelInv /\ [Next]_vars => LevelInv'
  BY LevelNext
<1> QED
  BY <1>1, LevelInit, PTL DEF Spec

-----------------------------------------------------------------------------
\* The state of BuildLevels is well-typed for every template: in particular no
\* degree becomes negative, however often a dependency is listed.
THEOREM LevelsTypeCorrect == Spec => []TypeOK
<1>1. LevelInv => TypeOK
  <2> SUFFICES ASSUME LevelInv PROVE TypeOK
    OBVIOUS
  <2>1. CASE ~Built
    BY <2>1 DEF LevelInv, Stages, TypeOK
  <2>2. CASE Built
    <3>1. ASSUME NEW c \in NamesOf PROVE Cardinality(Left(c)) \in Nat
      BY PlacesFinite DEF LevelInv, Left
    <3>2. \A c \in DOMAIN inDegree : inDegree[c] >= 0
      BY <2>2, <3>1 DEF LevelInv, Counted
    <3>3. \A i \in 1..Len(levels) : levels[i] \subseteq NamesOf
      BY <2>2, ElementOfSeq DEF LevelInv, Places
    <3> QED
      BY <2>2, <3>2, <3>3 DEF LevelInv, Stages, Places, TypeOK
  <2> QED
    BY <2>1, <2>2
<1> QED
  BY <1>1, LevelInvariant, PTL

\* The levels BuildLevels returns are a partition of the components in which
\* each is behind all it depends on, and no later than that requires, for every
\* template.
THEOREM LevelsAreExact == Spec => []LevelsExact
<1>1. LevelInv => LevelsExact
  <2> SUFFICES ASSUME LevelInv, result = "ok" PROVE LevelsExact
    BY DEF LevelsExact
  <2>1. Visited = NamesOf /\ WellFormed /\ Places /\ Layered
    BY DEF LevelInv, Concluded, Built
  <2>2. ASSUME NEW c \in NamesOf
        PROVE  /\ LevelOf(c) \in 1..Len(levels) /\ c \in levels[LevelOf(c)]
               /\ \A i \in 1..Len(levels) : c \in levels[i] => i = LevelOf(c)
    <3>1. \E i \in 1..Len(levels) : c \in levels[i]
      BY <2>1 DEF Visited
    <3>2. LevelOf(c) \in 1..Len(levels) /\ c \in levels[LevelOf(c)]
      BY <3>1 DEF LevelOf
    <3> QED
      BY <2>1, <3>2 DEF Places
  <2>3. Len(levels) \in Nat
    BY <2>1, LenProperties DEF Places
  <2>4. ASSUME NEW c \in NamesOf
        PROVE  /\ \A i \in {LevelOf(d) : d \in DependsOn(c)} : i < LevelOf(c)
               /\ LevelOf(c) = 1 \/ LevelOf(c) - 1 \in {LevelOf(d) : d \in DependsOn(c)}
    <3>1. /\ DependsOn(c) \subseteq Before(LevelOf(c))
          /\ LevelOf(c) > 1 => DependsOn(c) \cap levels[LevelOf(c) - 1] # {}
      BY <2>1, <2>2 DEF Layered
    <3>2. DependsOn(c) \subseteq NamesOf
      BY <2>1 DEF WellFormed
    <3>3. ASSUME NEW d \in DependsOn(c) PROVE LevelOf(d) < LevelOf(c)
      <4>1. PICK j \in 1..(LevelOf(c) - 1) : d \in levels[j]
        BY <3>1 DEF Before
      <4>2. j \in 1..Len(levels) /\ j < LevelOf(c)
        BY <2>2, <2>3
      <4>3. j = LevelOf(d)
        BY <2>2, <3>2, <4>1, <4>2
      <4> QED
        BY <4>2, <4>3
    <3>4. ASSUME LevelOf(c) # 1 PROVE \E d \in DependsOn(c) : LevelOf(c) - 1 = LevelOf(d)
      <4>1. LevelOf(c) > 1 /\ LevelOf(c) - 1 \in 1..Len(levels)
        BY <2>2, <2>3, <3>4
      <4>2. PICK d \in DependsOn(c) : d \in levels[LevelOf(c) - 1]
        BY <3>1, <4>1
      <4> QED
        BY <2>2, <3>2, <4>1, <4>2
    <3> QED
      BY <3>3, <3>4
  <2> QED
    BY <2>1, <2>4 DEF LevelsExact, Places
<1> QED
  BY <1>1, LevelInvariant, PTL

\* A template that passes the validation is refused exactly when some of its
\* components wait for each other, for every template.
THEOREM OnlyCyclesRefused == Spec => []CycleRefused
<1>1. LevelInv => CycleRefused
  <2> SUFFICES ASSUME LevelInv, pc = "done", result \in {"ok", "cycle"}
               PROVE  result = "cycle" <=> Cyclic
    BY DEF CycleRefused
  <2>1. WellFormed /\ Places /\ Counted /\ Layered /\ CyclesLeft /\ Concluded
    BY DEF LevelInv, Built
  <2>2. ASSUME result = "ok" PROVE ~Cyclic
    <3>1. Taken = NamesOf
      BY <2>1, <2>2 DEF Concluded, Taken, Places
    <3>2. \A S \in SUBSET NamesOf : Waiting(S) => S = {}
      BY <2>1, <3>1 DEF CyclesLeft
    <3> QED
      BY <3>2 DEF Cyclic, Waiting
  <2>3. ASSUME result = "cycle" PROVE Cyclic
    <3>1. queue = {} /\ level = {} /\ Visited # NamesOf
      BY <2>1, <2>3 DEF Concluded
    <3>2. next = {} /\ Taken = Visited
      BY <2>1, <3>1 DEF Layered, Taken
    <3>3. Visited \subseteq NamesOf
      BY <2>1, ElementOfSeq DEF Places, Visited
    <3> DEFINE S == NamesOf \ Visited
    <3>4. S # {} /\ S \subseteq NamesOf
      BY <3>1, <3>3
    <3>5. ASSUME NEW c \in S PROVE DependsOn(c) \cap S # {}
      <4>1. Left(c) # {}
        BY <2>1, <3>1, <3>2 DEF Counted
      <4>2. PICK d \in DependsOn(c) : d \notin Taken
        BY <4>1, LeftEmpty
      <4>3. d \in NamesOf
        BY <2>1 DEF WellFormed
      <4> QED
        BY <3>2, <4>2, <4>3
    <3> QED
      BY <3>4, <3>5 DEF Cyclic
  <2> QED
    BY <2>2, <2>3
<1> QED
  BY <1>1, LevelInvariant, PTL

-----------------------------------------------------------------------------
\* What EnvDeploy and EnvTeardown take for granted of their levels.

\* R contains the dependencies and is transitive.
Covers(R) ==
    /\ \A c \in NamesOf : \A d \in DependsOn(c) : <<c, d>> \in R
    /\ \A b, c, d \in NamesOf : <<b, c>> \in R /\ <<c, d>> \in R => <<b, d>> \in R

\* What c depends on, directly or not.
Needs(c) == {d \in NamesOf : \A R \in SUBSET (NamesOf \X NamesOf) : Covers(R) => <<c, d>> \in R}

\* The pairs that the levels put in order.
Behind == {p \in NamesOf \X NamesOf : LevelOf(p[2]) < LevelOf(p[1])}

LEMMA NamesFinite ==
  ASSUME components \in Templates
  PROVE  IsFiniteSet(NamesOf)
<1> DEFINE name == [i \in Indices |-> components[i].name]
<1>1. components \in Seq([name : Names, dependsOn : Seq(Names)])
  BY ConstantsAssumption
<1>2. Len(components) \in Nat
  BY <1>1, LenProperties
<1>3. IsFiniteSet(Indices)
  BY <1>2, FS_Interval DEF Indices
<1>4. name \in Surjection(Indices, NamesOf)
  BY DEF NamesOf, Surjection
<1> HIDE DEF name
<1> QED
  BY <1>3, <1>4, FS_Surjection

\* When BuildLevels returns levels, they and the dependencies of the template
\* are constants as EnvDeploy (direct dependencies) and EnvTeardown (direct or
\* not) assume them: finite, transitive, every dependency on a lower level.
THEOREM LevelsServe ==
  Spec => [](result = "ok" =>
                /\ IsFiniteSet(NamesOf)
                /\ \A c \in NamesOf :
                      /\ LevelOf(c) \in Nat \ {0}
                      /\ DependsOn(c) \subseteq Needs(c)
                      /\ \A d \in Needs(c) : LevelOf(d) < LevelOf(c) /\ Needs(d) \subseteq Needs(c))
<1>1. ASSUME LevelInv, LevelsExact, result = "ok"
      PROVE  /\ IsFiniteSet(NamesOf)
             /\ \A c \in NamesOf :
                   /\ LevelOf(c) \in Nat \ {0}
                   /\ DependsOn(c) \subseteq Needs(c)
                   /\ \A d \in Needs(c) : LevelOf(d) < LevelOf(c) /\ Needs(d) \subseteq Needs(c)
  <2>1. Visited = NamesOf /\ WellFormed /\ Places
    BY <1>1 DEF LevelInv, Concluded, Built
  <2>2. Len(levels) \in Nat
    BY <2>1, LenProperties DEF Places
  <2>3. ASSUME NEW c \in NamesOf PROVE LevelOf(c) \in Nat \ {0}
    <3>1. \E i \in 1..Len(levels) : c \in levels[i]
      BY <2>1 DEF Visited
    <3>2. LevelOf(c) \in 1..Len(levels)
      BY <3>1 DEF LevelOf
    <3> QED
      BY <2>2, <3>2
  <2>4. ASSUME NEW c \in NamesOf, NEW d \in DependsOn(c) PROVE d \in NamesOf /\ LevelOf(d) < LevelOf(c)
    BY <1>1, <2>1, <2>4 DEF LevelsExact, WellFormed
  <2>5. Covers(Behind)
    BY <2>3, <2>4 DEF Covers, Behind
  <2>6. ASSUME NEW c \in NamesOf, NEW d \in Needs(c) PROVE d \in NamesOf /\ LevelOf(d) < LevelOf(c)
    <3>1. d \in NamesOf /\ Behind \in SUBSET (NamesOf \X NamesOf)
      BY DEF Needs, Behind
    <3>2. <<c, d>> \in Behind
      BY <2>5, <3>1 DEF Needs
    <3> QED
      BY <3>1, <3>2 DEF Behind
  <2>7. ASSUME NEW c \in NamesOf PROVE DependsOn(c) \subseteq Needs(c)
    BY <2>4 DEF Needs, Covers
  <2>8. ASSUME NEW c \in NamesOf, NEW d \in Needs(c) PROVE Needs(d) \subseteq Needs(c)
    BY <2>6 DEF Needs, Covers
  <2>9. IsFiniteSet(NamesOf)
    BY <1>1, NamesFinite DEF LevelInv
  <2> QED
    BY <2>3, <2>6, <2>7, <2>8, <2>9
<1> QED
  BY <1>1, LevelInvariant, LevelsAreExact, PTL

=============================================================================
