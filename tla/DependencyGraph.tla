-------------------------- MODULE DependencyGraph --------------------------
(***************************************************************************)
(* BuildLevels: the components of a template are split into levels by      *)
(* Kahn's algorithm.  A level is a set here (the order within one has no   *)
(* meaning to its users); its members are taken from the queue in any      *)
(* order, of which the code's is one.                                      *)
(***************************************************************************)
EXTENDS Integers, Sequences, FiniteSets

CONSTANTS Names,     \* of components, and what they may list
          Templates  \* sequences of [name, dependsOn], dependsOn a sequence

ASSUME ConstantsAssumption == Templates \subseteq Seq([name : Names, dependsOn : Seq(Names)])

VARIABLES
    components,  \* the input
    pc,          \* "start", "running", "done"
    result,      \* "none", "ok" or the kind of error
    inDegree,    \* dependencies of a component that were not visited yet
    queue,       \* what is left of the current level
    level,       \* what was taken from it
    next,        \* the level after it
    levels       \* the levels built so far

vars == <<components, pc, result, inDegree, queue, level, next, levels>>

Indices == 1..Len(components)
NamesOf == {components[i].name : i \in Indices}

\* dependsOn of a component, as a sequence and as a set.
Listed(c) == (CHOOSE k \in {components[i] : i \in Indices} : k.name = c).dependsOn
DependsOn(c) == {Listed(c)[j] : j \in 1..Len(Listed(c))}

\* How often adjacency[d] lists c: once for each time c lists d.
Edges(d, c) == Cardinality({j \in 1..Len(Listed(c)) : Listed(c)[j] = d})

TypeOK ==
    /\ pc \in {"start", "running", "done"}
    /\ result \in {"none", "ok", "duplicate", "unknown", "cycle"}
    /\ \A c \in DOMAIN inDegree : inDegree[c] >= 0
    /\ queue \subseteq NamesOf /\ level \subseteq NamesOf /\ next \subseteq NamesOf
    /\ \A i \in 1..Len(levels) : levels[i] \subseteq NamesOf

Init ==
    /\ components \in Templates
    /\ pc = "start"
    /\ result = "none"
    /\ inDegree = << >>
    /\ queue = {} /\ level = {} /\ next = {}
    /\ levels = << >>

Finish(r) == pc' = "done" /\ result' = r

\* Two components of one name.
Duplicated == \E i, j \in Indices : i # j /\ components[i].name = components[j].name

\* Mutant: a dependency counts once, however often it is listed.
CountOnce(c) == Cardinality(DependsOn(c))

CountListed(c) == Len(Listed(c))

\* The validation, the degrees and the first queue.
Start ==
    /\ pc = "start"
    /\ \/ Duplicated /\ Finish("duplicate") /\ UNCHANGED <<inDegree, queue>>
       \/ /\ ~Duplicated
          /\ \E c \in NamesOf : ~(DependsOn(c) \subseteq NamesOf)
          /\ Finish("unknown")
          /\ UNCHANGED <<inDegree, queue>>
       \/ /\ ~Duplicated
          /\ \A c \in NamesOf : DependsOn(c) \subseteq NamesOf
          /\ pc' = "running"
          /\ inDegree' = [c \in NamesOf |-> CountListed(c)]
          /\ queue' = {c \in NamesOf : Listed(c) = << >>}
          /\ UNCHANGED result
    /\ UNCHANGED <<components, level, next, levels>>

\* Mutant: a component is released by its first dependency.
ReleasedByAny(d, c) == Edges(d, c) > 0

\* The decrement that reaches zero.
Released(d, c) == Edges(d, c) > 0 /\ inDegree[c] = Edges(d, c)

\* The next name of the level: its dependents lose an edge each time they
\* list it, and those that reach zero are queued.
Visit(d) ==
    /\ pc = "running"
    /\ d \in queue
    /\ queue' = queue \ {d}
    /\ level' = level \cup {d}
    /\ inDegree' = [c \in NamesOf |-> inDegree[c] - Edges(d, c)]
    /\ next' = next \cup {c \in NamesOf : Released(d, c)}
    /\ UNCHANGED <<components, pc, result, levels>>

\* The level is complete.
EndLevel ==
    /\ pc = "running"
    /\ queue = {} /\ level # {}
    /\ levels' = Append(levels, level)
    /\ level' = {} /\ queue' = next /\ next' = {}
    /\ UNCHANGED <<components, pc, result, inDegree>>

Visited == UNION {levels[i] : i \in 1..Len(levels)}

\* Mutant: what was not visited is not missed.
AllOfSome == Visited # {} \/ NamesOf = {}

AllVisited == Visited = NamesOf

\* Nothing is queued: either everything was visited or there is a cycle.
Conclude ==
    /\ pc = "running"
    /\ queue = {} /\ level = {}
    /\ Finish(IF AllVisited THEN "ok" ELSE "cycle")
    /\ UNCHANGED <<components, inDegree, queue, level, next, levels>>

\* The function has returned.
Returned == pc = "done" /\ UNCHANGED vars

Next == Start \/ (\E d \in NamesOf : Visit(d)) \/ EndLevel \/ Conclude \/ Returned

Spec == Init /\ [][Next]_vars

-----------------------------------------------------------------------------
\* The reference: what levels should be.

LevelOf(c) == CHOOSE i \in 1..Len(levels) : c \in levels[i]

\* Some components wait for each other.
Cyclic ==
    \E S \in SUBSET NamesOf : S # {} /\ \A c \in S : DependsOn(c) \cap S # {}

\* On success every component is in exactly one level, after all it depends
\* on, and as early as that allows: deploying level by level is both safe and
\* as parallel as it can be, whatever is listed twice (BuildLevels).
LevelsExact ==
    result = "ok" =>
        /\ Visited = NamesOf
        /\ \A i, j \in 1..Len(levels) : i # j => levels[i] \cap levels[j] = {}
        /\ \A c \in NamesOf :
              LET before == {LevelOf(d) : d \in DependsOn(c)}
              IN  /\ \A i \in before : i < LevelOf(c)
                  /\ LevelOf(c) = 1 \/ LevelOf(c) - 1 \in before

\* A template is refused for a cycle exactly when it has one.
CycleRefused == pc = "done" => (result = "cycle" <=> result \in {"ok", "cycle"} /\ Cyclic)
=============================================================================
