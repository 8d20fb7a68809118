------------------------- MODULE MCDependencyGraph -------------------------
(***************************************************************************)
(* All templates of up to three components that list up to two             *)
(* dependencies each, with duplicates, unknown names and cycles.           *)
(***************************************************************************)
EXTENDS DependencyGraph

CONSTANTS a, b, c, x

Lists == UNION {[1..n -> {a, b, c, x}] : n \in 0..2}
Component(names) == [name : names, dependsOn : Lists]

\* Names in the order a, b, c, or with a repeated one.
AllTemplates ==
    {<< >>}
    \cup {<<k>> : k \in Component({a})}
    \cup {<<k, l>> : k \in Component({a}), l \in Component({a, b})}
    \cup {<<k, l, m>> : k \in Component({a}), l \in Component({b}), m \in Component({c})}
=============================================================================
