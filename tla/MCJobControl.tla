---------------------------- MODULE MCJobControl ----------------------------
(***************************************************************************)
(* Instances of JobControl: one owner, or two that contend for a name.     *)
(***************************************************************************)
EXTENDS JobControl, TLC

CONSTANTS o1, o2

Symmetry == Permutations(Owners)
=============================================================================
