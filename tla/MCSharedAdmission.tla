------------------------- MODULE MCSharedAdmission -------------------------
(***************************************************************************)
(* Instances of SharedAdmission: two environments and one component        *)
(* name.                                                                   *)
(***************************************************************************)
EXTENDS SharedAdmission, TLC

CONSTANTS e1, e2, c

Symmetry == Permutations(Envs)
=============================================================================
