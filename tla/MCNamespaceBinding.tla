------------------------- MODULE MCNamespaceBinding -------------------------
(***************************************************************************)
(* Instances of NamespaceBinding for TLC.  The environments a and b have   *)
(* UIDs whose digests share the shortest prefix, "ab", and differ in the   *)
(* next one: the collision allocateNamespace exists for.                   *)
(***************************************************************************)
EXTENDS NamespaceBinding

CONSTANTS a, b, ab, a12, b12

MCCandidates == [e \in Envs |-> <<ab, IF e = a THEN a12 ELSE b12>>]
=============================================================================
