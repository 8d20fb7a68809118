---------------------------- MODULE MCEnvDeploy ----------------------------
(***************************************************************************)
(* Instances of EnvDeploy: in the first level a plain component and a      *)
(* shared one that is not provisioned, in the second a provisioned shared  *)
(* one that depends on both; or two plain components.                      *)
(***************************************************************************)
EXTENDS EnvDeploy

CONSTANTS db, cache1, app

Tree ==
    [c \in Components |-> IF c = app THEN Components \ {app} ELSE {}]

Levels == [c \in Components |-> IF c = app THEN 2 ELSE 1]

\* Every edit changes the rendered options.
EveryEdit == [e \in 0..MaxEdits |-> e]
=============================================================================
