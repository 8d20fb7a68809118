--------------------------- MODULE MCEnvTeardown ---------------------------
(***************************************************************************)
(* An instance of EnvTeardown: a plain component, a shared one that is     *)
(* provisioned in it, and one that uses the shared one.                    *)
(***************************************************************************)
EXTENDS EnvTeardown

CONSTANTS db, queue, app

Chain ==
    [c \in Components |->
        IF c = app THEN Components \ {app} ELSE IF c = queue THEN {db} ELSE {}]

Levels == [c \in Components |-> IF c = app THEN 3 ELSE IF c = queue THEN 2 ELSE 1]

SharedOrder == <<queue>>
=============================================================================
