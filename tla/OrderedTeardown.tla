--------------------------- MODULE OrderedTeardown ---------------------------
(***************************************************************************)
(* What a user may rely on when an environment is deleted: a component is  *)
(* touched only after everything that uses it is gone, what is gone stays  *)
(* gone, and the end is announced once, when all is gone or when the       *)
(* template, which alone says what there is to remove, has disappeared.    *)
(***************************************************************************)
CONSTANTS Components,
          Users          \* the components that go before a component

VARIABLES
    progress,   \* how far each component is
    described,  \* does the template exist?
    finished    \* was the end announced?

vars == <<progress, described, finished>>

TypeOK ==
    /\ progress \in [Components -> {"up", "leaving", "gone"}]
    /\ described \in BOOLEAN
    /\ finished \in BOOLEAN

Init ==
    /\ progress = [c \in Components |-> "up"]
    /\ described = TRUE
    /\ finished = FALSE

AllGone(cs) == \A c \in cs : progress[c] = "gone"

\* The removal of a component begins.
Leave(c) ==
    /\ ~finished
    /\ progress[c] = "up" /\ AllGone(Users[c])
    /\ progress' = [progress EXCEPT ![c] = "leaving"]
    /\ UNCHANGED <<described, finished>>

\* A component is gone: removed, given up, or never there.
Go(c) ==
    /\ ~finished
    /\ progress[c] # "gone" /\ AllGone(Users[c])
    /\ progress' = [progress EXCEPT ![c] = "gone"]
    /\ UNCHANGED <<described, finished>>

\* Somebody deletes the template.
Forget == described /\ described' = FALSE /\ UNCHANGED <<progress, finished>>

Finish ==
    /\ ~finished
    /\ AllGone(Components) \/ ~described
    /\ finished' = TRUE
    /\ UNCHANGED <<progress, described>>

Next == (\E c \in Components : Leave(c) \/ Go(c)) \/ Forget \/ Finish

Spec == Init /\ [][Next]_vars
=============================================================================
