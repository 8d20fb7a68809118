------------------------- MODULE NamespaceAssignment -------------------------
(***************************************************************************)
(* What an EphemeralEnvironment promises about its workload namespace,     *)
(* without reconcilers, caches or API conflicts: the assignment is         *)
(* persisted, may move only while the environment is not bound, is locked  *)
(* by NamespaceBound, and a bound record is released only after its        *)
(* cleanup checkpoint.  NamespaceBinding implements this specification.    *)
(***************************************************************************)
CONSTANTS Envs,         \* EphemeralEnvironments, one UID each
          Names,        \* namespace names
          Allowed,      \* Allowed[e]: the digest prefixes of e's UID
          None          \* status.targetNamespace not assigned yet

VARIABLE record         \* record[e]: the persisted EphemeralEnvironment

vars == record

Lives == {"new", "live", "deleting", "gone"}

\* The persisted fields that decide which namespace the environment uses.
Records == [life : Lives, target : Names \cup {None}, bound : BOOLEAN, cleanup : BOOLEAN]

Fresh == [life |-> "new", target |-> None, bound |-> FALSE, cleanup |-> FALSE]

Init == record = [e \in Envs |-> Fresh]

\* The controller installs its finalizer.
Adopt(e) ==
    /\ record[e].life = "new"
    /\ record' = [record EXCEPT ![e].life = "live"]

\* The candidate namespace is persisted, or moved while it is only a candidate.
Assign(e) ==
    /\ record[e].life = "live"
    /\ ~record[e].bound
    /\ \E n \in Allowed[e] : record' = [record EXCEPT ![e].target = n]

\* The assignment is locked.
Bind(e) ==
    /\ record[e].life = "live"
    /\ record[e].target # None
    /\ record' = [record EXCEPT ![e].bound = TRUE]

\* Deletion is requested: by a user, or by the TTL.
Delete(e) ==
    /\ \/ /\ record[e].life = "new"
          /\ record' = [record EXCEPT ![e].life = "gone"]
       \/ /\ record[e].life = "live"
          /\ record' = [record EXCEPT ![e].life = "deleting"]

\* Cleanup of the workloads is recorded.
Checkpoint(e) ==
    /\ record[e].life = "deleting"
    /\ record[e].target # None
    /\ record' = [record EXCEPT ![e].cleanup = TRUE]

\* The finalizer goes, and the record with it.
Release(e) ==
    /\ record[e].life = "deleting"
    /\ record[e].bound => record[e].cleanup
    /\ record' = [record EXCEPT ![e].life = "gone"]

Next == \E e \in Envs :
    Adopt(e) \/ Assign(e) \/ Bind(e) \/ Delete(e) \/ Checkpoint(e) \/ Release(e)

Spec == Init /\ [][Next]_vars
=============================================================================
