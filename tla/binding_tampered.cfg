SPECIFICATION Spec
CONSTANTS
    a = a
    b = b
    ab = ab
    a12 = a12
    b12 = b12
    Envs = {a}
    Names = {ab, a12}
    Foreign = Foreign
    None = None
    Candidates <- MCCandidates
    Interference = {"SpecEdit", "ForeignCreate", "NamespaceDelete", "Relabel"}
    MaxFailures = 1
INVARIANTS
    WorkUnderBinding
    NothingOwed
PROPERTIES
    DeletesOwnAndClean
    AssignmentLocked
CHECK_DEADLOCK FALSE
