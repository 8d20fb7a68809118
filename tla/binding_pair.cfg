SPECIFICATION Spec
CONSTANTS
    a = a
    b = b
    ab = ab
    a12 = a12
    b12 = b12
    Envs = {a, b}
    Names = {ab, a12, b12}
    Foreign = Foreign
    None = None
    Candidates <- MCCandidates
    Interference = {}
    MaxFailures = 0
INVARIANTS
    TypeOK
    DistinctBinding
    BindingBacked
PROPERTIES
    ImplementsAssignment
CHECK_DEADLOCK FALSE
