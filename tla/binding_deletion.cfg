SPECIFICATION FairSpec
CONSTANTS
    a = a
    b = b
    ab = ab
    a12 = a12
    b12 = b12
    Envs = {a}
    Names = {ab, a12}
    Foreign = Foreign
    None = None
    Candidates <- MCCandidates
    Interference = {"TemplateError"}
    MaxFailures = 2
INVARIANTS
    TargetReleased
PROPERTIES
    DeletionCompletes
    EventuallyBound
CHECK_DEADLOCK FALSE
