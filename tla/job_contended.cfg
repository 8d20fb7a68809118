SPECIFICATION Spec
CONSTANTS
    o1 = o1
    o2 = o2
    Owners = {o1, o2}
    Versioned = FALSE
    MaxRetries = 2
    MaxEdits = 1
    Uids = {1, 2, 3, 4, 5}
    MaxFailures = 1
SYMMETRY Symmetry
INVARIANTS
    TypeOK
    
PROPERTIES
    RunningJobKept
    ReadyIsCurrent
CHECK_DEADLOCK FALSE
