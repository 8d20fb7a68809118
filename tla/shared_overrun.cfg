SPECIFICATION Spec
CONSTANTS
    e1 = e1
    e2 = e2
    c = c
    Envs = {e1, e2}
    Controller = c
    MaxConsumers = 0
    Disturbances = {"Overrun", "LateWrite"}
    MaxFailures = 1
    MaxRetries = 2
    MaxUid = 2
SYMMETRY Symmetry
INVARIANTS
    NoOrphans
    NothingLeaked
    NoRacingJobs
CHECK_DEADLOCK FALSE
