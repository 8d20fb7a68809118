SPECIFICATION FairSpec
CONSTANTS
    e1 = e1
    e2 = e2
    c = c
    Envs = {e1, e2}
    Controller = c
    MaxConsumers = 1
    Disturbances = {}
    MaxFailures = 1
    MaxRetries = 1
    MaxUid = 2
INVARIANTS
    TypeOK
    OneHolder
    CapacityKept
    TurnedAwayByOthers
PROPERTIES
    SharedGoes
    EventuallyAllocated
CHECK_DEADLOCK FALSE
