SPECIFICATION FairSpec
CONSTANTS
    db = db
    queue = queue
    app = app
    Components = {db, queue, app}
    Shared = {queue}
    DependsOn <- Chain
    Level <- Levels
    Order <- SharedOrder
    Strangers = {queue}
    SeesOwnWrites = TRUE
    MaxRetries = 2
    MaxFailures = 1
INVARIANTS
    TypeOK
    AllocationsReleased
    ReleasesRemoved
    NothingLeft
    JobsEquipped
PROPERTIES
    ImplementsTeardown
    TeardownCompletes
CHECK_DEADLOCK FALSE
