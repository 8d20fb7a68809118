SPECIFICATION FairSpec
CONSTANTS
    db = db
    cache1 = cache1
    app = app
    Components = {db, cache1, app}
    Shared = {cache1, app}
    Provisioned = {app}
    DependsOn <- Tree
    Level <- Levels
    Content <- EveryEdit
    SeesOwnWrites = TRUE
    MaxRetries = 2
    MaxEdits = 1
    MaxFailures = 1
INVARIANTS
    TypeOK
    ReadyIsInstalled
PROPERTIES
    DependenciesFirst
    FailedIsFinal
    EventuallySettled
CHECK_DEADLOCK FALSE
