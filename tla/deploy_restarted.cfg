SPECIFICATION Spec
CONSTANTS
    db = db
    cache1 = cache1
    app = app
    Components = {db, app}
    Shared = {}
    Provisioned = {}
    DependsOn <- Tree
    Level <- Levels
    Content <- EveryEdit
    SeesOwnWrites = FALSE
    MaxRetries = 2
    MaxEdits = 1
    MaxFailures = 0
INVARIANTS
    ReadyIsInstalled
CHECK_DEADLOCK FALSE
