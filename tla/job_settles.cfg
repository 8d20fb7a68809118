SPECIFICATION FairSpec
CONSTANTS
    o1 = o1
    o2 = o2
    Owners = {o1}
    Versioned = TRUE
    MaxRetries = 2
    MaxEdits = 1
    Uids = {1, 2, 3, 4}
    MaxFailures = 1
PROPERTIES
    Settles
CHECK_DEADLOCK FALSE
