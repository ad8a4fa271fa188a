SPECIFICATION Spec
CONSTANTS
    Users = {1}
    Runners = {r1}
    Dispatchers = {d1}
    r1 = r1
    r2 = r2
    d1 = d1
    d2 = d2
    None = None
    AllUsers = FALSE
    Flags = {"create", "update", "deactivate", "delete"}
    OnUnassign = "deactivate"
    OnDelete = "delete"
    Grace = 1
    Guards <- MCGuards
    Unset = Unset
    Limit = 1
    Threshold = 1
    MaxAttempts = 2
    MaxClock = 3
    MaxJobs = 2
    MaxDisturbances = 2
INVARIANTS
    TypeOK
    GraceHonoured
    ResyncCompletes
CHECK_DEADLOCK FALSE
PROPERTIES
    CancelledIsFinal
