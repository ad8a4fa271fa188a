SPECIFICATION Spec
CONSTANTS
    Users = {1}
    Runners = {r1}
    Dispatchers = {d1}
    r1 = r1
    r2 = r2
    d1 = d1
    d2 = d2
    None = None
    AllUsers = FALSE
    Flags = {"create", "update", "deactivate", "delete"}
    OnUnassign = "deactivate"
    OnDelete = "none"
    Grace = 0
    Guards <- Unguarded
    Unset = Unset
    Limit = 1
    Threshold = 1
    MaxAttempts = 2
    MaxClock = 3
    MaxJobs = 2
    MaxDisturbances = 2
PROPERTIES
    SucceededStays
CHECK_DEADLOCK FALSE
