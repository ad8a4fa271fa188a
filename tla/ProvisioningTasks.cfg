SPECIFICATION Spec
CONSTANTS
    Users = {1}
    Runners = {r1, r2}
    Dispatchers = {d1, d2}
    r1 = r1
    r2 = r2
    d1 = d1
    d2 = d2
    None = None
    AllUsers = FALSE
    Flags = {"create", "update"}
    OnUnassign = "deactivate"
    OnDelete = "none"
    Grace = 0
    Guards <- Unguarded
    Unset = Unset
    Limit = 1
    Threshold = 1
    MaxAttempts = 1
    MaxClock = 3
    MaxJobs = 2
    MaxDisturbances = 1
INVARIANTS
    OneExecutionPerTask
PROPERTIES
    SucceededIsFinal
SYMMETRY Symmetric
CHECK_DEADLOCK FALSE
