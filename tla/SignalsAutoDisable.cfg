SPECIFICATION Spec
CONSTANTS
    Streams = {s1}
    Workers = {w1}
    w1 = w1
    w2 = w2
    Admins = {a1}
    None = None
    MaxDeliveries = 2
    MaxFaults = 0
    MaxRedeliveries = 0
    MaxAttempts = 2
    PerStream = 2
    Lease = 2
    MaxAge = 2
    BackoffBase = 1
    BackoffCap = 2
    AutoDisableFailures = 2
    AutoDisableElapsed = 1
    QuotaLimit = 1
PROPERTY DisabledOnlyWhenDead
