SPECIFICATION FairSpec
CONSTANTS
    Streams = {s1}
    Workers = {w1}
    w1 = w1
    w2 = w2
    Admins = {a1}
    None = None
    MaxDeliveries = 2
    MaxFaults = 1
    MaxRedeliveries = 0
    MaxAttempts = 2
    PerStream = 2
    Lease = 1
    MaxAge = 1
    BackoffBase = 1
    BackoffCap = 1
    AutoDisableFailures = 2
    AutoDisableElapsed = 1
    QuotaLimit = 1
PROPERTY EverySignalSettles
