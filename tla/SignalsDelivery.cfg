SPECIFICATION Spec
CONSTANTS
    Streams = {s1}
    Workers = {w1, w2}
    w1 = w1
    w2 = w2
    Admins = {a1}
    None = None
    MaxDeliveries = 1
    MaxFaults = 1
    MaxRedeliveries = 1
    MaxAttempts = 2
    PerStream = 2
    Lease = 2
    MaxAge = 2
    BackoffBase = 1
    BackoffCap = 2
    AutoDisableFailures = 2
    AutoDisableElapsed = 1
    QuotaLimit = 1
INVARIANTS
    TypeOK
    DeliveredWasReceived
    LeaseExclusive
    DeadLetterEarned
PROPERTIES
    DeliveredIsFinal
SYMMETRY Symmetric
