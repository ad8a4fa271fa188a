SPECIFICATION TimelySpec
CONSTANTS
    j1 = j1
    j2 = j2
    k1 = k1
    w1 = w1
    w2 = w2
    t1 = t1
    Jobs = {j1}
    Workers = {w1, w2}
    NoWorker = NoWorker
    Tenants = {t1}
    Tenant <- MCTenant
    NoKey = NoKey
    DedupKey <- MCOneKey
    JobLane <- MCJobLane
    WorkerLane <- MCWorkerLane
    CancelTargets = {j1}
    Exports = {j1}
    Limit <- MCLimit1
    Backoff <- MCBackoff
    Concurrency = 2
    MaxAttempts = 2
    LeaseDuration = 3
    BackoffCap = 2
    Skew = 1
    AttemptLimit = 4
    MaxFaults = 2
    MaxMissed = 0
SYMMETRY Symmetric
INVARIANTS
    SingleExecution
PROPERTIES
    DeadLetterAtMax
