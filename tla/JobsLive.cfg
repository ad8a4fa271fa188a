SPECIFICATION FairSpec
CONSTANTS
    j1 = j1
    j2 = j2
    k1 = k1
    w1 = w1
    w2 = w2
    t1 = t1
    Jobs = {j1, j2}
    Workers = {w1, w2}
    NoWorker = NoWorker
    Tenants = {t1}
    Tenant <- MCTenant
    NoKey = NoKey
    DedupKey <- MCOneKey
    JobLane <- MCJobLane
    WorkerLane <- MCWorkerLane
    CancelTargets = {j1}
    Exports = {j2}
    Limit <- MCLimit1
    Backoff <- MCBackoff
    Concurrency = 1
    MaxAttempts = 2
    LeaseDuration = 1
    BackoffCap = 1
    Skew = 0
    AttemptLimit = 4
    MaxFaults = 1
    MaxMissed = 1
INVARIANTS
    AttemptsBounded
PROPERTIES
    EveryJobEnds
