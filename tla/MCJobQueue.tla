----------------------------- MODULE MCJobQueue -----------------------------
(* Instances of JobQueue for TLC. *)
EXTENDS JobQueue, TLC

CONSTANTS j1, j2, k1, w1, w2, t1

Backoffs == INSTANCE RetryBackoff

MCTenant == [j \in Jobs |-> t1]
MCOneKey == [j \in Jobs |-> k1]
MCNoKey == [j \in Jobs |-> NoKey]
MCJobLane == [j \in Jobs |-> "default"]
MCWorkerLane == [w \in Workers |-> "default"]
MCBackoff == [a \in 1..AttemptLimit |-> Backoffs!NextRetryDelay(a, 1, BackoffCap)]
MCLimit1 == [t \in Tenants |-> 1]

Symmetric == Permutations(Workers)
=============================================================================
