------------------------------ MODULE JobQueue ------------------------------
(***************************************************************************)
(* The durable job queue of IdMagic: the jobs table and its conditional    *)
(* UPDATEs (backend/jobs/internal/db_postgres), the runners that claim,    *)
(* heartbeat and report jobs (internal/usecases/runner.go), the Enqueue    *)
(* use case, the three ways to cancel a job, and the active_jobs quota     *)
(* counter of the tenant, which every one of them moves in a statement of  *)
(* its own.                                                                *)
(*                                                                         *)
(* One step is one SQL statement, one handler outcome, one fault or one    *)
(* clock tick.  Instants are kept relative to the present: lease[j] is the *)
(* time left until lease_expires_at and wait[j] the time left until        *)
(* run_at, so no absolute clock has to be bounded.  A statement compares   *)
(* them with the caller's reading of the clock, which may be off by Skew   *)
(* either way: it is read on the caller's host, before the statement runs. *)
(***************************************************************************)
EXTENDS Integers, FiniteSets

CONSTANTS
    Jobs,           \* ids of the job rows; an id also names the Enqueue call that drew it
    Workers,        \* runner ids: WORKER_ID or hostname, plus the lane; kept over a restart
    NoWorker,       \* lease_owner IS NULL
    Tenants,
    Tenant,         \* Tenant[j]: the tenant the job is enqueued for
    NoKey,          \* dedup_key IS NULL
    DedupKey,       \* DedupKey[j]: the dedup key of the call, or NoKey
    JobLane,        \* JobLane[j]: the lane registered for the kind of the job
    WorkerLane,     \* WorkerLane[w]: the lane the runner claims from
    CancelTargets,  \* jobs that are canceled over the admin API or as a data export
    Exports,        \* jobs that are canceled as an audit export
    Limit,          \* Limit[t]: hard quota of the tenant on active_jobs
    Concurrency,    \* slots of a runner's semaphore
    MaxAttempts,    \* max_attempts of every job
    LeaseDuration,
    Backoff,        \* Backoff[a]: delay before the retry that follows attempt a
    BackoffCap,
    Skew,           \* a caller's clock reading is at most this far off
    AttemptLimit,   \* bound on attempts: no claim beyond it
    MaxFaults,      \* bound on crashes and database errors, but for
    MaxMissed       \* the bound on heartbeat loops that end on a database error

ASSUME JobAssumption ==
    /\ NoWorker \notin Workers
    /\ Tenant \in [Jobs -> Tenants]
    /\ CancelTargets \subseteq Jobs
    /\ Exports \subseteq Jobs
    /\ Limit \in [Tenants -> Nat]
    /\ MaxAttempts \in Nat \ {0}
    /\ LeaseDuration \in Nat \ {0}
    /\ Skew \in Nat
    /\ BackoffCap \in Nat
    /\ AttemptLimit \in Nat
    /\ MaxFaults \in Nat
    /\ MaxMissed \in Nat
    /\ \A a \in 1..AttemptLimit : Backoff[a] \in 0..BackoffCap

VARIABLES
    status,    \* jobs.status, "none" before the row is inserted
    attempts,  \* jobs.attempts
    owner,     \* jobs.lease_owner
    lease,     \* jobs.lease_expires_at, as time left; 0 where it is NULL
    wait,      \* jobs.run_at, as time left
    usage,     \* tenant_usages.active_jobs
    call,      \* progress of the Enqueue call that drew the id
    freeing,   \* audit exports canceled, whose slot CancelExport has yet to free
    execs,     \* executions alive in the runners: one goroutine each
    freed,     \* history: how often a quota slot was freed for the job
    faults,    \* history: crashes and database errors so far, but for
    missed     \* history: heartbeat loops that ended on a database error

row == <<status, attempts, owner, lease, wait>>
vars == <<status, attempts, owner, lease, wait, usage, call, freeing, execs, freed, faults, missed>>

-----------------------------------------------------------------------------
Terminal == {"succeeded", "failed", "canceled"}
Active == {"queued", "running"}
Statuses == {"none"} \cup Active \cup Terminal

\* Readings of the clock, relative to the true instant.
Clocks == -Skew..Skew

\* Calls under way, and the ways they end: the job was admitted, refused by the
\* quota, an existing job was returned, or the caller got an error or died.
Pending == {"inserted", "exceeded", "conflict"}
CallStates == {"idle"} \cup Pending \cup {"admitted", "refused", "existing", "failed"}

\* An execution handles its job and then frees the quota slot.  Its heartbeat
\* loop beats, has ended on an error, or has found the lease lost and canceled it.
Execution ==
    [job : Jobs, attempt : 1..AttemptLimit, worker : Workers,
     phase : {"handling", "freeing"}, heart : {"beating", "silent", "abandoned"}]

\* The types of the columns, counters and executions; timers stay in their range.
TypeOK ==
    /\ status \in [Jobs -> Statuses]
    /\ attempts \in [Jobs -> 0..AttemptLimit]
    /\ owner \in [Jobs -> Workers \cup {NoWorker}]
    /\ lease \in [Jobs -> (-Skew - 1)..(LeaseDuration + Skew)]
    /\ wait \in [Jobs -> (-Skew)..(BackoffCap + Skew)]
    /\ usage \in [Tenants -> Nat]
    /\ call \in [Jobs -> CallStates]
    /\ freeing \subseteq Exports
    /\ execs \subseteq Execution
    /\ freed \in [Jobs -> Nat]
    /\ faults \in 0..MaxFaults
    /\ missed \in 0..MaxMissed

Init ==
    /\ status = [j \in Jobs |-> "none"]
    /\ attempts = [j \in Jobs |-> 0]
    /\ owner = [j \in Jobs |-> NoWorker]
    /\ lease = [j \in Jobs |-> 0]
    /\ wait = [j \in Jobs |-> 0]
    /\ usage = [t \in Tenants |-> 0]
    /\ call = [j \in Jobs |-> "idle"]
    /\ freeing = {}
    /\ execs = {}
    /\ freed = [j \in Jobs |-> 0]
    /\ faults = 0
    /\ missed = 0

-----------------------------------------------------------------------------
(* The enqueuing side. *)

\* Mutant: the unique index covers queued rows only.
ConflictingQueued(j) ==
    {k \in Jobs \ {j} : /\ status[k] = "queued"
                        /\ DedupKey[j] # NoKey
                        /\ DedupKey[k] = DedupKey[j]
                        /\ Tenant[k] = Tenant[j]}

\* An active row that the partial unique index on (tenant_id, dedup_key) holds
\* against an insertion for j.
Conflicting(j) ==
    {k \in Jobs \ {j} : /\ status[k] \in Active
                        /\ DedupKey[j] # NoKey
                        /\ DedupKey[k] = DedupKey[j]
                        /\ Tenant[k] = Tenant[j]}

\* INSERT ... ON CONFLICT DO NOTHING of the row with the id the call drew.
InsertJob(j, e) ==
    /\ call[j] = "idle"
    /\ \/ /\ Conflicting(j) = {}
          /\ status' = [status EXCEPT ![j] = "queued"]
          /\ wait' = [wait EXCEPT ![j] = e]
          /\ call' = [call EXCEPT ![j] = "inserted"]
       \/ /\ Conflicting(j) # {}
          /\ call' = [call EXCEPT ![j] = "conflict"]
          /\ UNCHANGED <<status, wait>>
    /\ UNCHANGED <<attempts, owner, lease, usage, freeing, execs, freed, faults, missed>>

\* The lookup after a conflict.  The active job may have ended in between: the
\* caller then gets the "no rows" error although nothing was enqueued.
FindActiveJob(j) ==
    /\ call[j] = "conflict"
    /\ call' = [call EXCEPT ![j] = IF Conflicting(j) # {} THEN "existing" ELSE "failed"]
    /\ UNCHANGED <<row, usage, freeing, execs, freed, faults, missed>>

\* UPDATE tenant_usages ... WHERE limit >= active_jobs + 1.
CheckAndIncrement(j) ==
    /\ call[j] = "inserted"
    /\ \/ /\ usage[Tenant[j]] + 1 <= Limit[Tenant[j]]
          /\ usage' = [usage EXCEPT ![Tenant[j]] = @ + 1]
          /\ call' = [call EXCEPT ![j] = "admitted"]
       \/ /\ usage[Tenant[j]] + 1 > Limit[Tenant[j]]
          /\ call' = [call EXCEPT ![j] = "exceeded"]
          /\ UNCHANGED usage
    /\ UNCHANGED <<row, freeing, execs, freed, faults, missed>>

\* Mutant: the statement is conditional on the id alone.
CancelRowById(j) ==
    /\ status[j] # "none"
    /\ status' = [status EXCEPT ![j] = "canceled"]
    /\ owner' = [owner EXCEPT ![j] = NoWorker]
    /\ lease' = [lease EXCEPT ![j] = 0]
    /\ UNCHANGED <<attempts, wait>>

\* UPDATE jobs SET status = 'canceled' ... WHERE status IN ('queued', 'running').
CancelRow(j) ==
    /\ status[j] \in Active
    /\ status' = [status EXCEPT ![j] = "canceled"]
    /\ owner' = [owner EXCEPT ![j] = NoWorker]
    /\ lease' = [lease EXCEPT ![j] = 0]
    /\ UNCHANGED <<attempts, wait>>

\* The compensation of Enqueue for a job over the quota.  A job that a worker
\* has brought to its end meanwhile is left alone: the error is only logged.
CancelRejected(j) ==
    /\ call[j] = "exceeded"
    /\ \/ CancelRow(j)
       \/ status[j] \notin Active /\ UNCHANGED row
    /\ call' = [call EXCEPT ![j] = "refused"]
    /\ UNCHANGED <<usage, freeing, execs, freed, faults, missed>>

\* NewEnqueuerInTx: insertion and quota check in one transaction of the caller,
\* which rolls back when the quota refuses the job.
EnqueueInTx(j, e) ==
    /\ call[j] = "idle"
    /\ Conflicting(j) = {}
    /\ \/ /\ usage[Tenant[j]] + 1 <= Limit[Tenant[j]]
          /\ status' = [status EXCEPT ![j] = "queued"]
          /\ wait' = [wait EXCEPT ![j] = e]
          /\ usage' = [usage EXCEPT ![Tenant[j]] = @ + 1]
          /\ call' = [call EXCEPT ![j] = "admitted"]
       \/ /\ usage[Tenant[j]] + 1 > Limit[Tenant[j]]
          /\ call' = [call EXCEPT ![j] = "refused"]
          /\ UNCHANGED <<status, wait, usage>>
    /\ UNCHANGED <<attempts, owner, lease, freeing, execs, freed, faults, missed>>

-----------------------------------------------------------------------------
(* Cancellation from outside, and the quota slot. *)

\* Mutant: no GREATEST(0, ...).
DecrementUnclamped(j) ==
    /\ usage' = [usage EXCEPT ![Tenant[j]] = @ - 1]
    /\ freed' = [freed EXCEPT ![j] = @ + 1]

\* UPDATE tenant_usages SET active_jobs = GREATEST(0, active_jobs - 1).
Decrement(j) ==
    /\ usage' = [usage EXCEPT ![Tenant[j]] = IF @ > 0 THEN @ - 1 ELSE 0]
    /\ freed' = [freed EXCEPT ![j] = @ + 1]

\* CancelJobForAdmin and CancelDataExport: no statement frees the quota slot.
CancelJob(j) ==
    /\ j \in CancelTargets
    /\ CancelRow(j)
    /\ UNCHANGED <<usage, call, freeing, execs, freed, faults, missed>>

\* CancelExport of the audit module, which goes on to free the slot.
CancelExport(j) ==
    /\ j \in Exports
    /\ CancelRow(j)
    /\ freeing' = freeing \cup {j}
    /\ UNCHANGED <<usage, call, execs, freed, faults, missed>>

FreeExport(j) ==
    /\ j \in freeing
    /\ Decrement(j)
    /\ freeing' = freeing \ {j}
    /\ UNCHANGED <<row, call, execs, faults, missed>>

-----------------------------------------------------------------------------
(* The runners. *)

Running(w) == {x \in execs : x.worker = w}

\* Mutant: an expired lease is never taken over.
ClaimableQueued(w, e) ==
    {j \in Jobs : /\ JobLane[j] = WorkerLane[w]
                  /\ status[j] = "queued" /\ wait[j] <= e
                  /\ attempts[j] < AttemptLimit}

\* Mutant: a lease is taken over at the instant it expires.
ClaimableAtExpiry(w, e) ==
    {j \in Jobs : /\ JobLane[j] = WorkerLane[w]
                  /\ \/ status[j] = "queued" /\ wait[j] <= e
                     \/ status[j] = "running" /\ lease[j] <= e
                  /\ attempts[j] < AttemptLimit}

\* Queued and due, or running with an expired lease.
Claimable(w, e) ==
    {j \in Jobs : /\ JobLane[j] = WorkerLane[w]
                  /\ \/ status[j] = "queued" /\ wait[j] <= e
                     \/ status[j] = "running" /\ lease[j] < e
                  /\ attempts[j] < AttemptLimit}

\* Mutant: a lease that is taken over does not count as an attempt.
ClaimedAttemptQueuedOnly(j) == IF status[j] = "queued" THEN attempts[j] + 1 ELSE attempts[j]

\* Every claim counts, the first one of a queued job and a take-over alike.
ClaimedAttempt(j) == attempts[j] + 1

\* One poll: claim at most as many jobs as the semaphore has room for, and start
\* an execution of each.  Rows that a concurrent claim has locked are skipped.
\* An expired lease is taken over whatever max_attempts says.
ClaimBatch(w, e) ==
    \E S \in SUBSET Claimable(w, e) :
        /\ S # {}
        /\ Cardinality(S) <= Concurrency - Cardinality(Running(w))
        /\ status' = [j \in Jobs |-> IF j \in S THEN "running" ELSE status[j]]
        /\ attempts' = [j \in Jobs |-> IF j \in S THEN ClaimedAttempt(j) ELSE attempts[j]]
        /\ owner' = [j \in Jobs |-> IF j \in S THEN w ELSE owner[j]]
        /\ lease' = [j \in Jobs |-> IF j \in S THEN LeaseDuration + e ELSE lease[j]]
        /\ execs' = execs \cup
             {[job |-> j, attempt |-> ClaimedAttempt(j), worker |-> w,
               phase |-> "handling", heart |-> "beating"] : j \in S}
        /\ UNCHANGED <<wait, usage, call, freeing, freed, faults, missed>>

\* Mutant: a report is conditional on the id and the expiry alone.
HeldById(x, e) == lease[x.job] >= e

\* WHERE lease_owner = $2 AND status = 'running' AND lease_expires_at >= now.
\* The attempt that is reporting is no part of the condition.
Held(x, e) ==
    /\ owner[x.job] = x.worker
    /\ status[x.job] = "running"
    /\ lease[x.job] >= e

Drop(x) == execs' = execs \ {x}
Replace(x, y) == execs' = (execs \ {x}) \cup {y}

\* One tick of the heartbeat loop, which lives as long as its execution.  A lost
\* lease cancels the context of the execution, also when the job has just been
\* reported and only the quota slot is still to be freed.
Heartbeat(x, e) ==
    /\ x.heart = "beating"
    /\ \/ /\ Held(x, e)
          /\ lease' = [lease EXCEPT ![x.job] = LeaseDuration + e]
          /\ UNCHANGED execs
       \/ /\ ~Held(x, e)
          /\ Replace(x, [x EXCEPT !.heart = "abandoned"])
          /\ UNCHANGED lease
    /\ UNCHANGED <<status, attempts, owner, wait, usage, call, freeing, freed, faults, missed>>

\* The handler returned normally.  A report that finds the lease lost is dropped.
Complete(x, e) ==
    /\ x.phase = "handling"
    /\ x.heart # "abandoned"
    /\ \/ /\ Held(x, e)
          /\ status' = [status EXCEPT ![x.job] = "succeeded"]
          /\ owner' = [owner EXCEPT ![x.job] = NoWorker]
          /\ lease' = [lease EXCEPT ![x.job] = 0]
          /\ Replace(x, [x EXCEPT !.phase = "freeing"])
       \/ /\ ~Held(x, e)
          /\ Drop(x)
          /\ UNCHANGED <<status, owner, lease>>
    /\ UNCHANGED <<attempts, wait, usage, call, freeing, freed, faults, missed>>

\* Mutant: one attempt too many.
ExhaustedLate(x) == x.attempt > MaxAttempts

\* Retry or dead-letter is decided by the attempt the execution was claimed with.
Exhausted(x) == x.attempt >= MaxAttempts

\* The handler returned an error, or none is registered for the kind of the job.
Fail(x, e) ==
    /\ x.phase = "handling"
    /\ x.heart # "abandoned"
    /\ \/ /\ Held(x, e)
          /\ owner' = [owner EXCEPT ![x.job] = NoWorker]
          /\ lease' = [lease EXCEPT ![x.job] = 0]
          /\ \/ /\ Exhausted(x)
                /\ status' = [status EXCEPT ![x.job] = "failed"]
                /\ Replace(x, [x EXCEPT !.phase = "freeing"])
                /\ UNCHANGED wait
             \/ /\ ~Exhausted(x)
                /\ status' = [status EXCEPT ![x.job] = "queued"]
                /\ wait' = [wait EXCEPT ![x.job] = Backoff[x.attempt] + e]
                /\ Drop(x)
       \/ /\ ~Held(x, e)
          /\ Drop(x)
          /\ UNCHANGED <<status, owner, lease, wait>>
    /\ UNCHANGED <<attempts, usage, call, freeing, freed, faults, missed>>

\* decrementActiveJobsQuota, under the context of the execution.
FreeSlot(x) ==
    /\ x.phase = "freeing"
    /\ x.heart # "abandoned"
    /\ Decrement(x.job)
    /\ Drop(x)
    /\ UNCHANGED <<row, call, freeing, faults, missed>>

\* An execution whose context was canceled: it reports nothing, and a slot it had
\* still to free stays taken (the failed decrement is only logged).
Abandon(x) ==
    /\ x.heart = "abandoned"
    /\ Drop(x)
    /\ UNCHANGED <<row, usage, call, freeing, freed, faults, missed>>

-----------------------------------------------------------------------------
(* Faults, and time. *)

Fault == faults < MaxFaults /\ faults' = faults + 1 /\ UNCHANGED missed

\* A worker process dies, or its drain grace period runs out: its executions are
\* gone, its leases stay.  It comes back under the same id with free slots.
Crash(w) ==
    /\ Fault
    /\ Running(w) # {}
    /\ execs' = execs \ Running(w)
    /\ UNCHANGED <<row, usage, call, freeing, freed>>

\* A heartbeat fails for a reason other than a lost lease: the loop ends, the
\* handler goes on.
HeartbeatError(x) ==
    /\ missed < MaxMissed
    /\ missed' = missed + 1
    /\ x.heart = "beating"
    /\ Replace(x, [x EXCEPT !.heart = "silent"])
    /\ UNCHANGED <<row, usage, call, freeing, freed, faults>>

\* The report or the decrement of an execution fails in the database: the error
\* is logged and the execution ends.
ReportError(x) ==
    /\ Fault
    /\ x.heart # "abandoned"
    /\ Drop(x)
    /\ UNCHANGED <<row, usage, call, freeing, freed>>

\* The API process dies in the middle of Enqueue or CancelExport, or the database
\* refuses the next statement.
CallError(j) ==
    /\ Fault
    /\ \/ /\ call[j] \in Pending
          /\ call' = [call EXCEPT ![j] = "failed"]
          /\ UNCHANGED freeing
       \/ /\ j \in freeing
          /\ freeing' = freeing \ {j}
          /\ UNCHANGED call
    /\ UNCHANGED <<row, usage, execs, freed>>

\* A unit of time.  Past its threshold an instant is past for every clock.
Tick ==
    /\ lease' = [j \in Jobs |->
          IF status[j] = "running" /\ lease[j] > -Skew - 1 THEN lease[j] - 1 ELSE lease[j]]
    /\ wait' = [j \in Jobs |->
          IF status[j] = "queued" /\ wait[j] > -Skew THEN wait[j] - 1 ELSE wait[j]]
    /\ UNCHANGED <<status, attempts, owner, usage, call, freeing, execs, freed, faults, missed>>

-----------------------------------------------------------------------------
Enqueuing(j) ==
    \/ \E e \in Clocks : InsertJob(j, e) \/ EnqueueInTx(j, e)
    \/ FindActiveJob(j) \/ CheckAndIncrement(j) \/ CancelRejected(j)

Canceling(j) == CancelJob(j) \/ CancelExport(j) \/ FreeExport(j)

Executing(x) ==
    \/ \E e \in Clocks : Heartbeat(x, e) \/ Complete(x, e) \/ Fail(x, e)
    \/ FreeSlot(x) \/ Abandon(x)

Failing ==
    \/ \E w \in Workers : Crash(w)
    \/ \E x \in execs : HeartbeatError(x) \/ ReportError(x)
    \/ \E j \in Jobs : CallError(j)

Step ==
    \/ \E j \in Jobs : Enqueuing(j) \/ Canceling(j)
    \/ \E w \in Workers, e \in Clocks : ClaimBatch(w, e)
    \/ \E x \in execs : Executing(x)
    \/ Failing

Next == Step \/ Tick

Spec == Init /\ [][Next]_vars

-----------------------------------------------------------------------------
(***************************************************************************)
(* Timeliness.  A heartbeat loop ticks three times per lease, so while it  *)
(* lives, and the database answers it, its lease does not run out, on any  *)
(* clock.                                                                  *)
(***************************************************************************)
TimelyTick ==
    /\ \A x \in execs :
          x.heart = "beating" /\ status[x.job] = "running" /\ owner[x.job] = x.worker
              => lease[x.job] > Skew
    /\ Tick

TimelyNext == Step \/ TimelyTick

TimelySpec == Init /\ [][TimelyNext]_vars

\* Runners keep polling, handlers return, API calls end, and time passes.
Fairness ==
    /\ WF_vars(\E j \in Jobs : FindActiveJob(j) \/ CheckAndIncrement(j) \/ CancelRejected(j))
    /\ WF_vars(\E w \in Workers, e \in Clocks : ClaimBatch(w, e))
    /\ WF_vars(\E x \in execs, e \in Clocks : Heartbeat(x, e))
    /\ WF_vars(\E x \in execs, e \in Clocks :
                  Complete(x, e) \/ Fail(x, e) \/ FreeSlot(x) \/ Abandon(x))
    /\ WF_vars(TimelyTick)

FairSpec == TimelySpec /\ Fairness

-----------------------------------------------------------------------------
(* Properties of every behaviour, whatever the clocks and the faults do. *)

\* JobTerminalStateIsImmutable: no late report, heartbeat, claim or cancellation,
\* of whatever worker or caller, changes a job that has ended.
TerminalImmutable ==
    [][\A j \in Jobs : status[j] \in Terminal =>
          /\ status'[j] = status[j]
          /\ attempts'[j] = attempts[j]
          /\ owner'[j] = owner[j]]_vars

\* A quota slot is freed at most once per job, although a runner that reports,
\* stale executions of the same job and an export cancellation may all try.
FreedAtMostOnce == \A j \in Jobs : freed[j] <= 1

\* JobHandlerIdempotency: two unfinished jobs of a tenant never share a dedup key,
\* also when a failed attempt puts one of them back into the queue.
DedupUnique ==
    \A j, k \in Jobs :
        /\ j # k
        /\ status[j] \in Active
        /\ status[k] \in Active
        /\ Tenant[j] = Tenant[k]
        /\ DedupKey[j] = DedupKey[k]
        => DedupKey[j] = NoKey

\* JobLeaseExclusivity, as far as the row goes: attempts names the claim that owns
\* the lease, so a worker whose execution is not the latest one and that is not
\* the worker of the latest one cannot pass the guard of a report.
LatestAttemptOwnsLease ==
    \A x \in execs :
        /\ x.attempt <= attempts[x.job]
        /\ status[x.job] = "running" /\ x.attempt = attempts[x.job]
              => owner[x.job] = x.worker

Lifecycle == INSTANCE JobLifecycle

\* A job only ever takes the transitions that the domain declares: the queue, with
\* its leases, take-overs and races, implements JobLifecycle.
RefinesLifecycle == Lifecycle!Spec

-----------------------------------------------------------------------------
(* Properties of behaviours in which heartbeats are on time. *)

\* As long as no heartbeat loop has ended on an error, a job has one execution at
\* a time, also when workers crash and their leases are taken over.
SingleExecution ==
    missed = 0 =>
        \A x, y \in execs :
            x.job = y.job /\ x.phase = "handling" /\ y.phase = "handling" => x = y

\* A job is claimed more than max_attempts times only for executions that were
\* lost to a crash or an error.
AttemptsBounded ==
    \A j \in Jobs : attempts[j] <= MaxAttempts + faults + missed

\* JobDeadLetterOnMaxAttempts: a job on its last attempt is not queued again.
DeadLetterAtMax ==
    [][\A j \in Jobs :
          status[j] = "running" /\ attempts[j] >= MaxAttempts
              => status'[j] # "queued"]_vars

\* Every job that was enqueued ends, in spite of crashed workers, lost heartbeats
\* and errors, if there are finitely many of them.
EveryJobEnds == \A j \in Jobs : status[j] = "queued" ~> status[j] \in Terminal

-----------------------------------------------------------------------------
(* Statements of the documentation that the code does not keep. *)

\* A job that the quota refused is not created: no worker ever runs it.
RefusedNeverRuns == \A j \in Jobs : call[j] = "refused" => attempts[j] = 0

\* Whoever settles a job frees its slot: without a fault, a settled job has its
\* slot freed, or an execution is about to free it.
SettledFreesSlot ==
    faults = 0 =>
        \A j \in Jobs : status[j] \in {"succeeded", "failed"} =>
            \/ freed[j] = 1
            \/ \E x \in execs : x.job = j /\ x.phase = "freeing"

\* The same of a job that was admitted and then canceled.
CanceledFreesSlot ==
    faults = 0 =>
        \A j \in Jobs : call[j] = "admitted" /\ status[j] = "canceled" =>
            freed[j] = 1 \/ j \in freeing
=============================================================================
