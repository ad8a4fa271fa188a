# IdMagic: TLA+ specifications

IdMagic is a multi-tenant identity platform written in Go: an API server
(`backend/cmd/idmagic`), a job worker (`backend/cmd/idmagic-worker`), periodic batches
(`backend/cmd/idmagic-batch`), PostgreSQL behind every module (with a `db_memory` twin for each
store), and a few satellite programs. This directory specifies the parts whose correctness hangs on
interleavings, crashes and time, checks them with TLC on small instances and proves the main
results with TLAPS for every value of the constants.

Contents

1. Inventory of the system
2. What is specified: modules and their correspondence to the code
3. Runs: what each checks, bounds, fairness
4. Where the code and the documentation disagree
5. Proofs
6. Only model-checked, and not modelled
7. Plan

Running it: `tlc -config JobsQueue.cfg MCJobQueue`, `tlapm JobQueueProofs.tla`, and so on; every
run is listed in `PROJECT.json` with its module and configuration; the configurations that are not
listed there are named in section 4.

## 1. Inventory

All modules share one shape: `domain` (records and rules), `usecases` (operations), `ports`
(interfaces), `db_memory` and `db_postgres` (stores), `handlers_http`. Modules meet in four ways:
by calls through ports, by rows in PostgreSQL, by events passed to `Emit` (recorded in the audit log
and handed to in-process reactions), and by jobs enqueued to the Jobs module. There is no lock
across modules. What makes the behaviour hard is the same everywhere: a use case is a sequence of
single statements, each atomic, with other requests, workers and crashes in between.

| Component | State | Operations | Hard behaviour | What makes it correct |
|---|---|---|---|---|
| **jobs** (queue, runner, enqueuer, admin API) | `jobs` rows: status, attempts, lease owner and expiry, run_at, dedup key | enqueue (alone or in the caller's transaction), claim a batch, heartbeat, complete, fail with backoff or dead letter, cancel | leases judged by several clocks, take-over of dead workers, late reports, heartbeats racing completion | one execution at a time, ended jobs stay ended, every job ends, bounded attempts, dedup keys unique |
| **tenancy: quotas** | `tenant_usages` counters, limits | CheckAndIncrement, Decrement | counted in a statement of its own, apart from the resource | a slot is taken and freed once per resource |
| **audit** | append-only events; export jobs and artifacts | append, search, export, cancel an export, retention | cancellation races the worker that finishes the export | slot freed once, ended export unchanged |
| **oauth2: codes and refresh-token families** | code record (state, expiry, family), token rows (family, parent, expiries, rotated, revoked) | save code, exchange, refresh with rotation, replay detection, revoke, revoke by session, delete with the user | concurrent exchange or refresh of one credential, replay, revocation in flight | one family per code, one usable token per family, revocation is final, absolute lifetime |
| **oauth2: device and approval (CIBA) grants** | device code or approval record: state, deciding user, expiry, polling interval, the recorded use | start, approve or deny, poll with slow_down, exchange or consume, claim the one use, expire, sweep | polling, decision, expiry and exchange at once; a user or agent stopped meanwhile | an approval yields tokens once and is used once, never after a denial or for somebody stopped |
| **oauth2: authorization requests, consent, clients** | request records, consents, client rows | authorize, push, register | little: one browser, single rows | - |
| **oauth2: logout** | client sessions, back-channel deliveries | end session, propagate | partial delivery, retry | every client session is notified or given up |
| **authentication** | sessions, sign-in attempts, TOTP counters, recovery codes, reset tokens, trusted devices, federation flows | sign in, step up, revoke, expire | one-time values used concurrently, throttling windows | one-time use, revoked sessions stay revoked |
| **sharedsignals: epochs and receiver** | revocation epoch per user and agent, received jtis | advance an epoch on a stop or an inbound SET | times that arrive out of order, a failure between record and effect | an epoch never falls back, what was revoked stays revoked |
| **sharedsignals: streams and delivery** | streams with their failure counters, transmitter configurations, outbox rows with lease and attempts | capture and project events, claim, push, settle, disable, redeliver, administer, sweep | lease shorter than a cycle, lost answers, crash between push and save, administration beside the workers | delivered means received, one sender at a time, dead letters earned, every signal settles |
| **idmanagement: users and agents** | user rows (status, instant, pending purge), agent rows (status, owner), the users counter | disable, soft-delete, restore, edit, purge in steps; register, transfer, disable, kill, remove agents | a stop touches user, epochs and agents one by one; a purge breaks off and is resumed | no agent runs for a stopped owner, a purge is finished and announced, killed is final |
| **idmanagement: groups, import, export** | groups, memberships, jobs | administer, evaluate rules, import | recomputation after a change | membership equals the rule |
| **provisioning** | connections (status, health, failure counter), tasks per source version, reservations, links, full resyncs, the downstream | capture, reserve, dispatch, execute over SCIM, settle, quarantine, reconcile, resync | two dispatchers, jobs ahead of their task, versions out of order, whole-row writes of the connection | one execution per task, grace honoured, a resync completes once, the downstream converges |
| **signingkeys**, **datakeys** | keys with states and instants; encrypted rows | rotate, publish, retire; re-encrypt | reader with an old key while a key is retired | nothing is signed with, or encrypted under, a key that readers lack |
| **idgovernance** | workflow definitions, runs, steps | dispatch, execute, dry run | dispatcher crash between run and job | a run is executed once |
| **sourcing**, **directoryconnector** | SCIM and directory sources; cursor file | ingest, deprovision; synchronise in batches | resumption from a cursor after a crash | no entry skipped |
| **tokenvault** | connections, upstream tokens | link, use, refresh | several requests refresh one upstream token | the newest token is kept |
| **accesscontrol** | model and relation tuples | check, write tuples | consistency of a check with a write | evaluation equals its definition |
| **apitoken**, **application**, **applicationcatalog**, **claimmapping**, **signinpolicy** | configuration records | administration, pure evaluation | little | decisions equal their definition |
| **saml**, **wsfederation**, **workloadidentity**, **mcpgateway** | relying parties, trust bundles | protocol messages | none of their own | conversions and signatures |
| **shared** | rate-limit buckets, circuit breakers | acquire, trip, reset | counters at their limit | limits hold across processes |
| **seeding**, **cmd**, frontend, tools, infra | - | assembly, user interface, schema | the worker's drain on shutdown | - |

Interactions that the specifications cover: the enqueuer moves the tenancy quota in a statement of
its own before and after the job row; the runner does the same when a job ends; the audit module
cancels jobs and frees slots beside the runner; the token endpoint reads the user of idmanagement
and the epoch of sharedsignals between the store calls of one request; logout and user deletion
change token rows under requests in flight; stopping a user in idmanagement advances epochs in
sharedsignals and disables agents; provisioning puts its tasks into the job queue and learns of user and
assignment changes by captures; the grants read the status of users, agents and owners between their
own statements.

The hazards, at the lines where they bite and with the properties that would catch them, are listed
in `PROJECT.json` under `hazards`; those that no property covers are deviations that section 4 describes.

## 2. What is specified

### Jobs: `JobQueue`, `JobLifecycle`, `RetryBackoff`

`JobQueue` models `backend/jobs` with the quota calls of tenancy and the export cancellation of
audit. One step is one SQL statement, one outcome of a handler, one fault, or one unit of time.

| State | Code |
|---|---|
| `status`, `attempts`, `owner`, `lease`, `wait` | the columns status, attempts, lease_owner, lease_expires_at, run_at of `jobs`; `"none"` is a row not inserted yet |
| `usage` | `tenant_usages.active_jobs` |
| `call[j]` | how far the Enqueue call that drew the id `j` has come, and how it ended |
| `execs` | the goroutines of `Runner.execute`: job, the attempt of the claim, worker, whether the handler runs or the slot is being freed, and the state of the heartbeat loop |
| `freeing` | audit exports canceled, decrement still to come |
| `freed`, `faults`, `missed` | history: slots freed per job, crashes and database errors, heartbeat loops ended by an error |

| Action | Code |
|---|---|
| `InsertJob`, `FindActiveJob`, `CheckAndIncrement`, `CancelRejected` | the statements of `Enqueue` in their order, with the dedup conflict and the compensation |
| `EnqueueInTx` | the same in the transaction of the caller: one step |
| `CancelJob`, `CancelExport`, `FreeExport` | CancelJobForAdmin and CancelDataExport; CancelExport and its decrement |
| `ClaimBatch` | one poll of the runner: `ClaimJobs` and the start of the executions, limited by the semaphore |
| `Heartbeat`, `Complete`, `Fail`, `FreeSlot`, `Abandon` | the heartbeat loop and the end of an execution, with the conditional UPDATEs (`Held` is their WHERE clause) |
| `Crash`, `HeartbeatError`, `ReportError`, `CallError` | death of a worker or the end of its drain, an error of the database in each place where the code handles one |
| `Tick` | time |

Abstractions. Instants are kept relative to the present (`lease` is the time left), so time needs no
bound; past its threshold an instant stops falling. A statement compares instants with the reading
of the caller's clock, any value within `Skew`; in the code that reading is taken on the caller's
host before the statement. `ClaimJobs` orders by run_at and skips locked rows: which rows a poll gets
depends on concurrent polls, so `ClaimBatch` takes any non-empty subset of the claimable rows. No
caller sets a run_at in the future, so a job is due when it is inserted. The payload, the result and
the error text do not influence control and are left out. `AttemptLimit` bounds the counter
`attempts` (a 32-bit column in the code); no other bound is in a guard except the numbers of faults.

`JobLifecycle` is the abstract specification: `jobTransitions` of `domain/job.go`, one variable.
`JobQueue` is shown to implement it (`RefinesLifecycle`). `RetryBackoff` is `NextRetryRunAt` as a
recursive function; the instances take their `Backoff` from it.

### Tokens: `TokenFamily`, `RotationChain`

`TokenFamily` models the token and revocation endpoints of `backend/oauth2` as concurrent requests,
each a sequence of store calls; a request record holds what the code keeps in local variables
between them (the code record and the token record it read, the instant `now` it started with).

| State | Code |
|---|---|
| `code` | `AuthorizationCodeRecord`: state, expiry, IssuedFamilyID |
| `row`, `stored`, `rotated`, `revoked` | `RefreshTokenRecord`: the columns written once, the rows that exist, the two flags; a family is named by its first token |
| `used`, `killed` | history: tokens ever inserted, families on which RevokeFamily ran |
| `known` | tokens that reached a client |
| `user`, `epoch` | status of the owner (idmanagement), revocation epoch (sharedsignals) |
| `req` | the requests in flight |

| Action | Code |
|---|---|
| `SaveCode` | the end of the authorization endpoint |
| `FindCode`, `MarkExpired`, `CheckCodeUser`, `Redeem`, `SignTokens`, `SaveToken`, `LinkFamily` | `ExchangeCodeForToken`, in the order of its calls |
| `FindByHash`, `CheckOwner`, `CheckEpoch`, `Rotate`, `IssueAccess` | `RefreshTokens`, in the order of its calls |
| `RevokeFamily`, `RevokeToken`, `Reply` | the revocation both end in when they detect a replay, the revocation endpoint, a refusal |
| `RevokeBySid`, `SetUserDisabled`, `AdvanceEpoch`, `DeleteUser`, `DeleteAllForSub`, `Tick` | logout, administration, time |

Abstractions. Client authentication, PKCE, redirect URIs, scopes, DPoP and signatures are reduced to
"the request ends here without a change" or "the caller is not the owning client". The constant
`Store` selects which of the two stores is wired: they differ in what TenantID a stored record comes
back with, and in what Rotate says of a parent that was deleted. A store call is atomic: db_memory
holds its mutex, db_postgres runs one statement, or locks the parent row for Rotate. Under READ
COMMITTED the family-wide UPDATE of db_postgres may miss a row that a Rotate inserts while the
UPDATE waits; no refresh reaches that Rotate today (section 4), so the steps are not split. The save
of SetUserDisabled and the Advance of the epoch are separate steps because an error between them
is possible in the code.

`RotationChain` is the abstract specification: one head per family, every request one step.
`TokenFamily` implements it with `head` mapped to the usable token of the family (`RefinesChain`).

### Signals: `SignalDelivery`

The outbox of `backend/sharedsignals`: one row per SET and stream, worker processes that lease due rows
and push them, and the administration of streams. One step is one statement or one push.

| State | Code |
|---|---|
| `stream`, `config`, `usage` | `ssf_streams` (status, consecutive_failures, first_failure_at), `ssf_transmitter_configs`, the ssf_streams counter of the quota |
| `rows` | `security_event_deliveries`: stream, status, attempt_count, time to next_attempt_at (a lease is a next_attempt_at in the future) |
| `send[w][s]`, `age[w]` | the goroutine of `deliverStream` with the copies of rows it claimed (a set of identities with rows; the code goes through its slice by identity, `First`), and the time since the cycle's `now` |
| `admin` | an administration request between its read and its write |
| `received`, `pushes`, `accepted`, `late` | history: SETs the receiver has, attempts per row, streams that accepted something since their first counted failure, whether a lease ran out under a working process |

`ClaimDue`, `StartStream`, `Push`, `SaveOutcome`, `RecordDeliverySuccess`, `RecordDeliveryFailure` are one cycle of
`ProcessDueDeliveries`; `Push` has three outcomes (accepted, refused, accepted with the answer lost).
`Abandon` is the death of the process or an error that ends the cycle. `CaptureAuditEvent` and
`ProjectSessionRevoked` write rows; `Reserve` to `Redeliver` are the use cases of `admin_streams.go`, read and
write apart; `PurgeSettled` is the batch. `NextAttemptDelay` is the backoff. Every stream subscribes to
every event; the SET, its signature and the endpoint are data. All processes read one clock, and a
claim takes every due row: the skew between workers and the LIMIT 100 of a claim are left out. `Register` saves
the stream and its configuration in one step, one of whose outcomes is the error in between (the stream
without its configuration, the quota slot given back), and `DeleteStream` deletes and gives the slot back in
one step; a stream without its configuration, which others could meet in between, stays around after that
error, and a crash that keeps the quota slot of a stream that was not saved or is gone is not modelled.

### Stopping users and agents: `Offboarding`

Users, their agents, revocation epochs, inbound security events and the purge, as concurrent requests of
one statement per step, each of which may fail before any of them (`Fail`).

| State | Code |
|---|---|
| `user` | status, StatusChangedAt and PendingPurge.Step of the users row, which `SaveUser` writes as a whole |
| `agent` | status and owner; `Commit` applies a change to the latest row under its lock |
| `epoch` | user and agent revocation epochs; `TokenLive` is `AccessTokenIsRevoked` on them |
| `recorded` | `received_security_events`, unique by jti |
| `usage`, `announced` | the users counter; users for whom UserDeleted was emitted |
| `req` | the requests: kind, subject, the row or instant they read, the agents still to do |
| `stopped`, `lost`, `owed`, `loose` | history: the instant up to which answered requests revoked somebody; the instant up to which stops that failed before the epoch should have; users whose agents a half-failed stop, or an edit that wrote a stopped row back, left running; agents set running while their owner was being stopped |

A stop is `AskStop`, `Save`, `RevokeUser`, `ListOwned`, `RevokeOwned`, `ListOwned`, `DisableOwned`,
`RevokeAgent`, `Answer`, in the order of `SetUserDisabled` and the reactor it emits to. A purge is `PurgeRead`,
the agents, `Tombstone`, `ReleaseUsage`, `SaveAnnounce`, `Announce`, `ClosePurge`, and `ResumeAt` says where a
repetition goes on; it is asked for by an administrator or by the sweep (`PurgeExpiredSoftDeleted`).
`RecountUsage` is the recount of the same batch. `AskReceive`, `RecordEvent`, `Reflect` are `ReceiveSecurityEvent`. The
cascades to credentials and consents, attributes, and provisioning notices are left out: they are
repeated as a whole and nothing here reads them. Instants are read at the beginning of a request, as in
the code, and together with its first read (`Begin`).

### Provisioning: `Provisioning`

One connection, its users, tasks, reservations, links and jobs, two dispatchers, runners, the incremental
sync, and one administrator.

| State | Code |
|---|---|
| `user`, `assigned`, `captures` | what idmanagement and application know, and changes committed but not yet captured |
| `conn` | status, guard, health and failure counter, written as a whole row by everybody |
| `tasks`, `reservations` | by source id and version: operation, status, job; scheduled, cancelled or materialized |
| `link`, `down` | `RemoteResourceLink`, and the resource the downstream really has |
| `jobs` | the jobs of the Jobs module reduced to task, dedup key, status, attempts and owner |
| `disp`, `run`, `rec`, `admin`, `resync` | local state of the dispatchers, job handlers, sync and administrator; the full resync |
| `retried`, `late` | history: tasks an administrator retried; whether a lease ran out under an execution |

`ChangeUser`, `ChangeAssignment`, `Capture` lead to tasks and reservations (`Operation`, `Wanted`, `Reserved`
are the translation of triggers). `ListDue`, `Materialize`, `ListPending`, `EnqueueTask`, `AttachJob` are the
dispatcher; `Claim` to `Complete` the job handler with its early returns: `Claim` with the check for a stale job, `Load`
with what ExecuteTask reads before it acts (the task once more, the connection, the link), then the calls downstream, link,
status, failure counter and the count of a resync; `ReadLinks`, `Plan`, `SavePlanned`, `QuarantineByGuard` the
incremental sync; `BeginEdit` to `CompleteResync` the administration. `HandlerFails` and `LoopFails` are errors
and crashes at any step; an error within ExecuteTask is retried or, at the last attempt, makes the task a dead letter and counts
against the connection, as a refusal of the downstream does. Two groups of reads are one step each: the claim with the
handler's first read of the task, and the three of `Load`; between the two groups anything may happen. Attributes other than active, groups, mappings and credentials are data. A
version is an instant (UnixNano in the code): the clock gives every event its own.

### Grants: `Grants`

One grant, of the device or of the approval kind, and the requests of clients (`Polls`), people
(`Decisions`) and resource servers (`Evaluations`), each of which takes its instant when it begins.

| State | Code |
|---|---|
| `kind`, `row` | the row of `oauth2_device_codes`, or of `oauth2_approval_requests`: state, user, whether an agent is bound, expiry, interval, last poll, recorded use |
| `status` | users, the agent of the client and its owner: active or stopped |
| `req` | per request: step, instant, record read, answer, and who was stopped when it began |

`ReadDevice`/`SaveDevice` and `PollDevice`/`SavePoll` are the whole-record updates of the device store,
`Exchange` its conditional update; `ReadApproval`/`Decide`, `PollApproval`/`Expire`/`RecordPoll`/`Consume`
the conditional updates of the approval store. The client of either kind may be bound to an agent. `Check` reads the user, then,
for an approval of a bound client, the agent and its owner, one read a step; a device exchange reads the user alone. `Sign`
issues; `Match`/`Claim`/`Reread` spend the approved operation, `Reread` being the query of who lost the claim;
`Stop`, `DeleteAllForSub`, `Sweep`, `Tick` are the surroundings. A request that fails is one that takes
no further step. Codes, scopes, sender constraints, authorization details and the guardrail policies of agents are data.

## 3. Runs

| Run | Instance | Checks | Size |
|---|---|---|---|
| `jobs_queue` | two jobs with one dedup key, two workers, quota 1, one canceled over the API and one as an export, one crash or error, one lost heartbeat loop; heartbeats may be arbitrarily late | `TypeOK`, `FreedAtMostOnce`, `DedupUnique`, `LatestAttemptOwnsLease`, `TerminalImmutable`, `RefinesLifecycle` | 669,000 states, under a minute |
| `jobs_timely` | one job, two workers with two slots each, clocks off by one either way, a lease of three units, two crashes or errors; heartbeats on time | `SingleExecution`, `DeadLetterAtMax` | 1,450 states |
| `jobs_live` | as `jobs_queue`, heartbeats on time, with fairness | `AttemptsBounded`, `EveryJobEnds` | 324,000 states, one minute |
| `token_requests` | two requests at once, one code, three tokens, the memory store in the default tenant, a clock that passes every expiry | `TypeOK`, `OneLivePerFamily`, `OneFamilyPerCode`, `DeadFamilyStaysDead`, `AbsoluteLifetime`, `NeverUsableAgain`, `RefinesChain` | 535,000 states, one minute |
| `signals_delivery` | one stream, one signal, two workers, two attempts, a cycle that may last as long as the lease, one fault, one redelivery, an administrator | `TypeOK`, `DeliveredWasReceived`, `LeaseExclusive`, `DeadLetterEarned`, `DeliveredIsFinal` | 1,505,000 states, one to two minutes |
| `signals_live` | one stream, two signals, one worker, one crash, with fairness | `EverySignalSettles` | 214,000 states, one minute |
| `offboarding` | two users, one agent, two requests at once out of three in all, one inbound SET, one failure | `TypeOK`, `RevocationHolds`, `NoOrphanAgents`, `PurgeNeverForgets`, `KilledIsFinal` | 2,394,000 states, one to two minutes |
| `offboarding_live` | one user, two requests at once, one failure, with fairness | `PurgeEnds` | 221,000 states, one minute |
| `provisioning_tasks` | one user, two dispatchers, two runners, a connection that creates and updates only, one disturbance | `OneExecutionPerTask`, `SucceededIsFinal` | 1,005,000 states, one minute |
| `provisioning_resync` | one user, deletion after a grace period, two attempts, the guard on or off, two disturbances | `TypeOK`, `GraceHonoured`, `ResyncCompletes`, `CancelledIsFinal` | 4,402,000 states, two minutes |
| `provisioning_converges` | one user, one dispatcher, one runner, no disturbance | `Converges`, violated | stops at the violation |
| `grants` | two users, an agent and its owner, two polls, two decisions, two evaluations, two operation keys, one stop | `TypeOK`, `TokensBackedByApproval`, `NoTokenForBarred`, `UsedOnce`, `SlowDownsCounted` | 2,073,000 states, two minutes |

What the properties say.

- `TerminalImmutable`, `RefinesLifecycle`: no late report, heartbeat, claim or cancellation touches a
  job that has ended, and the composed system takes only the transitions of the domain.
- `FreedAtMostOnce`: runner, stale executions and export cancellation never free one slot twice,
  though each frees it in a statement separate from the one that ended the job.
- `DedupUnique`: uniqueness survives a retry that puts a job back into the queue.
- `LatestAttemptOwnsLease`: an older claim is outrun; only an execution of the same worker can pass
  the lease check in its place (section 4 says what then goes wrong).
- `SingleExecution`, `DeadLetterAtMax`: under timely heartbeats the take-over (`<`) and the reports
  (`>=`) do not overlap, for clocks that differ.
- `AttemptsBounded`, `EveryJobEnds`: each fault costs at most one claim beyond max_attempts, and every
  job ends.
- `OneLivePerFamily`, `OneFamilyPerCode`, `DeadFamilyStaysDead`, `NeverUsableAgain`, `RefinesChain`:
  concurrent, repeated and revoked requests leave a family with at most one usable token, and with
  none after a revocation, whatever was in flight.
- `AbsoluteLifetime`: rotation never extends what the first token was given.
- `DeliveredWasReceived`: a row says delivered only if the receiver has the SET, although pushes, answers and saves
  are lost or late. `LeaseExclusive`, `DeadLetterEarned`, `DeliveredIsFinal`: while no cycle outlasts its lease, a
  row has one sender, is given up only after its attempts, and stays delivered. The condition is
  needed: `SaveSecurityEventDelivery` checks nothing, so a worker past its lease may write over another's
  outcome. `EverySignalSettles`: no row stays pending on a stream that stays enabled.
- `RevocationHolds`: a token from before an answered stop is dead, unless a stop of that user failed
  before it wrote the epoch (`lost`) or has still to write it; epochs that arrive out of order never bring one back. `NoOrphanAgents`: an agent runs for a
  stopped owner only if the stop is under way, failed without being repeated, or overlapped
  the registration, transfer or enabling of that very agent (the code re-reads the agent but not its
  owner). `PurgeNeverForgets`, `PurgeEnds`: a purge is closed only after it was announced, is
  taken up again wherever it broke off, and the counter it may have decremented twice is right in
  the end. `KilledIsFinal`: no request that read the agent before brings it back.
- `OneExecutionPerTask`, `SucceededIsFinal`: the dedup key (the task's identity and the job it had before)
  and the condition of AttachJob keep two dispatchers and late jobs from executing a task twice. One kind of task is
  excepted (`Recalled`, section 4), and a task that succeeded may still be given up by a repetition of its job that fails to read
  it at the last attempt (`GivesUpUnread`; section 4 says what that contradicts). `GraceHonoured`: neither a
  capture nor the sync, which plans from links and users alone, deletes before the grace is over.
  `CancelledIsFinal`: a restoration beats a dispatcher that had found the reservation due.
  `ResyncCompletes`: of several parties that count the last task one completes, and not before every subject counted
  at the start has a task that ended.
- `TokensBackedByApproval`: tokens are never more than the approvals of their user, and for approval requests
  at most one set, in time, without a denial. `NoTokenForBarred`: a request that began after its user was stopped gets no token, of
  either grant; nor, for an approval of a client bound to an agent, one that began after the agent or its owner was, each of whom is
  read in a step of its own. A device exchange does not look at the agent: section 4. `UsedOnce`: of two keys only one is permitted.
  `SlowDownsCounted`: concurrent polls lose no increment.

Bounds, and why they are enough. Two jobs are needed for a dedup conflict, a second claimant of the
quota and a batch of two; two workers for a take-over; `MaxAttempts = 2` has a first, a last and,
with `AttemptLimit` above it, an attempt past the last. `LeaseDuration = 1` suffices where lateness
is free, since expiry is then one tick away; `jobs_timely` has 3 with `Skew = 1` so that leases are
judged differently by different clocks. One fault of each kind makes each recovery happen once, and
twice in `jobs_timely`. Two requests make every pairwise race of the token endpoint; three tokens are
a family with two rotations, or two families; `RefreshTTL = 1`, `AbsoluteTTL = 2`, `MaxTime = 3` pass
the code's expiry, the sliding and the absolute one. For signals, two workers make every take-over of a lease, two attempts have one that is retried and one that is the
last, and an age up to the lease lets a row be claimed while its first worker still holds it; the live run has two rows, so that
one stays behind when the other is refused. For offboarding, two requests make every pairwise race
and a third one follows (the repetition of a failed stop, a sweep after a purge); the
second user receives agents; two units of time order a stop before another. For provisioning, three versions are a
creation and two changes that can be reordered, and two jobs are a task's first and its second; a disturbance is
any fault, lost capture, lapse of a lease or administrative request, and two of them make a fault within a resync. The one
disturbance of `provisioning_tasks` does not lead a task through a quarantine to its second job; there the theorem `OneAtATime`
is the evidence. For grants, two of each kind of request make every pairwise race and `MaxClock` passes the expiry.
Every action is taken in some passing run.
Workers, tokens, requests and the users of the grants are permuted (SYMMETRY) in the runs without liveness; nothing in the
specifications distinguishes them in those configurations.

Deadlock checking is on in the runs of jobs, where time always passes: that jobs make progress is
what `EveryJobEnds` shows. It is on for signals, too. In the other runs it is off: the clock, the supply of
tokens, requests and disturbances are bounded and clients may stop sending requests, so the system may rightly stop.

Fairness. In `jobs_live`: weak fairness of: the remaining statements of an Enqueue call (it runs to
its end unless it fails); claiming (a runner polls on a ticker as long as its process lives, and some
worker of the lane is up); heartbeats; the end of an execution (handlers return: the runner sets no time
limit, so this is an assumption on the handlers, and one canceled with its lease sees it in its context); time. None
is assumed of enqueuing, cancellation or faults. There are finitely many faults; without that bound
a job could be lost to a crash over and over. `TimelyTick` says that time does not pass a lease whose
heartbeat loop is alive: the loop ticks every third of a lease (`runner.go`), and loops that die on an error
are exempt (`HeartbeatError`). In `signals_live`: time, every worker's cycle (`sharedSignalsDeliveryLoop` ticks as
long as the process lives; an abandoned cycle is followed by another), and requests that began run on. In
`offboarding_live`: requests that began run on unless they fail, the sweep comes to every candidate
(`RunRetentionSweepOnce` in the periodic batch: an error of one of its sweeps may end that run of it early, and the scheduler
starts another, as long as the errors are finitely many), and so does the recount. No
fairness is assumed of events, administrators, receivers that accept, or faults.

## 4. Where the code and the documentation disagree

`provisioning_converges` is a run of the project and its finding is quoted in `PROJECT.json`: two tasks of one
user executed in the other order leave the downstream deactivated and the link active. `upsertLink`
drops the older version from the link, after the call that has changed the downstream; the incremental sync
compares users with links and finds nothing to do.

The following are stated as properties in the modules and violated; each configuration shows one in a few
seconds, run by hand (`tlc -config JobsCancelLeak.cfg MCJobQueue`).

| Configuration, property | What the code does | What it contradicts |
|---|---|---|
| `JobsCancelLeak`, `CanceledFreesSlot` | canceling a job over the admin API, or as a data export, never frees its active_jobs slot: the cancellation does not (`jobs/internal/usecases/admin.go:157`), and the runner finds its lease lost and does not either | `runner.go:63` "QuotaRepo frees the tenant's active_jobs Hard Quota slot when a Job reaches a terminal state" |
| `JobsSlotLost`, `SettledFreesSlot` | the heartbeat loop outlives the report (`runner.go:228`); a tick before the decrement takes the settled row for a lost lease and cancels the decrement's context | the same line |
| `JobsRefusedRuns`, `RefusedNeverRuns` | a job is inserted, and claimable, before the quota is asked (`enqueue.go:71`) | `docs/modules/tenancy/features/quota.md:83`: a refused request makes no resource |
| `JobsStaleFail`, `DeadLetterAtMax` | a lease is identified by the worker id, which a second claim by the same worker shares; an execution whose heartbeat loop ended on an error requeues a job on its last attempt (`runner.go:239`) | `docs/modules/jobs/features/queue.md:115` |
| `TokenLoser`, `LoserRevokesFamily` | the exchange that loses the race revokes by the record it read before, which names no family yet (`exchange_code.go:139`) | `docs/modules/oauth2/features/authorization.md:162`: the loser revokes the family |
| `TokenSliding`, `ExpiredNeverRotates` | the sliding expiry is written and never compared with the clock (`refresh_tokens.go:80`) | `docs/modules/oauth2/features/token.md:40,55` |
| `TokenPostgres`, `OwnTokenAccepted` | db_postgres keeps no TenantID of a token and the refresh compares it: the first refresh is refused (`token/db_postgres/refresh_tokens.go:98`); in db_memory a rotated token gets the default tenant, so in another tenant the second one is | `docs/modules/oauth2/features/token.md:124` |
| `SignalsAutoDisable`, `DisabledOnlyWhenDead` | failures are cleared only after a whole batch was accepted (`deliver.go:121`); a stream that accepts one SET per cycle is disabled as dead | `docs/modules/sharedsignals/features/transmitter.md`, REQ-SHAREDSIGNALS-018: an accepted delivery clears the record |
| `OffboardingStoppedTokens`, `StoppedTokensStayDead` | the epoch fails to be advanced after the user was saved as stopped, the stop is repeated as a no-op for the epoch, and enabling the user revives the tokens | `docs/modules/sharedsignals/features/revocation.md:57` |
| `OffboardingAcceptedSet`, `AcceptedIsReflected` | the jti is recorded before the epoch is advanced (`receive.go:121`); after a failure in between the repetition is a duplicate | `docs/modules/sharedsignals/features/receiver.md:44` |
| `OffboardingDeletedFinal`, `DeletedIsFinal` | `SaveUser` upserts the whole row a request read; an edit that overlaps a purge brings the user back | `docs/modules/identity-management/features/user.md:73` |
| `ProvisioningStuck`, `InFlightHasJob` | a job that meets the quarantine before AttachJob ends; the attachment then marks the task in_flight for good (`dispatcher.go:64`) | `docs/modules/provisioning/features/task.md:84-87`, REQ-PROVISIONING-020 |
| `ProvisioningSucceeded`, `SucceededStays` | ExecuteTask reads the task first, and any error of it at the last attempt goes to deadLetter, which sets the status whatever it is (`job_handler.go:103-107`, `provisioning.sql:139`): a job repeated after its task had succeeded, whose read fails, makes the task a dead letter | `docs/modules/provisioning/features/task.md:50`: in succeeded, a failed attempt does nothing |
| `GrantsStoppedAgent`, `StoppedAgentGetsNothing` | the exchange of a device code reads the user and not the agent that the client is bound to (`device_flow.go:284-303`; the comment at `agent_issuance.go:69` counts device_code among the grants that do not resolve the agent), so the client of a stopped agent gets a token | `docs/modules/identity-management/features/agent.md:36`: no new token for an agent that is not active; `docs/modules/oauth2/features/token.md:391`: every way of issuing checks the status |
| `GrantsDeviceOnce`, `DeviceExchangedOnce` | an approval that overlaps the exchange writes its whole record back (`device_code_store.sql:5`), and the code is exchanged again | `docs/modules/oauth2/features/device.md:66`: Exchanged is terminal |

`TokenOtherTenant.cfg` (module `MCTokenFamily`) is the one such configuration that passes: `DeadFamilyStaysDead` in a tenant
other than the default one, an instance of the theorem `RevocationIsFinal`.

Known to the models, without a sentence to check: a dedup conflict whose holder ends before it is looked up makes the
enqueue fail (`jobs/internal/db_postgres/postgres.go:98`); a signature that fails after Rotate costs the client its family
(`refresh_tokens.go:157`); UpdateSsfStream may enable a stream that was disabled in between (`admin_streams.go:308`); a
registration that half failed gives its quota slot back (`admin_streams.go:189`); writers of a connection undo one
another's quarantine or resumption (`provisioning/internal/db_postgres/repositories.go:125`); RetryTask clears the job of a
task (`provisioning/internal/usecases/admin.go:458`), so that the dedup key of its next job is again the one of its first: if a quarantine had given the task a
second job, and that job is still to be repeated after an error, the second job and the new one have different keys and both
pass for current, and the task is executed twice (`Recalled` in `Provisioning`; the attempt to prove `OneExecutionPerTask`
without the exception showed it); a lost capture of a
restoration leaves its reservation (`provisioning.sql:153`); a full resync that fails between its tasks
stays running (`provisioning/internal/usecases/admin.go:398`). Not in a model: a logout between Redeem and Save of an exchange of the same session
(`end_session_handler.go:112`), which needs the session store; the UPDATE of a family that misses a row being
inserted under READ COMMITTED (`oauth2/internal/db_postgres/refresh_tokens.sql:35`).

## 5. Proofs

Six modules hold proofs: `JobQueueProofs`, `TokenFamilyProofs`, `SignalDeliveryProofs`, `OffboardingProofs`,
`ProvisioningProofs`, `GrantsProofs`. Every invariant and action property that a passing run checks is a theorem,
liveness excepted. The proofs assume the named assumption of the module they are about and nothing else, unless a
theorem states more. The assumptions give the constants their types and say what the code takes for granted: lifetimes,
leases, limits of attempts and intervals are positive, the sliding lifetime of a token is at most the absolute one, the
sentinels are not members of the sets they are added to, and the sets that are counted are finite (`Users` of `Offboarding` and
`Provisioning`, `Streams` of `SignalDelivery`, the polls and decisions of `Grants`). The bounds on clocks, jobs, faults
and disturbances are any numbers, at least 1 for the clocks of `Offboarding` and `Provisioning`, which start inside their range.

All proofs have one shape. A first invariant says that types hold and that what an actor holds at each step exists and
is of its kind (`RowInv`, `TokenInv`, `SigInv`, `OffInv`, `ProvInv`, `GrantInv`); for every action a lemma says what it changes and
that it preserves this invariant; the further invariants are proved from those lemmas, with one lemma
for the steps that leave alone what the invariant talks about.

Jobs, for any sets of jobs, workers and tenants, any lease, backoff, skew and number of faults:

| Theorem | Statement | Argument |
|---|---|---|
| `TypeCorrect` | `Spec => []TypeOK` | `RowInv`: types, and a lease is owned exactly while the job runs, a call not begun has no row |
| `TerminalStaysFrozen` | `Spec => TerminalImmutable` | per action, from `RowInv`: every UPDATE is guarded by an active status |
| `SlotFreedOnce` | `Spec => []FreedAtMostOnce` | `SlotInv`: at most one party is about to free a slot, only after the job ended, and none once it is freed. `FreedAtMostOnce` alone is not inductive: it does not know who is about to free |
| `DedupKeysUnique` | `Spec => []DedupUnique` | inductive with `RowInv`: only an insertion adds an active job |
| `LatestOwns` | `Spec => []LatestAttemptOwnsLease` | inductive with `RowInv`: a claim raises attempts past every execution alive |
| `QueueImplementsLifecycle` | `Spec => RefinesLifecycle` | each action is a step of the lifecycle or a stutter |
| `OneExecutionAtATime` | `TimelySpec => []SingleExecution` if `2 * Skew <= LeaseDuration` | `LeaseInv`: until a heartbeat loop ends on an error, an execution that handles its job is the latest claim, with at least `Skew` left on its lease, or the job is canceled; and it is the only one |
| `DeadLetter` | `TimelySpec => DeadLetterAtMax` if moreover `MaxMissed = 0` | from `LeaseInv`: the execution that fails carries the current attempt |
| `AttemptsPaid` | `TimelySpec => []AttemptsBounded` if `2 * Skew <= LeaseDuration` | `BeatInv`: a lease whose heartbeat loop lives is past for no clock; and an account per job: the claims made, the executions alive that may still put it back and the claim it may get without a report are at most 1 + faults + lost heartbeat loops + the retries. The bound alone does not see the claims that executions alive may still cause |

The hypothesis on `Skew` is needed: a fresh lease is `LeaseDuration + e` for a clock error `e >= -Skew`
and must not look expired to a clock ahead by `Skew`.

Tokens, for any sets of codes, tokens, requests and sessions, either store, any tenant and lifetimes:

| Theorem | Statement | Argument |
|---|---|---|
| `TokenTypeCorrect` | `Spec => []TypeOK` | `TokenInv`: types, and what a request holds refers to rows that exist |
| `OneUsableToken`, `RevocationIsFinal` | `Spec => []OneLivePerFamily`, `Spec => []DeadFamilyStaysDead` | `LiveInv`, both together: Rotate replaces a usable token by one of the same family, and a revoked family has none to replace |
| `UsableOnlyOnce` | `Spec => NeverUsableAgain` | from the effect lemmas (`SaveEffect`, `RotateEffect`, `EndEffect`): a step adds only a token never used |
| `RequestsImplementChain` | `Spec => RefinesChain` | `LiveInv` makes the mapped head unique; Save starts a chain, Rotate advances it, revocations and deletions end it, all else stutters |
| `CodeStartsOneFamily` | `Spec => []OneFamilyPerCode` | `CodeInv`: tokens stem from redeemed codes, one request at most has won a code and not started its family |
| `LifetimeNeverGrows` | `Spec => []AbsoluteLifetime` | `AgeInv`: moreover a request on its way to Rotate began before the absolute expiry of its token, which Rotate hands on; `AbsoluteLifetime` alone does not bound the instant the request carries |

Signals, for any streams, workers, deliveries and administration requests, any lease, backoff and number of faults:

| Theorem | Statement | Argument |
|---|---|---|
| `SignalTypes` | `Spec => []TypeOK` | `SigInv`: moreover an unsettled row has attempts left, a batch holds rows of its stream, a request is about a stream |
| `DeliveredIsReceived` | `Spec => []DeliveredWasReceived` | `ReceiptInv`: a worker about to record success has seen the receiver take that SET |
| `LeasesExclude`, `DeadLettersEarned` | `Spec => []LeaseExclusive`, `Spec => []DeadLetterEarned` | `LeaseInv`: until a lease runs out under a working process, a row is in one hand, is unsettled and leased for at least the rest of the lease counted from the cycle's `now`, and counts no more attempts than were made. Exclusion alone does not know how long the lease of the row in hand lasts |
| `DeliveryIsFinal` | `Spec => DeliveredIsFinal` | from `LeaseInv`: what a worker has in hand is not delivered |

Stopping users and agents, for any users, agents, requests at once, grace period and number of failures:

| Theorem | Statement | Argument |
|---|---|---|
| `OffboardingTypes` | `Spec => []TypeOK` | `OffInv`: which kinds of request reach which step and what they hold there |
| `RevocationsHold` | `Spec => []RevocationHolds` | `EpochInv`: every row that says a user is stopped, in the table or in the hands of a request, and every answered stop, is covered from the instant it bears: by the epoch, by a stop still to write it, or by one that was lost. The rows in hand are needed since an edit writes its whole row back |
| `NoAgentOrphaned` | `Spec => []NoOrphanAgents` | `AgentInv`: the agents of a stopped user that run are in the list of a stop under way, or that user is owed; who is past the list has none left |
| `PurgesAnnounced` | `Spec => []PurgeNeverForgets` | `PurgeInv`: a purge past its announcement has made it |
| `KillIsFinal` | `Spec => KilledIsFinal` | per action, with `BirthInv`: a request that registers an agent is alone with it; every other write starts from the row as it is |

Provisioning, for any users, runners, dispatchers, policy, limits and disturbances:

| Theorem | Statement | Argument |
|---|---|---|
| `ProvisioningTypes` | `Spec => []TypeOK` | `ProvInv`: what executions and dispatchers have in hand exists, and a reservation found due is due |
| `DeletionsWait` | `Spec => []GraceHonoured` | `GraceInv` with `VersionInv`: every version was taken from the clock by one change, one sync or one full resync, and what is to be saved under it is not in the tables yet. Without that a task could be added beside the reservation of another event |
| `CancellationsStand` | `Spec => CancelledIsFinal` | from `VersionInv`: no later reservation has the key of a cancelled one |
| `OneAtATime` | `Spec => []OneExecutionPerTask` | `QueueInv`: executions have the leases of their jobs and a dedup key has one active job; `FirstJobs`: a task that names no job, and was not retried, has only jobs with the first key; `SoleWorkers`: the task of an execution at work is not put back, names this job, none, or one that has ended, and is not settled once it was read. So another job of it is stale, or has the same key |
| `SuccessStands` | `Spec => SucceededIsFinal` | from `SoleWorkers`: who settles a task that it has read works on one that is not settled; who has not read it can only give it up at the last attempt (`Settles`) |
| `ResyncEndsOnce` | `Spec => []ResyncCompletes` | `ResyncInv`: the tasks of a resync and the subjects still to be given one are at most the subjects counted at the start, so that as many ended tasks as subjects are all of them; whoever is about to complete it has found it so, and ended tasks stay ended or are retried |

Grants, for any people, requests, operation keys, lifetime and interval:

| Theorem | Statement | Argument |
|---|---|---|
| `GrantTypes`, `BarredGetNothing` | `Spec => []TypeOK`, `Spec => []NoTokenForBarred` | `GrantInv`: what rows and requests of each kind hold at each step; a request past a check had found that person active since it began, and whoever is stopped stays so, so its user, and for an approval the agent and the owner, were not barred |
| `TokensAreBacked` | `Spec => []TokensBackedByApproval` | `DeviceInv`: the exchanges that spent a device code of a user, and the approval that waits in its row, are at most that user's approvals; `ApprovalInv`: an approval request is decided once and consumed once, in time |
| `OneUse` | `Spec => []UsedOnce` | `UseInv`: the permits bear the key that the row has recorded |
| `NoSlowDownLost` | `Spec => []SlowDownsCounted` | inductive with `GrantInv`: the interval is raised where it is, in one statement |

## 6. Only model-checked, and not modelled

Only model-checked: liveness (`EveryJobEnds`, `EverySignalSettles`, `PurgeEnds`), which under fairness is out of the
prover's reach, and the values of `RetryBackoff`, a recursive function over data (the proofs take any `Backoff`). The properties that are violated (`Converges`
and the table of section 4) are shown by TLC alone.

Not modelled, and why, component by component, is in `PROJECT.json`. The repository has about 165,000 lines of
implementation, of which the larger part is sqlc output, HTTP handlers that decode and encode,
page flows, administration of single configuration rows, protocol messages and cryptography, test support and
examples: they have no interleaving to explore, and a model of them would say what they
say. The specifications cover the statements of those components in which one row is
changed by several actors, or several rows by one. Within the modelled parts these are left out: DeleteForClient, the families
started by the device grant, the denylist of access tokens, group tasks and the registration of connections in
provisioning, receiver streams, creation and import of users, credential bindings of agents.

## 7. Plan

Written: `RetryBackoff`, `JobLifecycle`, `JobQueue`; `RotationChain`, `TokenFamily`; `SignalDelivery`, `Offboarding`,
`Provisioning`, `Grants`; the MC module of each, and the six proof modules.

Worth stating and proving next: abstract specifications for the other components, as `JobLifecycle` and `RotationChain` are for
jobs and tokens, and their refinement (the life of a delivery row, of a provisioning task, of a grant); the uniqueness of dedup keys that
`Provisioning` relies on, as a refinement by its jobs of the queue of `JobQueue`; and what holds of a provisioning task after a lease has run
out under its execution.

Worth modelling next: sessions with logout and back-channel notices, composed with `TokenFamily`; the rotation
of signing keys and data keys against caches and readers; the refresh of upstream tokens in the token vault;
the dispatch of lifecycle workflows; the cursor of the directory connector; the rate limiter and the
circuit breaker against one abstract limiter.
