----------------------------- MODULE Provisioning -----------------------------
(***************************************************************************)
(* Outbound provisioning of users to one downstream connection, over the   *)
(* PostgreSQL repositories: capture of user and assignment changes, the    *)
(* incremental sync that compares users with links, reservations of        *)
(* deletions, the dispatcher that gives tasks jobs, the job handler that    *)
(* calls the downstream, quarantine, full resync and the administration of *)
(* the connection.  The clock gives every event its version (UnixNano);    *)
(* attributes other than active, credentials, groups and other connections *)
(* are left out, and the jobs are those of the Jobs module without its     *)
(* times.                                                                  *)
(***************************************************************************)
EXTENDS Integers, Sequences, FiniteSets

CONSTANTS
  Users,                 \* identities, in the order the sync works through them
  Runners,               \* goroutines that execute jobs
  Dispatchers,           \* worker processes that run the dispatch loop
  None,                  \* no runner
  AllUsers,              \* scope = all_users; otherwise assigned_only
  Flags,                 \* operations the feature flags allow
  OnUnassign, OnDelete,  \* the deprovision policy
  Grace,                 \* grace_period_days, on the clock
  Guards, Unset,         \* settings of the accidental deletion guard; Unset: no threshold
  Limit,                 \* provisioningReconcileLimit
  Threshold,             \* quarantine_after_consecutive_failures
  MaxAttempts,           \* max_attempts of a job
  MaxClock, MaxJobs,     \* bounds: versions and jobs
  MaxDisturbances        \* bound: lost captures, errors, crashes, leases that run out and
                         \* requests of administrators, together

NoGuard == [count |-> Unset, percent |-> Unset]

ASSUME ProvisioningAssumption ==
  /\ Users \subseteq Nat /\ IsFiniteSet(Users)
  /\ None \notin Runners
  /\ AllUsers \in BOOLEAN
  /\ Flags \subseteq {"create", "update", "deactivate", "delete"}
  /\ {OnUnassign, OnDelete} \subseteq {"none", "deactivate", "delete"}
  /\ NoGuard \in Guards
  /\ {Grace, Limit, MaxJobs, MaxDisturbances} \subseteq Nat
  /\ {Threshold, MaxAttempts, MaxClock} \subseteq Nat \ {0}

VARIABLES
  clock,         \* the version given last
  user,          \* users: lifecycle status and updated_at
  assigned,      \* users assigned to the application
  captures,      \* changes that are committed and not yet captured
  conn,          \* provisioning_connections: status, the guard's setting, health,
                 \* consecutive_failure_count
  tasks,         \* provisioning_tasks by <<source_id, source_version>>
  reservations,  \* provisioning_scheduled_deprovisions, by the same pair: status
  link,          \* provisioning_remote_links by user; id 0: no row
  down,          \* the downstream's resource of each user; id 0: none
  ids,           \* the identity the downstream gave last
  jobs,          \* provisioning_task jobs, by identity
  disp,          \* per dispatcher: the task or reservation in hand
  run,           \* per runner: the handler's local state
  rec,           \* the incremental sync
  admin,         \* the administration request in progress
  resync,        \* provisioning_full_resyncs: the one full resync
  disturbances,  \* how many of them there were
  retried,       \* history: tasks retried by an administrator
  late           \* history: a lease has run out under an execution

store == <<clock, user, assigned, captures, conn, tasks, reservations, link, down, ids, jobs>>
actors == <<disp, run, rec, admin>>
vars == <<store, actors, resync, disturbances, retried, late>>

Triggers == {"created", "attributes", "enabled", "disabled", "deleted", "added", "removed"}
Operations == {"create", "update", "deactivate", "delete"}
Terminal == {"succeeded", "dead_letter"}
Keys == Users \X (1..MaxClock)
Job(k, prev) == [task |-> k, prev |-> prev, status |-> "queued", attempts |-> 0, owner |-> None]
NoLink == [id |-> 0, active |-> FALSE, version |-> 0]
NoConn == [status |-> "active", guard |-> NoGuard, health |-> "ok", failures |-> 0]
NoRun == [step |-> "idle", job |-> 0, attempt |-> 0, link |-> NoLink, active |-> FALSE,
          failed |-> FALSE, conn |-> NoConn]
NoTask == <<0, 0>>
NoDisp == [step |-> "idle", task |-> NoTask, job |-> 0]
NoRec == [step |-> "idle", version |-> 0, links |-> [u \in Users |-> NoLink],
          plan |-> {}, conn |-> NoConn]
NoAdmin == [step |-> "idle", op |-> "none", conn |-> NoConn, todo |-> {}]

(* Users that are to be created, and users that are in scope and provisioned. *)
Init ==
  /\ clock = 1
  /\ user \in [Users -> [state : {"absent", "active"}, version : {1}]]
  /\ assigned = {u \in Users : user[u].state = "active"} /\ captures = {}
  /\ conn = NoConn
  /\ tasks = <<>> /\ reservations = <<>>
  /\ link = [u \in Users |-> IF u \in assigned THEN [id |-> 1, active |-> TRUE, version |-> 1]
                             ELSE NoLink]
  /\ down = [u \in Users |-> [id |-> link[u].id, active |-> link[u].active]]
  /\ ids = 1
  /\ jobs = <<>>
  /\ disp = [d \in Dispatchers |-> NoDisp]
  /\ run = [r \in Runners |-> NoRun]
  /\ rec = NoRec /\ admin = NoAdmin
  /\ resync = [status |-> "none", total |-> 0, version |-> 0, members |-> {},
               counted |-> 0, completions |-> 0]
  /\ disturbances = 0
  /\ retried = {} /\ late = FALSE

Disturb == disturbances < MaxDisturbances /\ disturbances' = disturbances + 1
InScope(u) == AllUsers \/ u \in assigned
Quarantined(c) == c.health = "quarantined"

-------------------------------------------------------------------------------
(* Changes of users and assignments, and what is captured of them *)

Change(u, state, trigger) ==
  /\ clock < MaxClock
  /\ clock' = clock + 1
  /\ user' = [user EXCEPT ![u] = [state |-> state, version |-> clock + 1]]
  /\ captures' = captures \union {[user |-> u, trigger |-> trigger, version |-> clock + 1]}
  /\ UNCHANGED <<assigned, conn, tasks, reservations, link, down, ids, jobs, actors,
                 resync, disturbances, retried, late>>

(* createUser, UpdateUser, SetUserDisabled, SoftDeleteUser, RestoreUser, DeleteUser:
   what is committed before notifyProvisioning is called. *)
ChangeUser(u) ==
  \/ user[u].state = "absent" /\ Change(u, "active", "created")
  \/ user[u].state = "active" /\ Change(u, "active", "attributes")
  \/ user[u].state = "active" /\ Change(u, "disabled", "disabled")
  \/ user[u].state \in {"active", "disabled"} /\ Change(u, "pending_deletion", "deleted")
  \/ user[u].state \in {"disabled", "pending_deletion"} /\ Change(u, "active", "enabled")
  \/ user[u].state \notin {"absent", "deleted"} /\ Change(u, "deleted", "deleted")

(* AssignApplication, UnassignApplication: updated_at of the user stays. *)
ChangeAssignment(u) ==
  /\ ~ AllUsers /\ user[u].state # "absent"
  /\ clock < MaxClock
  /\ clock' = clock + 1
  /\ assigned' = IF u \in assigned THEN assigned \ {u} ELSE assigned \union {u}
  /\ captures' = captures \union
       {[user |-> u, trigger |-> IF u \in assigned THEN "removed" ELSE "added",
         version |-> clock + 1]}
  /\ UNCHANGED <<user, conn, tasks, reservations, link, down, ids, jobs, actors,
                 resync, disturbances, retried, late>>

(* translateTrigger *)
Operation(trigger) ==
  CASE trigger \in {"created", "added"}       -> "create"
    [] trigger \in {"attributes", "enabled"}  -> "update"
    [] trigger = "disabled"                   -> "deactivate"
    [] trigger = "deleted"                    -> OnDelete
    [] trigger = "removed"                    -> OnUnassign

(* Save: a task with the same version is left as it is. *)
WithTask(ts, k, op) ==
  [x \in DOMAIN ts \union {k} |->
     IF x \in DOMAIN ts THEN ts[x] ELSE [op |-> op, status |-> "pending", job |-> 0]]

\* Mutant: a reservation is added beside one that is scheduled.
WithReservationBeside(rs, k) ==
  [x \in DOMAIN rs \union {k} |-> IF x = k THEN "scheduled" ELSE rs[x]]
(* ScheduleDeprovision: at most one scheduled reservation per user. *)
WithReservation(rs, k) ==
  IF \E x \in DOMAIN rs : x[1] = k[1] /\ rs[x] = "scheduled" THEN rs
  ELSE [x \in DOMAIN rs \union {k} |-> IF x = k THEN "scheduled" ELSE rs[x]]

Cancelled(rs, u, before) ==
  [x \in DOMAIN rs |-> IF x[1] = u /\ x[2] < before /\ rs[x] = "scheduled"
                       THEN "cancelled" ELSE rs[x]]

Wanted(c) ==
  /\ conn.status = "active" /\ ~ Quarantined(conn)
  /\ Operation(c.trigger) \in Flags
  /\ c.trigger \in {"added", "removed"} \/ InScope(c.user)

Reserved(trigger, op) == trigger = "deleted" /\ op = "delete" /\ Grace > 0

(* CaptureLifecycleEvent.  Its reads and its writes of one user are one step; an error
   after the cancellation leaves the rest undone. *)
Capture(c) ==
  LET k == <<c.user, c.version>>
      op == Operation(c.trigger)
      kept == IF c.trigger \in {"added", "enabled"}
                THEN Cancelled(reservations, c.user, c.version) ELSE reservations
  IN  /\ captures' = captures \ {c}
      /\ \/ /\ Wanted(c) /\ Reserved(c.trigger, op)
            /\ reservations' = WithReservation(kept, k)
            /\ UNCHANGED <<tasks, disturbances>>
         \/ /\ Wanted(c) /\ ~ Reserved(c.trigger, op)
            /\ tasks' = WithTask(tasks, k, op)
            /\ reservations' = kept /\ UNCHANGED disturbances
         \/ /\ ~ Wanted(c)
            /\ reservations' = kept /\ UNCHANGED <<tasks, disturbances>>
         \/ /\ Disturb
            /\ reservations' \in {kept, reservations} /\ UNCHANGED tasks
      /\ UNCHANGED <<clock, user, assigned, conn, link, down, ids, jobs, actors,
                     resync, retried, late>>

-------------------------------------------------------------------------------
(* ReconcileConnections *)

(* awaitsSettledTask *)
Awaits(u) ==
  \E k \in DOMAIN tasks :
    /\ k[1] = u
    /\ \/ tasks[k].status \in {"pending", "in_flight"}
       \/ tasks[k].status = "dead_letter" /\ k[2] >= user[u].version

(* planUser, planDeprovision: the operation that is missing, or "none". *)
Planned(u, lnk) ==
  LET active == user[u].state = "active"
      gone == user[u].state = "deleted"
      policy == IF gone THEN OnDelete ELSE OnUnassign
      op == IF user[u].state = "absent" THEN "none"
            ELSE IF gone \/ ~ InScope(u) THEN
              IF lnk.id = 0 \/ (policy = "deactivate" /\ ~ lnk.active) THEN "none" ELSE policy
            ELSE IF lnk.id = 0 THEN IF active THEN "create" ELSE "none"
            ELSE IF active /\ (~ lnk.active \/ user[u].version > lnk.version) THEN "update"
            ELSE IF ~ active /\ lnk.active THEN "deactivate" ELSE "none"
  IN  IF op \in Flags THEN op ELSE "none"

Schedules(u, op) == user[u].state = "deleted" /\ op = "delete" /\ Grace > 0

(* exceedsAccidentalDeletionGuard *)
GuardExceeded(deprovisions, linked) ==
  \/ rec.conn.guard.count # Unset /\ deprovisions > rec.conn.guard.count
  \/ rec.conn.guard.percent # Unset /\ deprovisions * 100 > rec.conn.guard.percent * linked

ReadLinks ==
  /\ rec.step = "idle" /\ clock < MaxClock
  /\ conn.status = "active" /\ ~ Quarantined(conn)
  /\ clock' = clock + 1
  /\ rec' = [NoRec EXCEPT !.step = "plan", !.version = clock + 1, !.links = link,
                             !.conn = conn]
  /\ UNCHANGED <<user, assigned, captures, conn, tasks, reservations, link, down, ids, jobs,
                 disp, run, admin, resync, disturbances, retried, late>>

(* The reads that follow, and PlanReconciliation: users in order, cut off at the limit,
   unless there is too much to take away. *)
Plan ==
  LET op == [u \in Users |-> IF Awaits(u) THEN "none" ELSE Planned(u, rec.links[u])]
      planned == {u \in Users : op[u] # "none"}
      within == {u \in planned : Cardinality({v \in planned : v < u}) < Limit}
      deprovisions == Cardinality({u \in planned : op[u] \in {"deactivate", "delete"}})
      linked == Cardinality({u \in Users : rec.links[u].id # 0})
  IN  /\ rec.step = "plan"
      /\ rec' = IF GuardExceeded(deprovisions, linked) THEN
                  IF Quarantined(conn) THEN NoRec
                  ELSE [NoRec EXCEPT !.step = "quarantine", !.conn = conn]
                ELSE IF within = {} THEN NoRec
                ELSE [NoRec EXCEPT !.step = "save", !.version = rec.version,
                                   !.plan = {<<u, op[u], Schedules(u, op[u])>> : u \in within}]
      /\ UNCHANGED <<store, disp, run, admin, resync, disturbances, retried, late>>

(* saveReconcileAction *)
SavePlanned ==
  /\ rec.step = "save"
  /\ \E p \in rec.plan :
       /\ \A q \in rec.plan : p[1] <= q[1]
       /\ IF p[3]
            THEN /\ reservations' = WithReservation(reservations, <<p[1], rec.version>>)
                 /\ UNCHANGED tasks
            ELSE /\ tasks' = WithTask(tasks, <<p[1], rec.version>>, p[2])
                 /\ UNCHANGED reservations
       /\ rec' = IF rec.plan = {p} THEN NoRec ELSE [rec EXCEPT !.plan = @ \ {p}]
  /\ UNCHANGED <<clock, user, assigned, captures, conn, link, down, ids, jobs,
                 disp, run, admin, resync, disturbances, retried, late>>

(* quarantineConnection, by the guard: the row as it was read, with its new health. *)
QuarantineByGuard ==
  /\ rec.step = "quarantine"
  /\ conn' = [rec.conn EXCEPT !.health = "quarantined"]
  /\ rec' = NoRec
  /\ UNCHANGED <<clock, user, assigned, captures, tasks, reservations, link, down, ids, jobs,
                 disp, run, admin, resync, disturbances, retried, late>>

-------------------------------------------------------------------------------
(* DispatchPendingTasks *)

\* Mutant: a reservation is due one unit early.
DueEarly(k) == reservations[k] = "scheduled" /\ k[2] + Grace <= clock + 1
Due(k) == reservations[k] = "scheduled" /\ k[2] + Grace <= clock

ListDue(d) ==
  /\ disp[d].step = "idle"
  /\ \E k \in DOMAIN reservations :
       Due(k) /\ disp' = [disp EXCEPT ![d] = [NoDisp EXCEPT !.step = "due", !.task = k]]
  /\ UNCHANGED <<store, run, rec, admin, resync, disturbances, retried, late>>

\* Mutant: the row is not required to be scheduled still.
MaterializedBlindly(k) == TRUE
StillScheduled(k) == reservations[k] = "scheduled"

(* MaterializeDeprovision: one statement. *)
Materialize(d) ==
  LET k == disp[d].task
  IN  /\ disp[d].step = "due"
      /\ IF StillScheduled(k)
           THEN /\ reservations' = [reservations EXCEPT ![k] = "materialized"]
                /\ tasks' = WithTask(tasks, k, "delete")
           ELSE UNCHANGED <<reservations, tasks>>
      /\ disp' = [disp EXCEPT ![d] = NoDisp]
      /\ UNCHANGED <<clock, user, assigned, captures, conn, link, down, ids, jobs,
                     run, rec, admin, resync, disturbances, retried, late>>

(* ListUnenqueued: the task and the job it had. *)
ListPending(d) ==
  /\ disp[d].step = "idle"
  /\ \E k \in DOMAIN tasks :
       /\ tasks[k].status = "pending"
       /\ disp' = [disp EXCEPT ![d] = [step |-> "pending", task |-> k, job |-> tasks[k].job]]
  /\ UNCHANGED <<store, run, rec, admin, resync, disturbances, retried, late>>

Active(j) == jobs[j].status # "ended"
SameKey(j, k, prev) == jobs[j].task = k /\ jobs[j].prev = prev

(* EnqueueProvisioningTask: the active job with the dedup key, or a new one.  The
   connection is read first; nothing is enqueued under quarantine. *)
\* Mutant: the dedup key is not passed to the queue.
EnqueuedTwice(k, prev) ==
  [id |-> Len(jobs) + 1, jobs |-> Append(jobs, Job(k, prev))]
Enqueued(k, prev) ==
  LET same == {j \in DOMAIN jobs : SameKey(j, k, prev) /\ Active(j)}
  IN  IF same # {} THEN [id |-> CHOOSE j \in same : TRUE, jobs |-> jobs]
      ELSE [id |-> Len(jobs) + 1, jobs |-> Append(jobs, Job(k, prev))]

EnqueueTask(d) ==
  LET e == Enqueued(disp[d].task, disp[d].job)
  IN  /\ disp[d].step = "pending"
      /\ IF Quarantined(conn)
           THEN disp' = [disp EXCEPT ![d] = NoDisp] /\ UNCHANGED jobs
           ELSE /\ e.id <= MaxJobs
                /\ jobs' = e.jobs
                /\ disp' = [disp EXCEPT ![d].step = "attach", ![d].job = e.id]
      /\ UNCHANGED <<clock, user, assigned, captures, conn, tasks, reservations, link, down, ids,
                     run, rec, admin, resync, disturbances, retried, late>>

\* Mutant: only the job the task had is compared.
AttachableAnyway(k, prev) == tasks[k].job = prev
Attachable(k, prev) == tasks[k].status = "pending" /\ tasks[k].job = prev

AttachJob(d) ==
  LET k == disp[d].task  j == disp[d].job
  IN  /\ disp[d].step = "attach"
      /\ tasks' = IF Attachable(k, jobs[j].prev)
                    THEN [tasks EXCEPT ![k].job = j, ![k].status = "in_flight"] ELSE tasks
      /\ disp' = [disp EXCEPT ![d] = NoDisp]
      /\ UNCHANGED <<clock, user, assigned, captures, conn, reservations, link, down, ids, jobs,
                     run, rec, admin, resync, disturbances, retried, late>>

-------------------------------------------------------------------------------
(* ProvisioningTaskHandler, executed by the runner of the Jobs module *)

TaskOf(r) == jobs[run[r].job].task
To(r, step) == run' = [run EXCEPT ![r].step = step]

(* The runner reports to the queue, which listens to the owner of the lease only. *)
Reported(js, r, j, status) ==
  IF js[j].owner = r THEN [js EXCEPT ![j].status = status, ![j].owner = None] ELSE js
Report(r, status) ==
  /\ jobs' = Reported(jobs, r, run[r].job, status)
  /\ run' = [run EXCEPT ![r] = NoRun]
Failed(r) == Report(r, IF run[r].attempt < MaxAttempts THEN "queued" ELSE "ended")

(* A job the task does not name any more, or whose task was put back. *)
Stale(j, t) == t.job # 0 /\ (t.status = "pending" \/ t.job # j)

(* Between the first read of an execution and the settlement of its task *)
AtWork(r) == run[r].step \in {"load", "resolve", "send", "link", "unlink", "settle"}

(* A queued job, or one whose lease has run out as its runner crashed or is late, is
   claimed, and the handler reads its task. *)
Claim(r) ==
  /\ run[r].step = "idle"
  /\ \E j \in DOMAIN jobs :
       LET claimed == [jobs EXCEPT ![j].status = "running", ![j].attempts = @ + 1, ![j].owner = r]
       IN  /\ \/ /\ jobs[j].status = "queued" \/ (jobs[j].status = "running" /\ jobs[j].owner = None)
                 /\ UNCHANGED <<disturbances, late>>
              \/ /\ jobs[j].status = "running" /\ jobs[j].owner # None
                 /\ Disturb /\ late' = TRUE
           /\ IF Stale(j, tasks[jobs[j].task])
                THEN jobs' = Reported(claimed, r, j, "ended") /\ UNCHANGED run
                ELSE /\ jobs' = claimed
                     /\ run' = [run EXCEPT ![r] =
                                  [NoRun EXCEPT !.step = "load", !.job = j, !.attempt = claimed[j].attempts]]
  /\ UNCHANGED <<clock, user, assigned, captures, conn, tasks, reservations, link, down, ids,
                 disp, rec, admin, resync, retried>>

(* Where the execution goes on after it read the task, the connection and the link *)
Loaded(t, l) ==
  IF t.status \in Terminal THEN "reset"
  ELSE IF Quarantined(conn) THEN "suspend"
  ELSE IF t.op \in {"delete", "deactivate"} /\ l.id = 0 THEN "settle"
  ELSE IF t.op = "delete" THEN "send" ELSE "resolve"

(* ExecuteTask reads the task again, whatever it has become, and what else it needs. *)
Load(r) ==
  LET l == link[TaskOf(r)[1]]  next == Loaded(tasks[TaskOf(r)], l)
  IN  /\ run[r].step = "load"
      /\ run' = [run EXCEPT ![r].step = next,
                            ![r].link = IF next \in {"send", "resolve"} THEN l ELSE NoLink]
      /\ UNCHANGED <<store, disp, rec, admin, resync, disturbances, retried, late>>

(* SuspendForQuarantine *)
Suspend(r) ==
  LET k == TaskOf(r)
  IN  /\ run[r].step = "suspend"
      /\ tasks' = IF tasks[k].status = "in_flight" /\ tasks[k].job = run[r].job
                    THEN [tasks EXCEPT ![k].status = "pending"] ELSE tasks
      /\ Report(r, "ended")
      /\ UNCHANGED <<clock, user, assigned, captures, conn, reservations, link, down, ids,
                     disp, rec, admin, resync, disturbances, retried, late>>

(* settleFullResyncOfTask is next, for a task of the full resync; then the failure is
   counted, if the downstream was to blame. *)
Onward(r, failed) ==
  LET clean == [NoRun EXCEPT !.job = run[r].job, !.attempt = run[r].attempt, !.failed = failed]
      go(step) == run' = [run EXCEPT ![r] = [clean EXCEPT !.step = step]] /\ UNCHANGED jobs
  IN  IF TaskOf(r) \in resync.members THEN go("tally")
      ELSE IF failed THEN go("count")
      ELSE Report(r, "ended")

(* UpdateStatus: whatever the status is by now. *)
WithStatus(r, status) == [tasks EXCEPT ![TaskOf(r)].status = status]
DeadLetter(r, failed) == tasks' = WithStatus(r, "dead_letter") /\ Onward(r, failed)

(* A failed call: the queue retries, or the task is given up. *)
CallFailed(r) ==
  IF run[r].attempt < MaxAttempts THEN Report(r, "queued") /\ UNCHANGED tasks
  ELSE DeadLetter(r, TRUE)

(* ResolveAttributes; a required attribute without a value fails the task for good. *)
Resolve(r) ==
  /\ run[r].step = "resolve"
  /\ \/ /\ run' = [run EXCEPT ![r].step = "send",
                     ![r].active = /\ user[TaskOf(r)[1]].state = "active"
                                   /\ tasks[TaskOf(r)].op # "deactivate"]
        /\ UNCHANGED <<tasks, jobs>>
     \/ DeadLetter(r, FALSE)
  /\ UNCHANGED <<clock, user, assigned, captures, conn, reservations, link, down, ids,
                 disp, rec, admin, resync, disturbances, retried, late>>

(* The downstream answers: the resource is created, adopted after a conflict (which
   changes nothing there), changed, created anew when it is gone, or deleted. *)
Send(r) ==
  LET u == TaskOf(r)[1]  op == tasks[TaskOf(r)].op  l == run[r].link
      put(id) == down' = [down EXCEPT ![u] = [id |-> id, active |-> run[r].active]]
      created == put(ids + 1) /\ ids' = ids + 1
      linked(id) == run' = [run EXCEPT ![r].step = "link", ![r].link =
                              [l EXCEPT !.id = id]]
  IN  /\ run[r].step = "send"
      /\ \/ /\ op = "delete"
            /\ down' = [down EXCEPT ![u] = IF @.id = l.id THEN [id |-> 0, active |-> FALSE] ELSE @]
            /\ To(r, "unlink") /\ UNCHANGED <<ids, jobs, tasks>>
         \/ /\ op # "delete" /\ l.id = 0 /\ down[u].id = 0
            /\ created /\ linked(ids + 1) /\ UNCHANGED <<jobs, tasks>>
         \/ /\ op # "delete" /\ l.id = 0 /\ down[u].id # 0
            /\ linked(down[u].id) /\ UNCHANGED <<down, ids, jobs, tasks>>
         \/ /\ op # "delete" /\ l.id # 0 /\ l.id = down[u].id
            /\ put(l.id) /\ linked(l.id) /\ UNCHANGED <<ids, jobs, tasks>>
         \/ /\ op = "deactivate" /\ l.id # 0 /\ l.id # down[u].id
            /\ To(r, "settle") /\ UNCHANGED <<down, ids, jobs, tasks>>
         \/ /\ op \in {"create", "update"} /\ l.id # 0 /\ l.id # down[u].id
            /\ IF down[u].id = 0 THEN created /\ linked(ids + 1) /\ UNCHANGED <<jobs, tasks>>
                                 ELSE CallFailed(r) /\ UNCHANGED <<down, ids>>
      /\ UNCHANGED <<clock, user, assigned, captures, conn, reservations, link,
                     disp, rec, admin, resync, disturbances, retried, late>>

(* The downstream refuses, is down or limits the rate. *)
SendFails(r) ==
  /\ run[r].step = "send"
  /\ CallFailed(r)
  /\ UNCHANGED <<clock, user, assigned, captures, conn, reservations, link, down, ids,
                 disp, rec, admin, resync, disturbances, retried, late>>

(* upsertLink over the link read before the call; an older version changes nothing. *)
SaveLink(r) ==
  LET u == TaskOf(r)[1]  v == TaskOf(r)[2]
  IN  /\ run[r].step = "link"
      /\ link' = IF run[r].link.version # 0 /\ v <= run[r].link.version THEN link
                 ELSE [link EXCEPT ![u] = [id |-> run[r].link.id, active |-> run[r].active,
                                           version |-> v]]
      /\ To(r, "settle")
      /\ UNCHANGED <<clock, user, assigned, captures, conn, tasks, reservations, down, ids, jobs,
                     disp, rec, admin, resync, disturbances, retried, late>>

DeleteLink(r) ==
  /\ run[r].step = "unlink"
  /\ link' = [link EXCEPT ![TaskOf(r)[1]] = NoLink]
  /\ To(r, "settle")
  /\ UNCHANGED <<clock, user, assigned, captures, conn, tasks, reservations, down, ids, jobs,
                 disp, rec, admin, resync, disturbances, retried, late>>

Settle(r) ==
  /\ run[r].step = "settle"
  /\ tasks' = WithStatus(r, "succeeded")
  /\ run' = [run EXCEPT ![r].step = "reset", ![r].link = NoLink, ![r].active = FALSE]
  /\ UNCHANGED <<clock, user, assigned, captures, conn, reservations, link, down, ids, jobs,
                 disp, rec, admin, resync, disturbances, retried, late>>

(* resetConsecutiveFailures, recordConsecutiveFailure: the whole row is read here and
   written back in WriteConnection. *)
ReadConnection(r) ==
  /\ \/ run[r].step = "reset" /\ conn.failures = 0 /\ Onward(r, FALSE)
     \/ /\ run[r].step = "reset" /\ conn.failures # 0
        /\ run' = [run EXCEPT ![r].step = "write", ![r].conn = [conn EXCEPT !.failures = 0]]
        /\ UNCHANGED jobs
     \/ /\ run[r].step = "count"
        /\ run' = [run EXCEPT ![r].step = "write", ![r].conn =
                     [conn EXCEPT !.failures = @ + 1,
                                  !.health = IF conn.failures + 1 >= Threshold
                                             THEN "quarantined" ELSE @]]
        /\ UNCHANGED jobs
  /\ UNCHANGED <<clock, user, assigned, captures, conn, tasks, reservations, link, down, ids,
                 disp, rec, admin, resync, disturbances, retried, late>>

WriteConnection(r) ==
  /\ run[r].step = "write"
  /\ conn' = run[r].conn
  /\ IF run[r].failed THEN Failed(r) ELSE Onward(r, FALSE)
  /\ UNCHANGED <<clock, user, assigned, captures, tasks, reservations, link, down, ids,
                 disp, rec, admin, resync, disturbances, retried, late>>

-------------------------------------------------------------------------------
(* settleFullResync *)

(* FullResync.Settle: as many tasks have ended as there were subjects. *)
AllEnded ==
  Cardinality({k \in resync.members : tasks[k].status \in Terminal}) = resync.total

\* Mutant: the full resync is not required to be running still.
CompletedAgain(n) ==
  [resync EXCEPT !.status = "completed", !.counted = n, !.completions = @ + 1]
(* CompleteFullResync: one of those who found it complete completes it. *)
Completed(n) ==
  IF resync.status = "running"
    THEN [resync EXCEPT !.status = "completed", !.counted = n, !.completions = @ + 1]
    ELSE resync

Tally(r) ==
  LET ends == resync.status = "running" /\ AllEnded
  IN  /\ run[r].step = "tally"
      /\ IF ends THEN To(r, "complete") /\ UNCHANGED jobs
         ELSE IF run[r].failed THEN To(r, "count") /\ UNCHANGED jobs
         ELSE Report(r, "ended")
      /\ UNCHANGED <<clock, user, assigned, captures, conn, tasks, reservations, link, down, ids,
                     disp, rec, admin, resync, disturbances, retried, late>>

Complete(r) ==
  /\ run[r].step = "complete"
  /\ resync' = Completed(resync.total)
  /\ IF run[r].failed THEN To(r, "count") /\ UNCHANGED jobs ELSE Report(r, "ended")
  /\ UNCHANGED <<clock, user, assigned, captures, conn, tasks, reservations, link, down, ids,
                 disp, rec, admin, disturbances, retried, late>>

-------------------------------------------------------------------------------
(* Errors of the repositories and of the downstream's adoption search, and crashes *)

(* An error within ExecuteTask is treated as one of the downstream, if the dead letter can
   be saved then; any other is for the queue alone. *)
HandlerFails(r) ==
  /\ run[r].step # "idle"
  /\ Disturb
  /\ \/ AtWork(r) /\ CallFailed(r)
     \/ Failed(r) /\ UNCHANGED tasks
     \/ /\ run' = [run EXCEPT ![r] = NoRun]
        /\ jobs' = IF jobs[run[r].job].owner = r THEN [jobs EXCEPT ![run[r].job].owner = None]
                   ELSE jobs
        /\ UNCHANGED tasks
  /\ UNCHANGED <<clock, user, assigned, captures, conn, reservations, link, down, ids,
                 disp, rec, admin, resync, retried, late>>

LoopFails ==
  /\ Disturb
  /\ \/ \E d \in Dispatchers : disp[d] # NoDisp /\ disp' = [disp EXCEPT ![d] = NoDisp]
                               /\ UNCHANGED <<rec, admin>>
     \/ rec # NoRec /\ rec' = NoRec /\ UNCHANGED <<disp, admin>>
     \/ admin # NoAdmin /\ admin' = NoAdmin /\ UNCHANGED <<disp, rec>>
  /\ UNCHANGED <<store, run, resync, retried, late>>

-------------------------------------------------------------------------------
(* Administration *)

(* UpdateConnection (of the status or the guard), TestConnection (which leaves both),
   ResumeConnection: read ... *)
BeginEdit ==
  /\ admin.step = "idle"
  /\ Disturb
  /\ \/ \E s \in {"active", "disabled"} \ {conn.status} :
          admin' = [NoAdmin EXCEPT !.step = "write", !.conn = [conn EXCEPT !.status = s]]
     \/ \E g \in Guards :
          admin' = [NoAdmin EXCEPT !.step = "write", !.conn = [conn EXCEPT !.guard = g]]
     \/ /\ Quarantined(conn)
        /\ admin' = [NoAdmin EXCEPT !.step = "write",
                                    !.conn = [conn EXCEPT !.health = "ok", !.failures = 0]]
  /\ UNCHANGED <<store, disp, run, rec, resync, retried, late>>

(* ... and write the whole row; a full resync goes on to its count. *)
WriteEdit ==
  /\ admin.step = "write"
  /\ conn' = admin.conn
  /\ admin' = IF admin.op = "resync" THEN [admin EXCEPT !.step = "tally", !.conn = NoConn]
              ELSE NoAdmin
  /\ UNCHANGED <<clock, user, assigned, captures, tasks, reservations, link, down, ids, jobs,
                 disp, run, rec, resync, disturbances, retried, late>>

(* RetryTask *)
RetryTask(k) ==
  /\ tasks[k].status = "dead_letter"
  /\ Disturb
  /\ tasks' = [tasks EXCEPT ![k].status = "pending", ![k].job = 0]
  /\ retried' = retried \union {k}
  /\ UNCHANGED <<clock, user, assigned, captures, conn, reservations, link, down, ids, jobs,
                 actors, resync, late>>

ProvisionOnDemand(u) ==
  /\ user[u].state # "absent" /\ InScope(u) /\ ~ Quarantined(conn)
  /\ clock < MaxClock /\ Disturb
  /\ clock' = clock + 1
  /\ tasks' = WithTask(tasks, <<u, clock + 1>>, "update")
  /\ UNCHANGED <<user, assigned, captures, conn, reservations, link, down, ids, jobs,
                 actors, resync, retried, late>>

(* StartFullResync: the subjects are counted and saved, then given their tasks.  FindAll
   leaves out the users that are deleted, ListByApplication does not. *)
StartFullResync ==
  LET subjects == {u \in Users : /\ user[u].state # "absent" /\ InScope(u)
                                 /\ AllUsers => user[u].state # "deleted"}
  IN  /\ admin.step = "idle" /\ resync.status = "none"
      /\ ~ Quarantined(conn)
      /\ clock < MaxClock /\ Disturb
      /\ clock' = clock + 1
      /\ resync' = [resync EXCEPT !.status = "running", !.version = clock + 1,
                                  !.total = Cardinality(subjects)]
      /\ admin' = [step |-> IF subjects = {} THEN "write" ELSE "tasks", op |-> "resync",
                   conn |-> conn, todo |-> subjects]
      /\ UNCHANGED <<user, assigned, captures, conn, tasks, reservations, link, down, ids, jobs,
                     disp, run, rec, retried, late>>

(* SaveFullResyncTask *)
SaveResyncTask ==
  /\ admin.step = "tasks"
  /\ \E u \in admin.todo :
       LET k == <<u, resync.version>>
       IN  /\ \A v \in admin.todo : u <= v
           /\ tasks' = WithTask(tasks, k, "update")
           /\ resync' = IF k \in DOMAIN tasks THEN resync
                        ELSE [resync EXCEPT !.members = @ \union {k}]
           /\ admin' = [admin EXCEPT !.todo = @ \ {u},
                                     !.step = IF admin.todo = {u} THEN "write" ELSE @]
  /\ UNCHANGED <<clock, user, assigned, captures, conn, reservations, link, down, ids, jobs,
                 disp, run, rec, disturbances, retried, late>>

TallyResync ==
  /\ admin.step = "tally"
  /\ admin' = IF AllEnded THEN [admin EXCEPT !.step = "complete"] ELSE NoAdmin
  /\ UNCHANGED <<store, disp, run, rec, resync, disturbances, retried, late>>

CompleteResync ==
  /\ admin.step = "complete"
  /\ resync' = Completed(resync.total)
  /\ admin' = NoAdmin
  /\ UNCHANGED <<store, disp, run, rec, disturbances, retried, late>>

Tick ==
  /\ clock < MaxClock
  /\ \E k \in DOMAIN reservations : reservations[k] = "scheduled"
  /\ clock' = clock + 1
  /\ UNCHANGED <<user, assigned, captures, conn, tasks, reservations, link, down, ids, jobs,
                 actors, resync, disturbances, retried, late>>

-------------------------------------------------------------------------------
Dispatch(d) == ListDue(d) \/ Materialize(d) \/ ListPending(d) \/ EnqueueTask(d) \/ AttachJob(d)
Execute(r) ==
  \/ Claim(r) \/ Load(r) \/ Suspend(r) \/ Resolve(r) \/ Send(r) \/ SendFails(r)
  \/ SaveLink(r) \/ DeleteLink(r) \/ Settle(r)
  \/ ReadConnection(r) \/ WriteConnection(r) \/ Tally(r) \/ Complete(r)
Reconcile == ReadLinks \/ Plan \/ SavePlanned \/ QuarantineByGuard

Next ==
  \/ \E u \in Users : ChangeUser(u) \/ ChangeAssignment(u) \/ ProvisionOnDemand(u)
  \/ \E c \in captures : Capture(c)
  \/ Reconcile
  \/ \E d \in Dispatchers : Dispatch(d)
  \/ \E r \in Runners : Execute(r) \/ HandlerFails(r)
  \/ LoopFails
  \/ BeginEdit \/ WriteEdit \/ StartFullResync \/ SaveResyncTask \/ TallyResync \/ CompleteResync
  \/ \E k \in DOMAIN tasks : RetryTask(k)
  \/ Tick

Spec == Init /\ [][Next]_vars

-------------------------------------------------------------------------------
ConnRow == [status : {"active", "disabled"}, guard : Guards, health : {"ok", "quarantined"},
            failures : Nat]
TaskRow == [op : Operations, status : Terminal \union {"pending", "in_flight"}, job : Nat]
JobRow == [task : Keys, prev : Nat, status : {"queued", "running", "ended"}, attempts : Nat,
           owner : Runners \union {None}]
LinkRow == [id : Nat, active : BOOLEAN, version : Nat]
RunRow == [step : {"idle", "load", "suspend", "resolve", "send", "link", "unlink", "settle", "reset",
                   "write", "tally", "complete", "count"},
           job : Nat, attempt : Nat, link : LinkRow, active : BOOLEAN, failed : BOOLEAN,
           conn : ConnRow]
DispRow == [step : {"idle", "due", "pending", "attach"}, task : Keys \union {NoTask}, job : Nat]
RecRow == [step : {"idle", "plan", "save", "quarantine"}, version : 0..MaxClock,
           links : [Users -> LinkRow], plan : SUBSET (Users \X Operations \X BOOLEAN),
           conn : ConnRow]
AdminRow == [step : {"idle", "write", "tasks", "tally", "complete"}, op : {"none", "resync"},
             conn : ConnRow, todo : SUBSET Users]
ResyncRow == [status : {"none", "running", "completed"}, total : Nat, version : 0..MaxClock,
              members : SUBSET Keys, counted : Nat, completions : Nat]

(* Types of the variables, and what the keys of the tables ask for: tasks name jobs and
   jobs tasks, a user has one reservation at a time, the downstream gave the identities. *)
TypeOK ==
  /\ clock \in 1..MaxClock
  /\ user \in [Users -> [state : {"absent", "active", "disabled", "pending_deletion", "deleted"},
                         version : 1..MaxClock]]
  /\ assigned \subseteq Users
  /\ captures \subseteq [user : Users, trigger : Triggers, version : 1..MaxClock]
  /\ conn \in ConnRow
  /\ DOMAIN tasks \subseteq Keys
  /\ \A k \in DOMAIN tasks : tasks[k] \in TaskRow /\ tasks[k].job <= Len(jobs)
  /\ DOMAIN reservations \subseteq Keys
  /\ \A k \in DOMAIN reservations : reservations[k] \in {"scheduled", "cancelled", "materialized"}
  /\ \A k, x \in DOMAIN reservations :
       reservations[k] = "scheduled" /\ reservations[x] = "scheduled" /\ k[1] = x[1] => k = x
  /\ link \in [Users -> LinkRow] /\ down \in [Users -> [id : Nat, active : BOOLEAN]]
  /\ ids \in Nat /\ \A u \in Users : link[u].id <= ids /\ down[u].id <= ids
  /\ jobs \in Seq(JobRow) /\ \A j \in DOMAIN jobs : jobs[j].task \in DOMAIN tasks
  /\ disp \in [Dispatchers -> DispRow] /\ run \in [Runners -> RunRow]
  /\ rec \in RecRow /\ admin \in AdminRow /\ resync \in ResyncRow
  /\ disturbances \in 0..MaxDisturbances
  /\ retried \subseteq Keys /\ late \in BOOLEAN

(* A task that a quarantine put back and that was given a further job, and that an
   administrator retried as well: RetryTask clears its job, so that an earlier job of it
   that is still to be repeated passes for a current one beside the job it gets next. *)
Recalled(k) == k \in retried /\ \E j \in DOMAIN jobs : jobs[j].task = k /\ jobs[j].prev # 0

(* No two executions work on one task between reading it and settling it, whichever of
   several dispatchers gave it a job, before or after a quarantine or a retry, and whether a
   job starts before or after its task names it; unless a lease has run out. *)
OneExecutionPerTask ==
  late \/ \A r, s \in Runners : r # s /\ AtWork(r) /\ AtWork(s) /\ ~ Recalled(TaskOf(r))
                                  => TaskOf(r) # TaskOf(s)

(* A deletion reaches the tasks, and so the downstream, only through a reservation whose
   grace period is over: neither a captured purge nor the incremental sync goes around it. *)
GraceHonoured ==
  Grace > 0 /\ OnUnassign # "delete" =>
    \A k \in DOMAIN tasks :
      tasks[k].op = "delete" =>
        k \in DOMAIN reservations /\ reservations[k] = "materialized" /\ k[2] + Grace <= clock

(* A reservation that a restore cancelled is not turned into a deletion by a dispatcher
   that had found it due before. *)
CancelledIsFinal ==
  [][\A k \in DOMAIN reservations :
       reservations[k] = "cancelled" => reservations'[k] = "cancelled"]_vars

(* FullResyncCompleted is emitted once, when every subject counted at the start has a
   task that ended; only a retry by an administrator makes one unsettled again. *)
ResyncCompletes ==
  /\ resync.completions <= 1
  /\ resync.status = "completed" =>
       /\ Cardinality(resync.members) = resync.total
       /\ \A k \in resync.members : tasks[k].status \in Terminal \/ k \in retried

(* A task that succeeded stays so: no late dispatcher, stale job or retry sends it again.
   Only a repetition of its job may give it up, whose read of the task fails. *)
GivesUpUnread(k) ==
  /\ tasks'[k].status = "dead_letter"
  /\ \E r \in Runners : run[r].step = "load" /\ TaskOf(r) = k /\ run[r].attempt >= MaxAttempts
SucceededIsFinal ==
  [][\A k \in DOMAIN tasks :
       tasks[k].status = "succeeded"
         => late \/ Recalled(k) \/ tasks'[k].status = "succeeded" \/ GivesUpUnread(k)]_vars

-------------------------------------------------------------------------------
(* A task in flight that no administrator retried has a job that will still be executed.
   (task.md, REQ-PROVISIONING-020: a task met under quarantine is put back to pending, and
   executed by a new job once the quarantine is lifted.) *)
InFlightHasJob ==
  \A k \in DOMAIN tasks \ retried : tasks[k].status = "in_flight" => Active(tasks[k].job)

(* A failed attempt does nothing to a task that succeeded.  (task.md, the table of the
   states of a task.) *)
SucceededStays ==
  [][\A k \in DOMAIN tasks :
       tasks[k].status = "succeeded" /\ ~ late => tasks'[k].status = "succeeded"]_vars

(* When everything has settled and the incremental sync finds nothing to do, the
   downstream's resources are active exactly for the active users in scope. *)
Quiet ==
  /\ captures = {} /\ disp = [d \in Dispatchers |-> NoDisp]
  /\ run = [r \in Runners |-> NoRun] /\ rec = NoRec
  /\ \A k \in DOMAIN tasks : tasks[k].status = "succeeded"
  /\ \A k \in DOMAIN reservations : reservations[k] # "scheduled"
  /\ \A u \in Users : Planned(u, link[u]) = "none"
Converges ==
  Quiet => \A u \in Users :
             down[u].id # 0 /\ down[u].active <=> user[u].state = "active" /\ InScope(u)
===============================================================================
