------------------------- MODULE ProvisioningProofs -------------------------
(***************************************************************************)
(* Proofs about Provisioning, for any users, runners and dispatchers, any  *)
(* policy, limit and threshold, and any number of disturbances.            *)
(***************************************************************************)
EXTENDS Provisioning, FiniteSetTheorems, TLAPS

\* What an execution has in hand exists.
RunOK(r) ==
  /\ run[r].step # "idle" => run[r].job \in DOMAIN jobs
  /\ run[r].link.id <= ids

\* What a dispatcher has in hand exists, and a reservation it has found due is.
DispOK(d) ==
  /\ disp[d].step = "due" =>
       disp[d].task \in DOMAIN reservations /\ disp[d].task[2] + Grace <= clock
  /\ disp[d].step = "pending" => disp[d].task \in DOMAIN tasks /\ disp[d].job <= Len(jobs)
  /\ disp[d].step = "attach" =>
       disp[d].job \in DOMAIN jobs /\ jobs[disp[d].job].task = disp[d].task

\* What is to be saved has a version.
ProvInv ==
  /\ TypeOK
  /\ rec.step \in {"plan", "save"} => rec.version # 0
  /\ admin.step = "tasks" => resync.version # 0
  /\ \A r \in Runners : RunOK(r)
  /\ \A d \in Dispatchers : DispOK(d)

\* Every version was taken from the clock by one change, one sync or one full resync, and
\* what is still to be saved under it is not yet in the tables.
Rows == DOMAIN tasks \union DOMAIN reservations
Syncing == rec.step \in {"plan", "save"}
VersionInv ==
  /\ \A k \in Rows : k[2] <= clock
  /\ \A c \in captures : c.version <= clock /\ \A k \in Rows : k[2] # c.version
  /\ \A c, e \in captures : c.version = e.version => c = e
  /\ Syncing => rec.version <= clock /\ \A c \in captures : c.version # rec.version
  /\ rec.step = "plan" => \A k \in Rows : k[2] # rec.version
  /\ rec.step = "save" => /\ \A p \in rec.plan : <<p[1], rec.version>> \notin Rows
                          /\ \A p, q \in rec.plan : p[1] = q[1] => p = q
  /\ resync.status # "none" => /\ resync.version <= clock
                               /\ \A c \in captures : c.version # resync.version
                               /\ Syncing => rec.version # resync.version
  /\ admin.step = "tasks" => resync.status # "none"

\* A deletion that is planned is reserved.
GraceInv ==
  /\ GraceHonoured
  /\ Grace > 0 /\ OnUnassign # "delete" => \A p \in rec.plan : p[2] = "delete" => p[3]

-----------------------------------------------------------------------------
\* The queue: who runs a job has its lease, and a key has one active job.
QueueInv ==
  /\ \A j \in DOMAIN jobs : jobs[j].owner # None => jobs[j].status = "running"
  /\ \A i, j \in DOMAIN jobs : Active(i) /\ Active(j) /\ SameKey(i, jobs[j].task, jobs[j].prev) => i = j
  /\ ~ late => \A r \in Runners : run[r].step # "idle" => jobs[run[r].job].owner = r

\* A task that names no job, and was not retried, had none that came after another.
FirstJobs ==
  \A k \in DOMAIN tasks \ retried :
    tasks[k].job = 0 =>
      /\ \A j \in DOMAIN jobs : jobs[j].task = k => jobs[j].prev = 0
      /\ \A d \in Dispatchers : disp[d].step = "pending" /\ disp[d].task = k => disp[d].job = 0

\* An execution at work: its task is not put back, names this job, or none, or one that has
\* ended, and, once it was read, is not settled.
Working(r) ==
  LET t == tasks[TaskOf(r)]
  IN  /\ run[r].step # "load" => t.status \notin Terminal
      /\ t.job # 0 => t.status # "pending"
      /\ t.job \notin {0, run[r].job} => ~ Active(t.job)

SoleWorkers ==
  ~ late => /\ OneExecutionPerTask
            /\ \A r \in Runners : AtWork(r) /\ ~ Recalled(TaskOf(r)) => Working(r)

WorkInv == QueueInv /\ FirstJobs /\ SoleWorkers

-----------------------------------------------------------------------------
\* Every subject has its task, and every one of them has ended.
Done ==
  /\ Cardinality(resync.members) = resync.total
  /\ \A k \in resync.members : tasks[k].status \in Terminal \/ k \in retried

Completing == admin.step = "complete" \/ \E r \in Runners : run[r].step = "complete"
Resyncing == admin.step \in {"tasks", "tally"} \/ (admin.step = "write" /\ admin.op = "resync")

\* The tasks of a full resync, together with the subjects still to be given one, are no
\* more than the subjects counted at its start.
ResyncInv ==
  /\ resync.members \subseteq DOMAIN tasks /\ IsFiniteSet(resync.members)
  /\ resync.completions = IF resync.status = "completed" THEN 1 ELSE 0
  /\ Cardinality(resync.members) + (IF admin.step = "tasks" THEN Cardinality(admin.todo) ELSE 0)
       <= resync.total
  /\ resync.status = "none" => resync.members = {} /\ ~ Completing /\ ~ Resyncing
  /\ Completing \/ resync.status = "completed" => Done

-----------------------------------------------------------------------------
(* Constants and rows. *)

\* The bounds are numbers.
LEMMA Numbers ==
  /\ Users \subseteq Nat /\ IsFiniteSet(Users) /\ None \notin Runners
  /\ Grace \in Nat /\ Limit \in Nat /\ MaxJobs \in Nat /\ MaxDisturbances \in Nat
  /\ Threshold \in Nat \ {0} /\ MaxAttempts \in Nat \ {0} /\ MaxClock \in Nat \ {0}
  /\ OnUnassign \in {"none", "deactivate", "delete"} /\ OnDelete \in {"none", "deactivate", "delete"}
BY ProvisioningAssumption

\* The empty rows have their types.
LEMMA EmptyRows ==
  /\ NoGuard \in Guards /\ NoLink \in LinkRow /\ NoConn \in ConnRow
  /\ NoRun \in RunRow /\ NoDisp \in DispRow /\ NoRec \in RecRow /\ NoAdmin \in AdminRow
  /\ NoLink.id = 0
  /\ NoRun.step = "idle" /\ NoRun.link.id = 0
  /\ NoDisp.step = "idle"
  /\ NoRec.step = "idle" /\ NoRec.plan = {}
  /\ NoAdmin.step = "idle" /\ NoAdmin.op = "none"
<1>1. NoGuard \in Guards
  BY ProvisioningAssumption
<1>2. NoLink \in LinkRow /\ NoLink.id = 0
  BY DEF NoLink, LinkRow
<1>3. NoConn \in ConnRow
  BY <1>1 DEF NoConn, ConnRow
<1>4. NoRun \in RunRow /\ NoRun.step = "idle" /\ NoRun.link.id = 0
  BY <1>2, <1>3 DEF NoRun, RunRow
<1>5. NoDisp \in DispRow /\ NoDisp.step = "idle"
  BY DEF NoDisp, DispRow
<1>6. NoRec \in RecRow /\ NoRec.step = "idle" /\ NoRec.plan = {}
  BY <1>2, <1>3, Numbers DEF NoRec, RecRow
<1>7. NoAdmin \in AdminRow /\ NoAdmin.step = "idle" /\ NoAdmin.op = "none"
  BY <1>3 DEF NoAdmin, AdminRow
<1>. QED BY <1>1, <1>2, <1>3, <1>4, <1>5, <1>6, <1>7

-----------------------------------------------------------------------------
(* What the steps of an execution do to tasks, jobs and its local state. *)

WorkSteps == {"load", "resolve", "send", "link", "unlink", "settle"}

\* The task is left alone, or settled by an execution that is at work on it; one that has not
\* read it can only give it up, at its last attempt.
Settles(r) ==
  \/ tasks' = tasks
  \/ /\ AtWork(r)
     /\ \E st \in Terminal :
          /\ tasks' = [tasks EXCEPT ![TaskOf(r)].status = st]
          /\ run[r].step = "load" => st = "dead_letter" /\ run[r].attempt >= MaxAttempts

\* The execution goes on with its job.  It goes on to complete the full resync only from
\* the count of the tasks that have ended.
Moves(r) ==
  /\ jobs' = jobs
  /\ \E x \in RunRow :
       /\ run' = [run EXCEPT ![r] = x]
       /\ x.step # "idle" /\ x.job = run[r].job /\ x.link.id <= ids'
       /\ x.step \in WorkSteps =>
            /\ AtWork(r) /\ tasks' = tasks
            /\ run[r].step = "load" => tasks[TaskOf(r)].status \notin Terminal
       /\ x.step = "complete" =>
            run[r].step = "tally" /\ resync.status = "running" /\ AllEnded /\ tasks' = tasks

\* The job is given up by the one who has its lease, or left as it is.
Released(r) ==
  \/ jobs' = jobs
  \/ /\ jobs[run[r].job].owner = r
     /\ \E y \in JobRow :
          /\ jobs' = [jobs EXCEPT ![run[r].job] = y]
          /\ y.task = jobs[run[r].job].task /\ y.prev = jobs[run[r].job].prev /\ y.owner = None

\* The execution ends.
Leaves(r) == run' = [run EXCEPT ![r] = NoRun] /\ Released(r)

\* What it changes besides tasks, jobs and its local state.
Stores(r) ==
  /\ UNCHANGED <<clock, user, assigned, captures, reservations, disp, rec, admin, retried, late>>
  /\ disturbances' \in 0..MaxDisturbances
  /\ conn' \in ConnRow
  /\ link' \in [Users -> LinkRow] /\ down' \in [Users -> [id : Nat, active : BOOLEAN]]
  /\ ids' \in Nat /\ ids <= ids'
  /\ \A u \in Users : link'[u].id <= ids' /\ down'[u].id <= ids'
  /\ \/ resync' = resync
     \/ run[r].step = "complete" /\ resync' = Completed(resync.total) /\ tasks' = tasks

Works(r) == Stores(r) /\ Settles(r) /\ (Moves(r) \/ Leaves(r))

\* An execution that is under way has a job, and its job a task.
LEMMA InHand ==
  ASSUME ProvInv, NEW r \in Runners, run[r].step # "idle"
  PROVE  /\ run[r] \in RunRow /\ run[r].job \in DOMAIN jobs /\ run[r].job \in Nat
         /\ jobs[run[r].job] \in JobRow
         /\ TaskOf(r) \in DOMAIN tasks /\ TaskOf(r) \in Keys /\ TaskOf(r)[1] \in Users
         /\ TaskOf(r)[2] \in 1..MaxClock
         /\ tasks[TaskOf(r)] \in TaskRow
         /\ run[r].link.id <= ids /\ run[r].link \in LinkRow
<1>1. run[r] \in RunRow
  BY DEF ProvInv, TypeOK
<1>2. run[r].job \in DOMAIN jobs /\ run[r].link.id <= ids
  BY DEF ProvInv, RunOK
<1>3. jobs \in Seq(JobRow) /\ jobs[run[r].job] \in JobRow
  BY <1>2 DEF ProvInv, TypeOK
<1>4. TaskOf(r) \in DOMAIN tasks
  BY <1>2 DEF ProvInv, TypeOK, TaskOf
<1>5. TaskOf(r) \in Keys /\ tasks[TaskOf(r)] \in TaskRow
  BY <1>4 DEF ProvInv, TypeOK
<1>6. TaskOf(r)[1] \in Users /\ TaskOf(r)[2] \in 1..MaxClock
  BY <1>5 DEF Keys
<1>7. run[r].job \in Nat /\ run[r].link \in LinkRow
  BY <1>1 DEF RunRow
<1>. QED BY <1>1, <1>2, <1>3, <1>4, <1>5, <1>6, <1>7

\* A report ends the execution.
LEMMA ReportLeaves ==
  ASSUME ProvInv, NEW r \in Runners, run[r].step # "idle",
         NEW st \in {"queued", "ended"}, Report(r, st)
  PROVE  Leaves(r)
<1>1. jobs[run[r].job] \in JobRow /\ run[r].job \in DOMAIN jobs
  BY InHand
<1>. DEFINE j == run[r].job
            y == [[jobs[j] EXCEPT !.status = st] EXCEPT !.owner = None]
<1>2. y \in JobRow /\ y.task = jobs[j].task /\ y.prev = jobs[j].prev /\ y.owner = None
  BY <1>1 DEF JobRow
<1>3. jobs' = jobs \/ (jobs[j].owner = r /\ jobs' = [jobs EXCEPT ![j] = y])
  BY <1>1 DEF Report, Reported
<1>4. Released(r)
  <2>. HIDE DEF y
  <2>. QED BY <1>2, <1>3 DEF Released
<1>. QED BY <1>4 DEF Leaves, Report

\* The way onward from a settled task.
LEMMA OnwardKinds ==
  ASSUME ProvInv, NEW r \in Runners, run[r].step # "idle", NEW f \in BOOLEAN, Onward(r, f),
         ids' = ids
  PROVE  Moves(r) \/ Leaves(r)
<1>1. run[r] \in RunRow /\ run[r].job \in Nat
  BY InHand
<1>2. run[r].attempt \in Nat
  BY <1>1 DEF RunRow
<1>3. ids \in Nat
  BY DEF ProvInv, TypeOK
<1>. DEFINE c == [NoRun EXCEPT !.job = run[r].job, !.attempt = run[r].attempt, !.failed = f]
<1>6. c \in RunRow /\ c.job = run[r].job /\ c.link = NoLink
  BY <1>1, <1>2, EmptyRows DEF RunRow, NoRun
<1>7. ASSUME NEW st \in {"tally", "count"}, run' = [run EXCEPT ![r] = [c EXCEPT !.step = st]],
             jobs' = jobs
      PROVE  Moves(r)
  <2>. HIDE DEF c
  <2>. DEFINE x == [c EXCEPT !.step = st]
  <2>1. x \in RunRow /\ x.step = st /\ x.job = run[r].job /\ x.link = NoLink
    BY <1>6 DEF RunRow
  <2>2. run' = [run EXCEPT ![r] = x]
    BY <1>7
  <2>. HIDE DEF x
  <2>3. x.link.id <= ids'
    BY <2>1, <1>3, EmptyRows
  <2>. QED BY <1>7, <2>1, <2>2, <2>3 DEF Moves, WorkSteps
<1>8. \/ Report(r, "ended")
      \/ \E st \in {"tally", "count"} : run' = [run EXCEPT ![r] = [c EXCEPT !.step = st]] /\ jobs' = jobs
  BY DEF Onward
<1>9. CASE Report(r, "ended")
  BY <1>9, ReportLeaves
<1>. QED BY <1>7, <1>8, <1>9

\* What the tables hold, for the steps that leave most of them alone.
LEMMA Tables ==
  ASSUME ProvInv
  PROVE  /\ disturbances \in 0..MaxDisturbances /\ conn \in ConnRow
         /\ link \in [Users -> LinkRow] /\ down \in [Users -> [id : Nat, active : BOOLEAN]]
         /\ ids \in Nat /\ \A u \in Users : link[u].id <= ids /\ down[u].id <= ids
BY DEF ProvInv, TypeOK

LEMMA StoresAlone ==
  ASSUME ProvInv, NEW r \in Runners, conn' \in ConnRow,
         disturbances' = disturbances \/ Disturb,
         UNCHANGED <<clock, user, assigned, captures, reservations, disp, rec, admin, retried, late>>,
         UNCHANGED <<link, down, ids, resync>>
  PROVE  Stores(r)
<1>1. disturbances' \in 0..MaxDisturbances
  BY Tables, Numbers DEF Disturb
<1>. QED BY <1>1, Tables DEF Stores

\* A call that failed.
LEMMA CallFailedKinds ==
  ASSUME ProvInv, NEW r \in Runners, AtWork(r), CallFailed(r), ids' = ids
  PROVE  Settles(r) /\ (Moves(r) \/ Leaves(r))
<1>1. run[r].step # "idle"
  BY DEF AtWork
<1>2. CASE run[r].attempt < MaxAttempts
  BY <1>1, <1>2, ReportLeaves DEF CallFailed, Settles
<1>3. CASE ~ (run[r].attempt < MaxAttempts)
  <2>1. Onward(r, TRUE) /\ tasks' = [tasks EXCEPT ![TaskOf(r)].status = "dead_letter"]
    BY <1>3 DEF CallFailed, DeadLetter, WithStatus
  <2>2. run[r].attempt >= MaxAttempts
    <3>1. run[r].attempt \in Nat
      BY <1>1, InHand DEF RunRow
    <3>. QED BY <1>3, <3>1, Numbers
  <2>3. Settles(r)
    BY <2>1, <2>2 DEF Settles, Terminal
  <2>. QED BY <1>1, <2>1, <2>3, OnwardKinds
<1>. QED BY <1>2, <1>3

\* To(r, st) is a move that changes nothing else of the execution.
LEMMA ToMoves ==
  ASSUME ProvInv, NEW r \in Runners, run[r].step # "idle",
         NEW st \in {"link", "unlink", "settle", "reset", "write", "tally", "count"}, To(r, st),
         jobs' = jobs, ids' \in Nat, ids <= ids', 
         (AtWork(r) /\ run[r].step # "load" /\ tasks' = tasks) \/ st \notin WorkSteps
  PROVE  Moves(r)
<1>. DEFINE x == [run[r] EXCEPT !.step = st]
<1>1. run[r] \in RunRow /\ run[r].link.id <= ids /\ run[r].link \in LinkRow
  BY InHand
<1>2. x \in RunRow /\ x.step = st /\ x.job = run[r].job /\ x.link = run[r].link
  BY <1>1 DEF RunRow
<1>3. run[r].link.id \in Nat /\ ids \in Nat
  BY <1>1, Tables DEF LinkRow
<1>4. x.link.id <= ids'
  BY <1>1, <1>2, <1>3
<1>5. run' = [run EXCEPT ![r] = x]
  BY DEF To
<1>. HIDE DEF x
<1>. QED BY <1>2, <1>4, <1>5 DEF Moves

\* An execution that has read its task works on it only if it is not settled.
LEMMA LoadWorks ==
  ASSUME ProvInv, NEW r \in Runners, Load(r)
  PROVE  Works(r)
<1>. DEFINE t == tasks[TaskOf(r)]
            l == link[TaskOf(r)[1]]
            next == Loaded(t, l)
            m == IF next \in {"send", "resolve"} THEN l ELSE NoLink
            x == [[run[r] EXCEPT !.step = next] EXCEPT !.link = m]
<1>1. /\ run[r].step = "load" /\ AtWork(r) /\ run' = [run EXCEPT ![r] = x]
      /\ tasks' = tasks /\ jobs' = jobs /\ ids' = ids
  BY DEF Load, AtWork, store
<1>2. Stores(r)
  BY StoresAlone, Tables DEF Load, store
<1>3. run[r] \in RunRow /\ TaskOf(r)[1] \in Users
  BY <1>1, InHand
<1>4. m \in LinkRow /\ m.id <= ids
  <2>1. l \in LinkRow /\ l.id <= ids
    BY <1>3, Tables
  <2>. HIDE DEF l
  <2>. QED BY <2>1, EmptyRows, Tables
<1>5. /\ next \in {"suspend", "resolve", "send", "settle", "reset"}
      /\ next \in WorkSteps => t.status \notin Terminal
  BY DEF Loaded, WorkSteps
<1>6. x \in RunRow /\ x.step = next /\ x.job = run[r].job /\ x.link = m
  <2>. HIDE DEF m, next
  <2>. QED BY <1>3, <1>4, <1>5 DEF RunRow
<1>. HIDE DEF x, m, next
<1>7. Moves(r)
  BY <1>1, <1>4, <1>5, <1>6 DEF Moves
<1>. QED BY <1>1, <1>2, <1>7 DEF Works, Settles

LEMMA ResolveWorks ==
  ASSUME ProvInv, NEW r \in Runners, Resolve(r)
  PROVE  Works(r)
<1>1. run[r].step = "resolve" /\ AtWork(r) /\ ids' = ids /\ resync' = resync
  BY DEF Resolve, AtWork
<1>2. Stores(r)
  BY StoresAlone, Tables DEF Resolve
<1>3. CASE DeadLetter(r, FALSE)
  <2>1. Onward(r, FALSE) /\ tasks' = [tasks EXCEPT ![TaskOf(r)].status = "dead_letter"]
    BY <1>3 DEF DeadLetter, WithStatus
  <2>2. Settles(r)
    BY <1>1, <2>1 DEF Settles, Terminal
  <2>. QED BY <1>1, <1>2, <2>1, <2>2, OnwardKinds DEF Works
<1>4. CASE ~ DeadLetter(r, FALSE)
  <2>. DEFINE act == user[TaskOf(r)[1]].state = "active" /\ tasks[TaskOf(r)].op # "deactivate"
              x == [[run[r] EXCEPT !.step = "send"] EXCEPT !.active = act]
  <2>1. run' = [run EXCEPT ![r] = x] /\ tasks' = tasks /\ jobs' = jobs
    BY <1>4, InHand, <1>1 DEF Resolve
  <2>2. run[r] \in RunRow /\ run[r].link.id <= ids
    BY <1>1, InHand
  <2>3. act \in BOOLEAN
    OBVIOUS
  <2>4. x \in RunRow /\ x.step = "send" /\ x.job = run[r].job /\ x.link = run[r].link
    <3>. HIDE DEF act
    <3>. QED BY <2>2, <2>3 DEF RunRow
  <2>. HIDE DEF x
  <2>5. Moves(r)
    BY <1>1, <2>1, <2>2, <2>4 DEF Moves
  <2>. QED BY <1>2, <2>1, <2>5 DEF Works, Settles
<1>. QED BY <1>3, <1>4

\* The downstream's answer: its identity is new, or the resource's, or the link's.
LEMMA LinkedMoves ==
  ASSUME ProvInv, NEW r \in Runners, AtWork(r), run[r].step # "load",
         NEW n \in Nat, ids' \in Nat, n <= ids',
         run' = [run EXCEPT ![r].step = "link", ![r].link = [run[r].link EXCEPT !.id = n]],
         jobs' = jobs, tasks' = tasks
  PROVE  Moves(r)
<1>. DEFINE l == [run[r].link EXCEPT !.id = n]
            x == [[run[r] EXCEPT !.step = "link"] EXCEPT !.link = l]
<1>1. run[r] \in RunRow /\ run[r].link \in LinkRow
  BY InHand DEF AtWork
<1>2. l \in LinkRow /\ l.id = n
  BY <1>1 DEF LinkRow
<1>3. x \in RunRow /\ x.step = "link" /\ x.job = run[r].job /\ x.link = l
  <2>. HIDE DEF l
  <2>. QED BY <1>1, <1>2 DEF RunRow
<1>4. run' = [run EXCEPT ![r] = x]
  OBVIOUS
<1>. HIDE DEF x, l
<1>. QED BY <1>2, <1>3, <1>4 DEF Moves

LEMMA SendWorks ==
  ASSUME ProvInv, NEW r \in Runners, Send(r)
  PROVE  Works(r)
<1>1. run[r].step = "send" /\ AtWork(r) /\ run[r].step # "idle"
  BY DEF Send, AtWork
<1>2. /\ resync' = resync /\ conn' = conn /\ link' = link /\ disturbances' = disturbances
      /\ UNCHANGED <<clock, user, assigned, captures, reservations, disp, rec, admin, retried, late>>
  BY DEF Send
<1>. DEFINE u == TaskOf(r)[1]
            l == run[r].link
<1>3. u \in Users /\ run[r] \in RunRow /\ run[r].active \in BOOLEAN /\ l.id \in Nat /\ l.id <= ids
  BY <1>1, InHand DEF RunRow, LinkRow
<1>4. down \in [Users -> [id : Nat, active : BOOLEAN]] /\ down[u].id \in Nat /\ ids \in Nat
      /\ down[u].id <= ids
  BY <1>3, Tables
<1>. HIDE DEF u, l
<1>5. ASSUME NEW n \in Nat, n <= ids', ids' \in Nat, ids <= ids', NEW b \in BOOLEAN,
             down' = [down EXCEPT ![u] = [id |-> n, active |-> b]]
      PROVE  Stores(r)
  <2>1. down' \in [Users -> [id : Nat, active : BOOLEAN]]
    BY <1>3, <1>4, <1>5
  <2>2. \A v \in Users : link'[v].id <= ids' /\ down'[v].id <= ids'
    <3>. SUFFICES ASSUME NEW v \in Users PROVE link'[v].id <= ids' /\ down'[v].id <= ids'
      OBVIOUS
    <3>1. link[v].id \in Nat /\ link[v].id <= ids
      BY Tables DEF LinkRow
    <3>2. down[v].id \in Nat /\ down[v].id <= ids
      BY Tables
    <3>3. down'[v].id \in {n, down[v].id}
      BY <1>3, <1>4, <1>5
    <3>. QED BY <1>2, <1>4, <1>5, <3>1, <3>2, <3>3
  <2>. QED BY <1>2, <1>5, <2>1, <2>2, Tables DEF Stores
<1>6. ASSUME down' = down, ids' = ids
      PROVE  Stores(r)
  BY <1>2, <1>6, Tables, StoresAlone
<1>7. CASE tasks[TaskOf(r)].op = "delete"
  <2>1. /\ down' = [down EXCEPT ![u] = IF down[u].id = l.id THEN [id |-> 0, active |-> FALSE] ELSE down[u]]
        /\ To(r, "unlink") /\ ids' = ids /\ jobs' = jobs /\ tasks' = tasks
    BY <1>7, <1>4 DEF Send, u, l
  <2>2. Stores(r)
    <3>1. CASE down[u].id = l.id
      <4>1. down' = [down EXCEPT ![u] = [id |-> 0, active |-> FALSE]]
        BY <2>1, <3>1
      <4>2. 0 \in Nat /\ 0 <= ids' /\ ids' \in Nat /\ ids <= ids'
        BY <1>4, <2>1
      <4>. QED BY <1>5, <4>1, <4>2
    <3>2. CASE down[u].id # l.id
      BY <1>4, <1>6, <2>1, <3>2
    <3>. QED BY <3>1, <3>2
  <2>3. Moves(r)
    BY <1>1, <1>4, <2>1, ToMoves
  <2>. QED BY <2>1, <2>2, <2>3 DEF Works, Settles
<1>8. CASE /\ down' = [down EXCEPT ![u] = [id |-> ids + 1, active |-> run[r].active]]
           /\ ids' = ids + 1 /\ jobs' = jobs /\ tasks' = tasks
           /\ run' = [run EXCEPT ![r].step = "link", ![r].link = [run[r].link EXCEPT !.id = ids + 1]]
  <2>1. ids + 1 \in Nat /\ ids' \in Nat /\ ids + 1 <= ids' /\ ids <= ids'
    BY <1>4, <1>8
  <2>2. Stores(r)
    BY <1>3, <1>5, <1>8, <2>1
  <2>3. Moves(r)
    BY <1>1, <1>8, <2>1, LinkedMoves
  <2>. QED BY <1>8, <2>2, <2>3 DEF Works, Settles
<1>9. CASE /\ down' = down \/ down' = [down EXCEPT ![u] = [id |-> down[u].id, active |-> run[r].active]]
           /\ ids' = ids /\ jobs' = jobs /\ tasks' = tasks
           /\ run' = [run EXCEPT ![r].step = "link", ![r].link = [run[r].link EXCEPT !.id = down[u].id]]
  <2>2. Stores(r)
    BY <1>3, <1>4, <1>5, <1>6, <1>9
  <2>3. Moves(r)
    BY <1>1, <1>4, <1>9, LinkedMoves
  <2>. QED BY <1>9, <2>2, <2>3 DEF Works, Settles
<1>10. CASE To(r, "settle") /\ down' = down /\ ids' = ids /\ jobs' = jobs /\ tasks' = tasks
  <2>3. Moves(r)
    BY <1>1, <1>4, <1>10, ToMoves
  <2>. QED BY <1>6, <1>10, <2>3 DEF Works, Settles
<1>11. CASE CallFailed(r) /\ down' = down /\ ids' = ids
  BY <1>1, <1>6, <1>11, CallFailedKinds DEF Works
<1>. QED
  <2>1. tasks[TaskOf(r)].op \in Operations
    BY <1>1, InHand DEF TaskRow
  <2>. QED BY <2>1, <1>7, <1>8, <1>9, <1>10, <1>11 DEF Send, u, l, Operations

LEMMA LinkWorks ==
  ASSUME ProvInv, NEW r \in Runners, SaveLink(r) \/ DeleteLink(r)
  PROVE  Works(r)
<1>1. /\ AtWork(r) /\ run[r].step \notin {"idle", "load"} /\ To(r, "settle") /\ jobs' = jobs /\ tasks' = tasks
      /\ ids' = ids /\ down' = down /\ conn' = conn /\ resync' = resync /\ disturbances' = disturbances
      /\ UNCHANGED <<clock, user, assigned, captures, reservations, disp, rec, admin, retried, late>>
  BY DEF SaveLink, DeleteLink, AtWork
<1>2. Moves(r)
  BY <1>1, ToMoves, Tables
<1>. DEFINE u == TaskOf(r)[1]
            v == TaskOf(r)[2]
            new == [id |-> run[r].link.id, active |-> run[r].active, version |-> v]
<1>3. u \in Users /\ v \in Nat /\ run[r] \in RunRow /\ run[r].link.id <= ids
  BY <1>1, InHand, Numbers
<1>4. new \in LinkRow /\ new.id <= ids
  BY <1>3 DEF RunRow, LinkRow
<1>5. NoLink \in LinkRow /\ NoLink.id <= ids
  BY EmptyRows, Tables
<1>6. \/ link' = link
      \/ \E l \in LinkRow : l.id <= ids /\ link' = [link EXCEPT ![u] = l]
  BY <1>4, <1>5 DEF SaveLink, DeleteLink
<1>. HIDE DEF u, v, new
<1>7. link' \in [Users -> LinkRow] /\ \A w \in Users : link'[w].id <= ids
  BY <1>3, <1>6, Tables
<1>8. Stores(r)
  BY <1>1, <1>7, Tables DEF Stores
<1>. QED BY <1>1, <1>2, <1>8 DEF Works, Settles

LEMMA SettleWorks ==
  ASSUME ProvInv, NEW r \in Runners, Settle(r)
  PROVE  Works(r)
<1>1. AtWork(r) /\ run[r].step = "settle" /\ jobs' = jobs /\ ids' = ids
  BY DEF Settle, AtWork
<1>2. Stores(r)
  BY StoresAlone, Tables DEF Settle
<1>3. Settles(r)
  BY <1>1 DEF Settle, WithStatus, Settles, Terminal
<1>. DEFINE x == [[[run[r] EXCEPT !.step = "reset"] EXCEPT !.link = NoLink] EXCEPT !.active = FALSE]
<1>4. run' = [run EXCEPT ![r] = x]
  BY DEF Settle
<1>5. run[r] \in RunRow
  BY <1>1, InHand
<1>6. x \in RunRow /\ x.step = "reset" /\ x.job = run[r].job /\ x.link = NoLink
  BY <1>5, EmptyRows DEF RunRow
<1>7. x.link.id <= ids'
  BY <1>1, <1>6, EmptyRows, Tables
<1>. HIDE DEF x
<1>8. Moves(r)
  BY <1>1, <1>4, <1>6, <1>7 DEF Moves, WorkSteps
<1>. QED BY <1>2, <1>3, <1>8 DEF Works

LEMMA ConnWorks ==
  ASSUME ProvInv, NEW r \in Runners, ReadConnection(r)
  PROVE  Works(r)
<1>1. run[r].step # "idle" /\ tasks' = tasks /\ ids' = ids
  BY DEF ReadConnection
<1>2. Stores(r) /\ Settles(r)
  BY <1>1, StoresAlone, Tables DEF ReadConnection, Settles
<1>3. CASE Onward(r, FALSE)
  BY <1>1, <1>2, <1>3, OnwardKinds DEF Works
<1>4. ASSUME NEW c \in ConnRow, run' = [run EXCEPT ![r].step = "write", ![r].conn = c], jobs' = jobs
      PROVE  Works(r)
  <2>. DEFINE x == [[run[r] EXCEPT !.step = "write"] EXCEPT !.conn = c]
  <2>1. run' = [run EXCEPT ![r] = x]
    BY <1>4
  <2>2. run[r] \in RunRow /\ run[r].link.id <= ids
    BY <1>1, InHand
  <2>3. x \in RunRow /\ x.step = "write" /\ x.job = run[r].job /\ x.link = run[r].link
    BY <2>2 DEF RunRow
  <2>. HIDE DEF x
  <2>4. Moves(r)
    BY <1>1, <1>4, <2>1, <2>2, <2>3 DEF Moves, WorkSteps
  <2>. QED BY <1>2, <2>4 DEF Works
<1>5. [conn EXCEPT !.failures = 0] \in ConnRow
  BY Tables DEF ConnRow
<1>6. [conn EXCEPT !.failures = @ + 1,
                   !.health = IF conn.failures + 1 >= Threshold THEN "quarantined" ELSE @] \in ConnRow
  <2>. DEFINE h == IF conn.failures + 1 >= Threshold THEN "quarantined" ELSE conn.health
  <2>1. conn \in ConnRow /\ h \in {"ok", "quarantined"} /\ conn.failures + 1 \in Nat
    BY Tables DEF ConnRow
  <2>2. [[conn EXCEPT !.failures = conn.failures + 1] EXCEPT !.health = h] \in ConnRow
    <3>. HIDE DEF h
    <3>. QED BY <2>1 DEF ConnRow
  <2>. QED BY <2>2
<1>. QED BY <1>3, <1>4, <1>5, <1>6 DEF ReadConnection

LEMMA FailedLeaves ==
  ASSUME ProvInv, NEW r \in Runners, run[r].step # "idle", Failed(r)
  PROVE  Leaves(r)
BY ReportLeaves DEF Failed

LEMMA WriteWorks ==
  ASSUME ProvInv, NEW r \in Runners, WriteConnection(r)
  PROVE  Works(r)
<1>1. run[r].step # "idle" /\ tasks' = tasks /\ ids' = ids /\ conn' = run[r].conn
  BY DEF WriteConnection
<1>2. conn' \in ConnRow
  BY <1>1, InHand DEF RunRow
<1>3. Stores(r) /\ Settles(r)
  BY <1>1, <1>2, StoresAlone DEF WriteConnection, Settles
<1>4. CASE Failed(r)
  BY <1>1, <1>3, <1>4, FailedLeaves DEF Works
<1>5. CASE Onward(r, FALSE)
  BY <1>1, <1>3, <1>5, OnwardKinds DEF Works
<1>. QED BY <1>4, <1>5 DEF WriteConnection

LEMMA TallyWorks ==
  ASSUME ProvInv, NEW r \in Runners, Tally(r) \/ Complete(r)
  PROVE  Works(r)
<1>1. run[r].step # "idle" /\ tasks' = tasks /\ ids' = ids
  BY DEF Tally, Complete
<1>2. Stores(r) /\ Settles(r)
  <2>1. CASE Tally(r)
    BY <1>1, <2>1, StoresAlone, Tables DEF Tally, Settles
  <2>2. CASE Complete(r)
    BY <2>2, Tables DEF Complete, Settles, Stores
  <2>. QED BY <2>1, <2>2
<1>3. CASE Report(r, "ended")
  BY <1>1, <1>2, <1>3, ReportLeaves DEF Works
<1>4. CASE To(r, "count") /\ jobs' = jobs
  BY <1>1, <1>2, <1>4, ToMoves, Tables DEF Works, WorkSteps
<1>5. CASE run[r].step = "tally" /\ resync.status = "running" /\ AllEnded /\ To(r, "complete") /\ jobs' = jobs
  <2>. DEFINE x == [run[r] EXCEPT !.step = "complete"]
  <2>1. run' = [run EXCEPT ![r] = x]
    BY <1>5 DEF To
  <2>2. run[r] \in RunRow /\ run[r].link.id <= ids
    BY <1>1, InHand
  <2>3. x \in RunRow /\ x.step = "complete" /\ x.job = run[r].job /\ x.link = run[r].link
    BY <2>2 DEF RunRow
  <2>. HIDE DEF x
  <2>4. Moves(r)
    BY <1>1, <1>5, <2>1, <2>2, <2>3 DEF Moves, WorkSteps
  <2>. QED BY <1>2, <2>4 DEF Works
<1>. QED BY <1>3, <1>4, <1>5 DEF Tally, Complete

LEMMA FailureWorks ==
  ASSUME ProvInv, NEW r \in Runners, HandlerFails(r)
  PROVE  Works(r)
<1>1. run[r].step # "idle" /\ ids' = ids
  BY DEF HandlerFails
<1>2. Stores(r)
  BY StoresAlone, Tables DEF HandlerFails
<1>3. CASE AtWork(r) /\ CallFailed(r)
  BY <1>1, <1>2, <1>3, CallFailedKinds DEF Works
<1>4. CASE Failed(r) /\ tasks' = tasks
  BY <1>1, <1>2, <1>4, FailedLeaves DEF Works, Settles
<1>5. CASE ~ (AtWork(r) /\ CallFailed(r)) /\ ~ (Failed(r) /\ tasks' = tasks)
  <2>. DEFINE y == [jobs[run[r].job] EXCEPT !.owner = None]
  <2>1. run[r].job \in DOMAIN jobs /\ jobs[run[r].job] \in JobRow
    BY <1>1, InHand
  <2>2. y \in JobRow /\ y.task = jobs[run[r].job].task /\ y.prev = jobs[run[r].job].prev /\ y.owner = None
    BY <2>1 DEF JobRow
  <2>3. /\ run' = [run EXCEPT ![r] = NoRun] /\ tasks' = tasks
        /\ jobs' = jobs \/ (jobs[run[r].job].owner = r /\ jobs' = [jobs EXCEPT ![run[r].job] = y])
    BY <1>5 DEF HandlerFails
  <2>. HIDE DEF y
  <2>. QED BY <1>2, <2>2, <2>3 DEF Works, Leaves, Released, Settles
<1>. QED BY <1>3, <1>4, <1>5

\* Every step of an execution but its first one and the suspension.
LEMMA ExecutionKinds ==
  ASSUME ProvInv, NEW r \in Runners, Execute(r) \/ HandlerFails(r)
  PROVE  Claim(r) \/ Suspend(r) \/ (Works(r) /\ run[r].step # "idle")
<1>1. CASE SendFails(r)
  <2>1. AtWork(r) /\ ids' = ids /\ run[r].step # "idle"
    BY <1>1 DEF SendFails, AtWork
  <2>2. Stores(r)
    BY <1>1, StoresAlone, Tables DEF SendFails
  <2>. QED BY <1>1, <2>1, <2>2, CallFailedKinds DEF SendFails, Works
<1>2. CASE ~ (Claim(r) \/ Suspend(r) \/ SendFails(r))
  <2>1. Works(r)
    BY <1>2, LoadWorks, ResolveWorks, SendWorks, LinkWorks, SettleWorks, ConnWorks, WriteWorks, TallyWorks,
       FailureWorks DEF Execute
  <2>2. run[r].step # "idle"
    BY <1>2 DEF Execute, Load, Resolve, Send, SaveLink, DeleteLink, Settle, ReadConnection, WriteConnection,
                Tally, Complete, HandlerFails
  <2>. QED BY <2>1, <2>2
<1>. QED BY <1>1, <1>2

\* A claim: an active job is leased and executed or, if it is stale, ended.
Claims(r) ==
  \E j \in DOMAIN jobs, y \in JobRow :
    /\ Active(j)
    /\ jobs' = [jobs EXCEPT ![j] = y] /\ y.task = jobs[j].task /\ y.prev = jobs[j].prev
    /\ late' = TRUE \/ (late' = late /\ (jobs[j].status = "queued" \/ jobs[j].owner = None))
    /\ \/ run' = run /\ y.status = "ended" /\ y.owner = None
       \/ /\ y.status = "running" /\ y.owner = r
          /\ ~ Stale(j, tasks[jobs[j].task])
          /\ \E x \in RunRow :
               /\ run' = [run EXCEPT ![r] = x]
               /\ x.job = j /\ x.step = "load" /\ x.link.id <= ids

LEMMA ClaimKinds ==
  ASSUME ProvInv, NEW r \in Runners, Claim(r)
  PROVE  /\ Claims(r) /\ run[r].step = "idle" /\ disturbances' \in 0..MaxDisturbances
         /\ UNCHANGED <<clock, user, assigned, captures, conn, tasks, reservations, link, down, ids,
                        disp, rec, admin, resync, retried>>
<1>1. PICK j \in DOMAIN jobs :
        LET claimed == [jobs EXCEPT ![j].status = "running", ![j].attempts = @ + 1, ![j].owner = r]
        IN  /\ \/ /\ jobs[j].status = "queued" \/ (jobs[j].status = "running" /\ jobs[j].owner = None)
                  /\ UNCHANGED <<disturbances, late>>
               \/ /\ jobs[j].status = "running" /\ jobs[j].owner # None
                  /\ Disturb /\ late' = TRUE
            /\ IF Stale(j, tasks[jobs[j].task])
                 THEN jobs' = Reported(claimed, r, j, "ended") /\ UNCHANGED run
                 ELSE /\ jobs' = claimed
                      /\ run' = [run EXCEPT ![r] =
                                   [NoRun EXCEPT !.step = "load", !.job = j, !.attempt = claimed[j].attempts]]
  BY DEF Claim
<1>2. /\ run[r].step = "idle"
      /\ UNCHANGED <<clock, user, assigned, captures, conn, tasks, reservations, link, down, ids,
                     disp, rec, admin, resync, retried>>
  BY DEF Claim
<1>3. disturbances' \in 0..MaxDisturbances
  BY <1>1, Tables, Numbers DEF Disturb
<1>4. jobs[j] \in JobRow /\ jobs[j].task \in DOMAIN tasks /\ j \in Nat /\ Len(jobs) \in Nat
      /\ DOMAIN jobs = 1..Len(jobs)
  <2>1. jobs \in Seq(JobRow)
    BY DEF ProvInv, TypeOK
  <2>. QED BY <2>1 DEF ProvInv, TypeOK
<1>5. Active(j) /\ (late' = TRUE \/ (late' = late /\ (jobs[j].status = "queued" \/ jobs[j].owner = None)))
  BY <1>1 DEF Active
<1>. DEFINE t == tasks[jobs[j].task]
            n == jobs[j].attempts + 1
            y == [[[jobs[j] EXCEPT !.status = "running"] EXCEPT !.attempts = n] EXCEPT !.owner = r]
            z == [[y EXCEPT !.status = "ended"] EXCEPT !.owner = None]
<1>6. n \in Nat
  BY <1>4 DEF JobRow
<1>7. /\ y \in JobRow /\ y.task = jobs[j].task /\ y.prev = jobs[j].prev
      /\ y.status = "running" /\ y.owner = r /\ y.attempts = n
  <2>. HIDE DEF n
  <2>. QED BY <1>4, <1>6 DEF JobRow
<1>8. /\ z \in JobRow /\ z.task = jobs[j].task /\ z.prev = jobs[j].prev
      /\ z.status = "ended" /\ z.owner = None
  <2>. HIDE DEF y
  <2>. QED BY <1>7 DEF JobRow
<1>9. CASE Stale(j, t)
  <2>. DEFINE claimed == [jobs EXCEPT ![j] = y]
  <2>0. run' = run /\ jobs' = Reported(claimed, r, j, "ended")
    BY <1>1, <1>9
  <2>2. claimed[j] = y /\ DOMAIN claimed = DOMAIN jobs
    <3>. HIDE DEF y
    <3>. QED BY <1>4
  <2>3. jobs' = [claimed EXCEPT ![j] = z]
    <3>1. jobs' = [claimed EXCEPT ![j] = [[claimed[j] EXCEPT !.status = "ended"] EXCEPT !.owner = None]]
      <4>. HIDE DEF claimed, y
      <4>. QED BY <1>7, <2>0, <2>2 DEF Reported
    <3>. HIDE DEF claimed, y
    <3>. QED BY <3>1, <2>2
  <2>1. run' = run /\ jobs' = [jobs EXCEPT ![j] = z]
    <3>. HIDE DEF y, z
    <3>. QED BY <2>0, <2>3
  <2>. HIDE DEF z
  <2>. QED BY <1>2, <1>3, <1>5, <1>8, <2>1 DEF Claims
<1>10. CASE ~ Stale(j, t)
  <2>. DEFINE x == [NoRun EXCEPT !.step = "load", !.job = j, !.attempt = n]
  <2>1. x \in RunRow /\ x.step = "load" /\ x.job = j /\ x.link = NoLink
    <3>. HIDE DEF n
    <3>. QED BY <1>4, <1>6, EmptyRows DEF RunRow, NoRun
  <2>2. x.link.id <= ids
    <3>. HIDE DEF x
    <3>. QED BY <2>1, EmptyRows, Tables
  <2>3. jobs' = [jobs EXCEPT ![j] = y]
    BY <1>1, <1>10
  <2>4. run' = [run EXCEPT ![r] = x]
    <3>1. run' = [run EXCEPT ![r] = [NoRun EXCEPT !.step = "load", !.job = j, !.attempt = jobs'[j].attempts]]
      BY <1>1, <1>10
    <3>2. jobs'[j] = y
      <4>. HIDE DEF y
      <4>. QED BY <1>4, <2>3
    <3>3. jobs'[j].attempts = n
      BY <3>2, <1>7
    <3>. QED BY <3>1, <3>3
  <2>. HIDE DEF x, y
  <2>. QED BY <1>2, <1>3, <1>5, <1>7, <1>10, <2>1, <2>2, <2>3, <2>4 DEF Claims
<1>. QED BY <1>9, <1>10

-----------------------------------------------------------------------------
(* Types.  The parts of TypeOK, by table. *)

ChangeTypes ==
  /\ clock \in 1..MaxClock
  /\ user \in [Users -> [state : {"absent", "active", "disabled", "pending_deletion", "deleted"},
                         version : 1..MaxClock]]
  /\ assigned \subseteq Users
  /\ captures \subseteq [user : Users, trigger : Triggers, version : 1..MaxClock]
  /\ disturbances \in 0..MaxDisturbances
  /\ retried \subseteq Keys /\ late \in BOOLEAN
TaskTypes ==
  /\ DOMAIN tasks \subseteq Keys
  /\ \A k \in DOMAIN tasks : tasks[k] \in TaskRow /\ tasks[k].job <= Len(jobs)
ReservationTypes ==
  /\ DOMAIN reservations \subseteq Keys
  /\ \A k \in DOMAIN reservations : reservations[k] \in {"scheduled", "cancelled", "materialized"}
  /\ \A k, x \in DOMAIN reservations :
       reservations[k] = "scheduled" /\ reservations[x] = "scheduled" /\ k[1] = x[1] => k = x
LinkTypes ==
  /\ link \in [Users -> LinkRow] /\ down \in [Users -> [id : Nat, active : BOOLEAN]]
  /\ ids \in Nat /\ \A u \in Users : link[u].id <= ids /\ down[u].id <= ids
JobTypes == jobs \in Seq(JobRow) /\ \A j \in DOMAIN jobs : jobs[j].task \in DOMAIN tasks
ActorTypes ==
  /\ conn \in ConnRow
  /\ disp \in [Dispatchers -> DispRow] /\ run \in [Runners -> RunRow]
  /\ rec \in RecRow /\ admin \in AdminRow /\ resync \in ResyncRow
  /\ rec.step \in {"plan", "save"} => rec.version # 0
  /\ admin.step = "tasks" => resync.version # 0

LEMMA Parts ==
  ProvInv <=> /\ ChangeTypes /\ TaskTypes /\ ReservationTypes /\ LinkTypes /\ JobTypes /\ ActorTypes
              /\ \A r \in Runners : RunOK(r)
              /\ \A d \in Dispatchers : DispOK(d)
BY DEF ProvInv, TypeOK, ChangeTypes, TaskTypes, ReservationTypes, LinkTypes, JobTypes, ActorTypes

LEMMA PartsNext ==
  ProvInv' <=> /\ ChangeTypes' /\ TaskTypes' /\ ReservationTypes' /\ LinkTypes' /\ JobTypes' /\ ActorTypes'
               /\ \A r \in Runners : RunOK(r)'
               /\ \A d \in Dispatchers : DispOK(d)'
BY DEF ProvInv, TypeOK, ChangeTypes, TaskTypes, ReservationTypes, LinkTypes, JobTypes, ActorTypes

\* The tables only grow, and a job's key is never changed.
Grows ==
  /\ DOMAIN tasks \subseteq DOMAIN tasks' /\ DOMAIN reservations \subseteq DOMAIN reservations'
  /\ DOMAIN jobs \subseteq DOMAIN jobs' /\ Len(jobs) <= Len(jobs')
  /\ \A j \in DOMAIN jobs : jobs'[j].task = jobs[j].task /\ jobs'[j].prev = jobs[j].prev
  /\ clock <= clock' /\ ids <= ids'

\* The numbers in the tables.
LEMMA Counts ==
  ASSUME ProvInv
  PROVE  /\ clock \in Nat /\ ids \in Nat /\ Len(jobs) \in Nat /\ DOMAIN jobs = 1..Len(jobs)
         /\ \A r \in Runners : run[r].link.id \in Nat /\ run[r] \in RunRow
         /\ \A d \in Dispatchers : disp[d].job \in Nat /\ disp[d] \in DispRow
         /\ \A k \in Keys : k[1] \in Users /\ k[2] \in 1..MaxClock /\ k[2] \in Nat
<1>1. clock \in Nat /\ ids \in Nat
  BY Numbers DEF ProvInv, TypeOK
<1>2. jobs \in Seq(JobRow)
  BY DEF ProvInv, TypeOK
<1>3. Len(jobs) \in Nat /\ DOMAIN jobs = 1..Len(jobs)
  BY <1>2
<1>4. \A r \in Runners : run[r].link.id \in Nat /\ run[r] \in RunRow
  BY DEF ProvInv, TypeOK, RunRow, LinkRow
<1>5. \A d \in Dispatchers : disp[d].job \in Nat /\ disp[d] \in DispRow
  BY DEF ProvInv, TypeOK, DispRow
<1>6. \A k \in Keys : k[1] \in Users /\ k[2] \in 1..MaxClock /\ k[2] \in Nat
  BY Numbers DEF Keys
<1>. QED BY <1>1, <1>3, <1>4, <1>5, <1>6

LEMMA RunKept ==
  ASSUME ProvInv, Grows, ids' \in Nat, NEW s \in Runners, run'[s] = run[s]
  PROVE  RunOK(s)'
<1>1. run[s].link.id <= ids /\ run[s].link.id \in Nat /\ ids \in Nat /\ ids <= ids'
  BY Counts DEF ProvInv, RunOK, Grows
<1>2. run[s].step # "idle" => run[s].job \in DOMAIN jobs'
  BY DEF ProvInv, RunOK, Grows
<1>. QED BY <1>1, <1>2 DEF RunOK

LEMMA DispKept ==
  ASSUME ProvInv, Grows, clock' \in Nat, Len(jobs') \in Nat, NEW d \in Dispatchers, disp'[d] = disp[d]
  PROVE  DispOK(d)'
<1>1. disp[d].step = "due" =>
        disp[d].task \in DOMAIN reservations' /\ disp[d].task[2] + Grace <= clock'
  <2>. SUFFICES ASSUME disp[d].step = "due" PROVE disp[d].task \in DOMAIN reservations'
                                              /\ disp[d].task[2] + Grace <= clock'
    OBVIOUS
  <2>1. disp[d].task \in DOMAIN reservations /\ disp[d].task[2] + Grace <= clock
    BY DEF ProvInv, DispOK
  <2>2. disp[d].task \in Keys
    BY <2>1 DEF ProvInv, TypeOK
  <2>3. disp[d].task[2] \in Nat /\ clock \in Nat /\ clock <= clock' /\ Grace \in Nat
    BY <2>2, Counts, Numbers DEF Grows
  <2>. QED BY <2>1, <2>3 DEF Grows
<1>2. disp[d].step = "pending" => disp[d].task \in DOMAIN tasks' /\ disp[d].job <= Len(jobs')
  <2>1. disp[d].job \in Nat /\ Len(jobs) \in Nat /\ Len(jobs) <= Len(jobs')
    BY Counts DEF Grows
  <2>2. disp[d].step = "pending" => disp[d].task \in DOMAIN tasks /\ disp[d].job <= Len(jobs)
    BY DEF ProvInv, DispOK
  <2>. QED BY <2>1, <2>2 DEF Grows
<1>3. disp[d].step = "attach" =>
        disp[d].job \in DOMAIN jobs' /\ jobs'[disp[d].job].task = disp[d].task
  BY DEF ProvInv, DispOK, Grows
<1>. QED BY <1>1, <1>2, <1>3 DEF DispOK

\* Steps that leave the jobs, the downstream, the executions and the dispatchers alone.
LEMMA Aside ==
  ASSUME ProvInv, ChangeTypes', TaskTypes', ReservationTypes', ActorTypes',
         UNCHANGED <<jobs, link, down, ids, run, disp>>,
         DOMAIN tasks \subseteq DOMAIN tasks', DOMAIN reservations \subseteq DOMAIN reservations',
         clock <= clock'
  PROVE  ProvInv'
<1>1. Grows
  BY Counts DEF Grows
<1>2. LinkTypes' /\ JobTypes'
  BY DEF ProvInv, TypeOK, LinkTypes, JobTypes
<1>3. clock' \in Nat /\ Len(jobs') \in Nat /\ ids' \in Nat
  BY Counts, Numbers DEF ChangeTypes
<1>4. \A r \in Runners : RunOK(r)'
  BY <1>1, <1>3, RunKept
<1>5. \A d \in Dispatchers : DispOK(d)'
  BY <1>1, <1>3, DispKept
<1>. QED BY <1>2, <1>4, <1>5, PartsNext

LEMMA Alone ==
  ASSUME ProvInv
  PROVE  /\ (UNCHANGED <<clock, user, assigned, captures, disturbances, retried, late>> => ChangeTypes')
         /\ (UNCHANGED <<tasks, jobs>> => TaskTypes')
         /\ (UNCHANGED reservations => ReservationTypes')
         /\ (UNCHANGED <<link, down, ids>> => LinkTypes')
         /\ (UNCHANGED <<tasks, jobs>> => JobTypes')
         /\ (UNCHANGED <<conn, disp, run, rec, admin, resync>> => ActorTypes')
<1>1. UNCHANGED <<clock, user, assigned, captures, disturbances, retried, late>> => ChangeTypes'
  BY DEF ProvInv, TypeOK, ChangeTypes
<1>2. UNCHANGED <<tasks, jobs>> => TaskTypes' /\ JobTypes'
  BY DEF ProvInv, TypeOK, TaskTypes, JobTypes
<1>3. UNCHANGED reservations => ReservationTypes'
  BY DEF ProvInv, TypeOK, ReservationTypes
<1>4. UNCHANGED <<link, down, ids>> => LinkTypes'
  BY DEF ProvInv, TypeOK, LinkTypes
<1>5. UNCHANGED <<conn, disp, run, rec, admin, resync>> => ActorTypes'
  BY DEF ProvInv, TypeOK, ActorTypes
<1>. QED BY <1>1, <1>2, <1>3, <1>4, <1>5

\* The next disturbance is counted, and the clock moves on.
LEMMA Steps ==
  ASSUME ProvInv
  PROVE  /\ (Disturb => disturbances' \in 0..MaxDisturbances)
         /\ disturbances \in 0..MaxDisturbances
         /\ clock \in 1..MaxClock /\ clock \in Nat /\ MaxClock \in Nat
         /\ (clock < MaxClock => clock + 1 \in 1..MaxClock)
  BY Numbers DEF ProvInv, TypeOK, Disturb

\* A task is added with its operation, pending and without a job, or was there.
LEMMA TaskAdded ==
  ASSUME ProvInv, NEW k \in Keys, NEW op \in Operations, tasks' = WithTask(tasks, k, op), jobs' = jobs
  PROVE  /\ DOMAIN tasks' = DOMAIN tasks \union {k}
         /\ \A x \in DOMAIN tasks : tasks'[x] = tasks[x]
         /\ k \notin DOMAIN tasks => tasks'[k] = [op |-> op, status |-> "pending", job |-> 0]
         /\ TaskTypes'
<1>1. DOMAIN tasks' = DOMAIN tasks \union {k}
  BY DEF WithTask
<1>2. \A x \in DOMAIN tasks : tasks'[x] = tasks[x]
  BY DEF WithTask
<1>3. k \notin DOMAIN tasks => tasks'[k] = [op |-> op, status |-> "pending", job |-> 0]
  BY DEF WithTask
<1>4. [op |-> op, status |-> "pending", job |-> 0] \in TaskRow
  BY DEF TaskRow
<1>5. TaskTypes'
  <2>1. DOMAIN tasks' \subseteq Keys
    BY <1>1 DEF ProvInv, TypeOK
  <2>2. ASSUME NEW x \in DOMAIN tasks' PROVE tasks'[x] \in TaskRow /\ tasks'[x].job <= Len(jobs')
    <3>1. CASE x \in DOMAIN tasks
      BY <1>2, <3>1 DEF ProvInv, TypeOK
    <3>2. CASE x \notin DOMAIN tasks
      <4>1. x = k /\ tasks'[x] = [op |-> op, status |-> "pending", job |-> 0]
        BY <1>1, <1>3, <2>2, <3>2
      <4>. QED BY <1>4, <4>1, Counts
    <3>. QED BY <3>1, <3>2
  <2>. QED BY <2>1, <2>2 DEF TaskTypes
<1>. QED BY <1>1, <1>2, <1>3, <1>5

\* A reservation is made: the user has no other one that is scheduled.
ReservationsOK(rs) ==
  /\ DOMAIN rs \subseteq Keys
  /\ \A k \in DOMAIN rs : rs[k] \in {"scheduled", "cancelled", "materialized"}
  /\ \A k, x \in DOMAIN rs : rs[k] = "scheduled" /\ rs[x] = "scheduled" /\ k[1] = x[1] => k = x

LEMMA ReservationMade ==
  ASSUME NEW rs, ReservationsOK(rs), NEW k \in Keys
  PROVE  /\ ReservationsOK(WithReservation(rs, k))
         /\ DOMAIN rs \subseteq DOMAIN WithReservation(rs, k)
         /\ DOMAIN WithReservation(rs, k) \subseteq DOMAIN rs \union {k}
         /\ \A x \in DOMAIN rs : WithReservation(rs, k)[x] = rs[x] \/ x = k
<1>1. CASE \E x \in DOMAIN rs : x[1] = k[1] /\ rs[x] = "scheduled"
  BY <1>1 DEF WithReservation
<1>2. CASE ~ \E x \in DOMAIN rs : x[1] = k[1] /\ rs[x] = "scheduled"
  <2>. DEFINE ss == [x \in DOMAIN rs \union {k} |-> IF x = k THEN "scheduled" ELSE rs[x]]
  <2>1. WithReservation(rs, k) = ss
    BY <1>2 DEF WithReservation
  <2>2. DOMAIN ss = DOMAIN rs \union {k} /\ \A x \in DOMAIN ss : ss[x] = IF x = k THEN "scheduled" ELSE rs[x]
    OBVIOUS
  <2>. HIDE DEF ss
  <2>3. ReservationsOK(ss)
    BY <1>2, <2>2 DEF ReservationsOK
  <2>. QED BY <2>1, <2>2, <2>3
<1>. QED BY <1>1, <1>2

LEMMA ReservationsCancelled ==
  ASSUME NEW rs, ReservationsOK(rs), NEW u, NEW v
  PROVE  /\ ReservationsOK(Cancelled(rs, u, v)) /\ DOMAIN Cancelled(rs, u, v) = DOMAIN rs
         /\ \A x \in DOMAIN rs : \/ Cancelled(rs, u, v)[x] = rs[x]
                                 \/ rs[x] = "scheduled" /\ Cancelled(rs, u, v)[x] = "cancelled"
BY DEF ReservationsOK, Cancelled

-----------------------------------------------------------------------------
(* Types, step by step. *)

LEMMA ChangeStep ==
  ASSUME ProvInv, NEW u \in Users, ChangeUser(u) \/ ChangeAssignment(u)
  PROVE  /\ ProvInv' /\ clock' = clock + 1
         /\ \E t \in Triggers : captures' = captures \union {[user |-> u, trigger |-> t, version |-> clock + 1]}
         /\ UNCHANGED <<conn, tasks, reservations, link, down, ids, jobs, actors, resync, retried, late>>
<1>1. /\ UNCHANGED <<conn, tasks, reservations, link, down, ids, jobs, actors, resync, disturbances,
                     retried, late>>
      /\ clock' = clock + 1 /\ clock < MaxClock
  BY DEF ChangeUser, Change, ChangeAssignment
<1>2. \E t \in Triggers : captures' = captures \union {[user |-> u, trigger |-> t, version |-> clock + 1]}
  BY DEF ChangeUser, Change, ChangeAssignment, Triggers
<1>3. assigned' \subseteq Users
  BY DEF ChangeUser, Change, ChangeAssignment, ProvInv, TypeOK
<1>. DEFINE Row == [state : {"absent", "active", "disabled", "pending_deletion", "deleted"},
                    version : 1..MaxClock]
<1>4. user' \in [Users -> Row]
  <2>1. user \in [Users -> Row]
    BY DEF ProvInv, TypeOK
  <2>2. \/ user' = user
        \/ \E st \in {"active", "disabled", "pending_deletion", "deleted"} :
             user' = [user EXCEPT ![u] = [state |-> st, version |-> clock + 1]]
    BY DEF ChangeUser, Change, ChangeAssignment
  <2>3. clock + 1 \in 1..MaxClock
    BY <1>1, Steps
  <2>4. \A st \in {"active", "disabled", "pending_deletion", "deleted"} :
          [state |-> st, version |-> clock + 1] \in Row
    BY <2>3
  <2>. HIDE DEF Row
  <2>. QED BY <2>1, <2>2, <2>4
<1>5. captures' \subseteq [user : Users, trigger : Triggers, version : 1..MaxClock]
  <2>1. captures \subseteq [user : Users, trigger : Triggers, version : 1..MaxClock]
    BY DEF ProvInv, TypeOK
  <2>. QED BY <1>1, <1>2, <2>1, Steps
<1>6. ChangeTypes'
  BY <1>1, <1>3, <1>4, <1>5, Steps DEF ChangeTypes, ProvInv, TypeOK
<1>7. ProvInv'
  <2>1. TaskTypes' /\ ReservationTypes' /\ ActorTypes'
    BY <1>1, Alone DEF actors
  <2>. QED BY <1>1, <1>6, <2>1, Aside, Steps DEF actors
<1>. QED BY <1>1, <1>2, <1>7

LEMMA TickStep ==
  ASSUME ProvInv, Tick
  PROVE  ProvInv'
<1>1. /\ clock' = clock + 1 /\ clock < MaxClock
      /\ UNCHANGED <<user, assigned, captures, conn, tasks, reservations, link, down, ids, jobs,
                     actors, resync, disturbances, retried, late>>
  BY DEF Tick
<1>2. ChangeTypes'
  BY <1>1, Steps DEF ChangeTypes, ProvInv, TypeOK
<1>3. TaskTypes' /\ ReservationTypes' /\ ActorTypes'
  BY <1>1, Alone DEF actors
<1>. QED BY <1>1, <1>2, <1>3, Aside, Steps DEF actors

LEMMA DemandStep ==
  ASSUME ProvInv, NEW u \in Users, ProvisionOnDemand(u)
  PROVE  /\ ProvInv' /\ clock' = clock + 1 /\ <<u, clock + 1>> \in Keys
         /\ tasks' = WithTask(tasks, <<u, clock + 1>>, "update")
         /\ UNCHANGED <<captures, reservations, link, down, ids, jobs, actors, resync, retried, late>>
<1>1. /\ clock' = clock + 1 /\ clock < MaxClock /\ Disturb
      /\ tasks' = WithTask(tasks, <<u, clock + 1>>, "update")
      /\ UNCHANGED <<user, assigned, captures, conn, reservations, link, down, ids, jobs,
                     actors, resync, retried, late>>
  BY DEF ProvisionOnDemand
<1>2. ChangeTypes'
  BY <1>1, Steps DEF ChangeTypes, ProvInv, TypeOK
<1>3. <<u, clock + 1>> \in Keys
  BY <1>1, Steps DEF Keys
<1>4. TaskTypes' /\ DOMAIN tasks \subseteq DOMAIN tasks'
  BY <1>1, <1>3, TaskAdded DEF Operations
<1>5. ReservationTypes' /\ ActorTypes'
  BY <1>1, Alone DEF actors
<1>6. ProvInv'
  BY <1>1, <1>2, <1>4, <1>5, Aside, Steps DEF actors
<1>. QED BY <1>1, <1>3, <1>6

LEMMA ReservationsNow == ProvInv => ReservationsOK(reservations)
BY DEF ProvInv, TypeOK, ReservationsOK

\* What is captured of a change: the reservations that are kept, and one more or a task.
LEMMA CaptureStep ==
  ASSUME ProvInv, NEW c \in captures, Capture(c)
  PROVE  /\ ProvInv' /\ captures' = captures \ {c} /\ <<c.user, c.version>> \in Keys
         /\ UNCHANGED <<clock, link, down, ids, jobs, actors, resync, retried, late>>
         /\ DOMAIN reservations \subseteq DOMAIN reservations'
         /\ DOMAIN reservations' \subseteq DOMAIN reservations \union {<<c.user, c.version>>}
         /\ \A x \in DOMAIN reservations :
              \/ reservations'[x] = reservations[x]
              \/ reservations[x] = "scheduled" /\ reservations'[x] = "cancelled"
              \/ x = <<c.user, c.version>>
         /\ \/ tasks' = tasks
            \/ \E op \in Operations :
                 /\ tasks' = WithTask(tasks, <<c.user, c.version>>, op)
                 /\ op = Operation(c.trigger) /\ ~ Reserved(c.trigger, op)
                 /\ DOMAIN reservations' = DOMAIN reservations
<1>. DEFINE k == <<c.user, c.version>>
            kept == IF c.trigger \in {"added", "enabled"}
                      THEN Cancelled(reservations, c.user, c.version) ELSE reservations
<1>1. /\ captures' = captures \ {c}
      /\ UNCHANGED <<clock, user, assigned, conn, link, down, ids, jobs, actors, resync, retried, late>>
  BY DEF Capture
<1>2. k \in Keys
  BY DEF ProvInv, TypeOK, Keys
<1>3. /\ ReservationsOK(kept) /\ DOMAIN kept = DOMAIN reservations
      /\ \A x \in DOMAIN reservations : \/ kept[x] = reservations[x]
                                        \/ reservations[x] = "scheduled" /\ kept[x] = "cancelled"
  BY ReservationsNow, ReservationsCancelled
<1>4. /\ \/ reservations' \in {kept, reservations}
         \/ reservations' = WithReservation(kept, k)
      /\ \/ tasks' = tasks
         \/ /\ tasks' = WithTask(tasks, k, Operation(c.trigger)) /\ Wanted(c)
            /\ ~ Reserved(c.trigger, Operation(c.trigger))
            /\ reservations' = kept
      /\ disturbances' = disturbances \/ Disturb
  BY DEF Capture
<1>5. /\ DOMAIN reservations \subseteq DOMAIN reservations'
      /\ DOMAIN reservations' \subseteq DOMAIN reservations \union {k}
      /\ ReservationsOK(reservations')
      /\ \A x \in DOMAIN reservations :
           \/ reservations'[x] = reservations[x]
           \/ reservations[x] = "scheduled" /\ reservations'[x] = "cancelled"
           \/ x = k
  <2>. HIDE DEF kept, k
  <2>1. CASE reservations' \in {kept, reservations}
    BY <1>3, <2>1, ReservationsNow
  <2>2. CASE reservations' = WithReservation(kept, k)
    <3>1. /\ ReservationsOK(reservations') /\ DOMAIN kept \subseteq DOMAIN reservations'
          /\ DOMAIN reservations' \subseteq DOMAIN kept \union {k}
          /\ \A x \in DOMAIN kept : reservations'[x] = kept[x] \/ x = k
      BY <1>2, <1>3, <2>2, ReservationMade
    <3>. QED BY <1>3, <3>1
  <2>. QED BY <1>4, <2>1, <2>2
<1>6. \/ tasks' = tasks
      \/ \E op \in Operations :
           /\ tasks' = WithTask(tasks, k, op)
           /\ op = Operation(c.trigger) /\ ~ Reserved(c.trigger, op)
           /\ DOMAIN reservations' = DOMAIN reservations
  <2>1. Wanted(c) => Operation(c.trigger) \in Operations
    BY ProvisioningAssumption DEF Wanted, Operations
  <2>. HIDE DEF kept, k
  <2>. QED BY <1>3, <1>4, <2>1
<1>7. TaskTypes' /\ DOMAIN tasks \subseteq DOMAIN tasks'
  <2>1. CASE tasks' = tasks
    BY <1>1, <2>1, Alone
  <2>2. CASE tasks' # tasks
    <3>1. PICK op \in Operations : tasks' = WithTask(tasks, k, op)
      BY <1>6, <2>2
    <3>. HIDE DEF k
    <3>. QED BY <1>1, <1>2, <3>1, TaskAdded
  <2>. QED BY <2>1, <2>2
<1>8. ReservationTypes'
  BY <1>5 DEF ReservationTypes, ReservationsOK
<1>9. ChangeTypes'
  <2>1. captures' \subseteq captures
    BY <1>1
  <2>2. disturbances' \in 0..MaxDisturbances
    BY <1>4, Steps
  <2>. QED BY <1>1, <2>1, <2>2 DEF ChangeTypes, ProvInv, TypeOK
<1>10. ActorTypes'
  BY <1>1, Alone DEF actors
<1>11. ProvInv'
  BY <1>1, <1>5, <1>7, <1>8, <1>9, <1>10, Aside, Steps DEF actors
<1>. QED BY <1>1, <1>2, <1>5, <1>6, <1>11

LEMMA ReadLinksStep ==
  ASSUME ProvInv, ReadLinks
  PROVE  /\ ProvInv' /\ clock' = clock + 1 /\ rec'.step = "plan" /\ rec'.version = clock + 1 /\ rec'.plan = {}
         /\ UNCHANGED <<captures, tasks, reservations, link, down, ids, jobs, disp, run, admin, resync,
                        retried, late>>
<1>1. /\ clock < MaxClock /\ clock' = clock + 1
      /\ rec' = [NoRec EXCEPT !.step = "plan", !.version = clock + 1, !.links = link, !.conn = conn]
      /\ UNCHANGED <<user, assigned, captures, conn, tasks, reservations, link, down, ids, jobs,
                     disp, run, admin, resync, disturbances, retried, late>>
  BY DEF ReadLinks
<1>2. link \in [Users -> LinkRow] /\ conn \in ConnRow /\ clock + 1 \in 0..MaxClock /\ clock + 1 # 0
  BY <1>1, Tables, Steps
<1>3. rec' \in RecRow /\ rec'.step = "plan" /\ rec'.version = clock + 1 /\ rec'.plan = {}
  BY <1>1, <1>2, EmptyRows DEF RecRow, NoRec
<1>4. ActorTypes'
  BY <1>1, <1>2, <1>3 DEF ActorTypes, ProvInv, TypeOK
<1>5. ChangeTypes'
  BY <1>1, Steps DEF ChangeTypes, ProvInv, TypeOK
<1>6. TaskTypes' /\ ReservationTypes'
  BY <1>1, Alone
<1>7. ProvInv'
  BY <1>1, <1>4, <1>5, <1>6, Aside, Steps
<1>. QED BY <1>1, <1>3, <1>7

\* What is planned is an operation, of one kind for each user, and a deletion that is
\* planned is one that is to be reserved.
LEMMA PlannedKinds ==
  ASSUME NEW u \in Users, NEW lnk, Planned(u, lnk) # "none"
  PROVE  /\ Planned(u, lnk) \in Operations
         /\ Grace > 0 /\ OnUnassign # "delete" /\ Planned(u, lnk) = "delete" => Schedules(u, "delete")
<1>1. Planned(u, lnk) \in Operations
  BY ProvisioningAssumption DEF Planned, Operations
<1>2. ASSUME Planned(u, lnk) = "delete", OnUnassign # "delete"
      PROVE  user[u].state = "deleted"
  BY <1>2 DEF Planned
<1>. QED BY <1>1, <1>2 DEF Schedules

LEMMA PlanStep ==
  ASSUME ProvInv, Plan
  PROVE  /\ ProvInv' /\ rec.step = "plan"
         /\ UNCHANGED <<store, disp, run, admin, resync, disturbances, retried, late>>
         /\ \/ rec'.step \in {"idle", "quarantine"} /\ rec'.plan = {}
            \/ /\ rec'.step = "save" /\ rec'.version = rec.version
               /\ \A p, q \in rec'.plan : p[1] = q[1] => p = q
               /\ Grace > 0 /\ OnUnassign # "delete" => \A p \in rec'.plan : p[2] = "delete" => p[3]
<1>. DEFINE op == [u \in Users |-> IF Awaits(u) THEN "none" ELSE Planned(u, rec.links[u])]
            planned == {u \in Users : op[u] # "none"}
            within == {u \in planned : Cardinality({v \in planned : v < u}) < Limit}
            p0 == {<<u, op[u], Schedules(u, op[u])>> : u \in within}
            Q == [NoRec EXCEPT !.step = "quarantine", !.conn = conn]
            S == [NoRec EXCEPT !.step = "save", !.version = rec.version, !.plan = p0]
<1>1. rec.step = "plan" /\ UNCHANGED <<store, disp, run, admin, resync, disturbances, retried, late>>
  BY DEF Plan
<1>2. rec' \in {NoRec, Q, S}
  BY DEF Plan
<1>3. rec \in RecRow /\ rec.version # 0 /\ conn \in ConnRow /\ rec.version \in 0..MaxClock
  BY <1>1 DEF ProvInv, TypeOK, RecRow
<1>4. \A u \in within : u \in Users /\ op[u] \in Operations /\ Schedules(u, op[u]) \in BOOLEAN
  BY PlannedKinds DEF Schedules
<1>5. p0 \subseteq Users \X Operations \X BOOLEAN
  <2>. HIDE DEF op, within
  <2>. QED BY <1>4
<1>6. \A p, q \in p0 : p[1] = q[1] => p = q
  <2>. HIDE DEF op, within
  <2>. QED OBVIOUS
<1>7. Grace > 0 /\ OnUnassign # "delete" => \A p \in p0 : p[2] = "delete" => p[3]
  <2>. SUFFICES ASSUME Grace > 0, OnUnassign # "delete", NEW p \in p0, p[2] = "delete"
                PROVE  p[3]
    OBVIOUS
  <2>1. PICK u \in within : p = <<u, op[u], Schedules(u, op[u])>>
    <3>. HIDE DEF op, within
    <3>. QED OBVIOUS
  <2>2. op[u] = "delete"
    <3>. HIDE DEF op, within
    <3>. QED BY <2>1
  <2>3. u \in Users /\ Planned(u, rec.links[u]) = "delete"
    BY <2>2
  <2>4. Schedules(u, op[u])
    BY <2>2, <2>3, PlannedKinds
  <2>5. p[3] = Schedules(u, op[u])
    <3>. HIDE DEF op, within
    <3>. QED BY <2>1
  <2>. QED BY <2>4, <2>5
<1>. HIDE DEF p0
<1>8. Q \in RecRow /\ Q.step = "quarantine" /\ Q.plan = {}
  BY <1>3, EmptyRows DEF RecRow, NoRec
<1>9. S \in RecRow /\ S.step = "save" /\ S.version = rec.version /\ S.plan = p0
  BY <1>3, <1>5, EmptyRows DEF RecRow, NoRec
<1>. HIDE DEF Q, S
<1>10. ActorTypes'
  BY <1>1, <1>2, <1>3, <1>8, <1>9, EmptyRows DEF ActorTypes, ProvInv, TypeOK, store
<1>11. ChangeTypes' /\ TaskTypes' /\ ReservationTypes'
  BY <1>1, Alone DEF store
<1>12. ProvInv'
  BY <1>1, <1>10, <1>11, Aside, Steps DEF store
<1>. QED BY <1>1, <1>2, <1>6, <1>7, <1>8, <1>9, <1>12, EmptyRows

\* Saving the next planned operation: a reservation, or a task.
LEMMA SaveStep ==
  ASSUME ProvInv, SavePlanned
  PROVE  /\ ProvInv' /\ rec.step = "save"
         /\ UNCHANGED <<clock, captures, link, down, ids, jobs, disp, run, admin, resync, retried, late>>
         /\ \E p \in rec.plan :
              /\ <<p[1], rec.version>> \in Keys /\ p[2] \in Operations
              /\ IF p[3]
                   THEN /\ reservations' = WithReservation(reservations, <<p[1], rec.version>>)
                        /\ UNCHANGED tasks
                   ELSE /\ tasks' = WithTask(tasks, <<p[1], rec.version>>, p[2])
                        /\ UNCHANGED reservations
              /\ \/ rec'.step = "idle" /\ rec'.plan = {}
                 \/ rec'.step = "save" /\ rec'.version = rec.version /\ rec'.plan = rec.plan \ {p}
<1>1. PICK p \in rec.plan :
        /\ IF p[3]
             THEN /\ reservations' = WithReservation(reservations, <<p[1], rec.version>>)
                  /\ UNCHANGED tasks
             ELSE /\ tasks' = WithTask(tasks, <<p[1], rec.version>>, p[2])
                  /\ UNCHANGED reservations
        /\ rec' = IF rec.plan = {p} THEN NoRec ELSE [rec EXCEPT !.plan = rec.plan \ {p}]
  BY DEF SavePlanned
<1>2. /\ rec.step = "save"
      /\ UNCHANGED <<clock, user, assigned, captures, conn, link, down, ids, jobs,
                     disp, run, admin, resync, disturbances, retried, late>>
  BY DEF SavePlanned
<1>3. rec \in RecRow /\ rec.version # 0
  BY <1>2 DEF ProvInv, TypeOK
<1>4. /\ rec.plan \subseteq Users \X Operations \X BOOLEAN /\ rec.version \in 1..MaxClock
      /\ p[1] \in Users /\ p[2] \in Operations
  BY <1>3, Numbers DEF RecRow
<1>5. <<p[1], rec.version>> \in Keys
  BY <1>4 DEF Keys
<1>. DEFINE S == [rec EXCEPT !.plan = rec.plan \ {p}]
<1>6. S \in RecRow /\ S.step = "save" /\ S.version = rec.version /\ S.plan = rec.plan \ {p}
  BY <1>2, <1>3 DEF RecRow
<1>7. rec' \in {NoRec, S}
  BY <1>1
<1>. HIDE DEF S
<1>8. ActorTypes'
  BY <1>2, <1>3, <1>6, <1>7, EmptyRows DEF ActorTypes, ProvInv, TypeOK
<1>9. TaskTypes' /\ DOMAIN tasks \subseteq DOMAIN tasks'
  <2>1. CASE tasks' = tasks
    BY <1>2, <2>1, Alone
  <2>2. CASE tasks' # tasks
    <3>1. tasks' = WithTask(tasks, <<p[1], rec.version>>, p[2])
      BY <1>1, <2>2
    <3>. QED BY <1>2, <1>4, <1>5, <3>1, TaskAdded
  <2>. QED BY <2>1, <2>2
<1>10. ReservationTypes' /\ DOMAIN reservations \subseteq DOMAIN reservations'
  <2>1. CASE reservations' = reservations
    BY <2>1, Alone
  <2>2. CASE reservations' # reservations
    <3>1. reservations' = WithReservation(reservations, <<p[1], rec.version>>)
      BY <1>1, <2>2
    <3>2. ReservationsOK(reservations') /\ DOMAIN reservations \subseteq DOMAIN reservations'
      BY <1>5, <3>1, ReservationMade, ReservationsNow
    <3>. QED BY <3>2 DEF ReservationTypes, ReservationsOK
  <2>. QED BY <2>1, <2>2
<1>11. ChangeTypes'
  BY <1>2, Alone
<1>12. ProvInv'
  BY <1>2, <1>8, <1>9, <1>10, <1>11, Aside, Steps
<1>. QED BY <1>1, <1>2, <1>4, <1>5, <1>6, <1>7, <1>12, EmptyRows

LEMMA GuardStep ==
  ASSUME ProvInv, QuarantineByGuard
  PROVE  /\ ProvInv' /\ rec' = NoRec
         /\ UNCHANGED <<clock, captures, tasks, reservations, link, down, ids, jobs, disp, run, admin,
                        resync, retried, late>>
<1>1. /\ conn' = [rec.conn EXCEPT !.health = "quarantined"] /\ rec' = NoRec
      /\ UNCHANGED <<clock, user, assigned, captures, tasks, reservations, link, down, ids, jobs,
                     disp, run, admin, resync, disturbances, retried, late>>
  BY DEF QuarantineByGuard
<1>2. rec.conn \in ConnRow
  BY DEF ProvInv, TypeOK, RecRow
<1>3. conn' \in ConnRow
  BY <1>1, <1>2 DEF ConnRow
<1>4. ActorTypes'
  BY <1>1, <1>3, EmptyRows DEF ActorTypes, ProvInv, TypeOK
<1>5. ChangeTypes' /\ TaskTypes' /\ ReservationTypes'
  BY <1>1, Alone
<1>6. ProvInv'
  BY <1>1, <1>4, <1>5, Aside, Steps
<1>. QED BY <1>1, <1>6

\* Steps of one dispatcher.
LEMMA DispatcherAside ==
  ASSUME ProvInv, NEW d \in Dispatchers, NEW x \in DispRow, disp' = [disp EXCEPT ![d] = x], DispOK(d)',
         TaskTypes', ReservationTypes', JobTypes', Grows, Len(jobs') \in Nat,
         UNCHANGED <<clock, user, assigned, captures, conn, link, down, ids,
                     run, rec, admin, resync, disturbances, retried, late>>
  PROVE  ProvInv'
<1>1. ChangeTypes' /\ LinkTypes'
  BY Alone
<1>2. ActorTypes'
  BY DEF ActorTypes, ProvInv, TypeOK
<1>3. \A r \in Runners : RunOK(r)'
  BY RunKept, Counts
<1>4. \A e \in Dispatchers : DispOK(e)'
  <2>1. \A e \in Dispatchers : e # d => disp'[e] = disp[e]
    BY DEF ProvInv, TypeOK
  <2>. QED BY <2>1, DispKept, Counts
<1>. QED BY <1>1, <1>2, <1>3, <1>4, PartsNext

LEMMA ListStep ==
  ASSUME ProvInv, NEW d \in Dispatchers, ListDue(d) \/ ListPending(d)
  PROVE  /\ ProvInv' /\ disp[d].step = "idle"
         /\ UNCHANGED <<store, run, rec, admin, resync, disturbances, retried, late>>
         /\ \E x \in DispRow :
              /\ disp' = [disp EXCEPT ![d] = x]
              /\ \/ x.step = "due"
                 \/ /\ x.step = "pending" /\ x.task \in DOMAIN tasks
                    /\ tasks[x.task].status = "pending" /\ x.job = tasks[x.task].job
<1>1. disp[d].step = "idle" /\ UNCHANGED <<store, run, rec, admin, resync, disturbances, retried, late>>
  BY DEF ListDue, ListPending
<1>2. disp \in [Dispatchers -> DispRow]
  BY DEF ProvInv, TypeOK
<1>3. \E x \in DispRow :
        /\ disp' = [disp EXCEPT ![d] = x]
        /\ \/ x.step = "due" /\ x.task \in DOMAIN reservations /\ x.task[2] + Grace <= clock
           \/ /\ x.step = "pending" /\ x.task \in DOMAIN tasks /\ x.job <= Len(jobs)
              /\ tasks[x.task].status = "pending" /\ x.job = tasks[x.task].job
  <2>1. CASE ListDue(d)
    <3>1. PICK k \in DOMAIN reservations :
            Due(k) /\ disp' = [disp EXCEPT ![d] = [NoDisp EXCEPT !.step = "due", !.task = k]]
      BY <2>1 DEF ListDue
    <3>. DEFINE x == [NoDisp EXCEPT !.step = "due", !.task = k]
    <3>2. k \in Keys
      BY DEF ProvInv, TypeOK
    <3>3. x \in DispRow /\ x.step = "due" /\ x.task = k
      BY <3>2, EmptyRows DEF DispRow, NoDisp
    <3>. HIDE DEF x
    <3>4. k[2] + Grace <= clock
      BY <3>1 DEF Due
    <3>. QED BY <3>1, <3>3, <3>4 DEF x
  <2>2. CASE ListPending(d)
    <3>1. PICK k \in DOMAIN tasks :
            /\ tasks[k].status = "pending"
            /\ disp' = [disp EXCEPT ![d] = [step |-> "pending", task |-> k, job |-> tasks[k].job]]
      BY <2>2 DEF ListPending
    <3>. DEFINE x == [step |-> "pending", task |-> k, job |-> tasks[k].job]
    <3>2. k \in Keys /\ tasks[k].job \in Nat /\ tasks[k].job <= Len(jobs)
      BY DEF ProvInv, TypeOK, TaskRow
    <3>3. x \in DispRow /\ x.step = "pending" /\ x.task = k /\ x.job = tasks[k].job
      BY <3>2 DEF DispRow
    <3>. HIDE DEF x
    <3>. QED BY <3>1, <3>2, <3>3 DEF x
  <2>. QED BY <2>1, <2>2
<1>4. PICK x \in DispRow :
        /\ disp' = [disp EXCEPT ![d] = x]
        /\ \/ x.step = "due" /\ x.task \in DOMAIN reservations /\ x.task[2] + Grace <= clock
           \/ /\ x.step = "pending" /\ x.task \in DOMAIN tasks /\ x.job <= Len(jobs)
              /\ tasks[x.task].status = "pending" /\ x.job = tasks[x.task].job
  BY <1>3
<1>5. DispOK(d)'
  <2>1. disp'[d] = x
    BY <1>2, <1>4
  <2>. QED BY <1>1, <1>4, <2>1 DEF DispOK, store
<1>6. Grows
  BY <1>1, Counts DEF Grows, store
<1>7. TaskTypes' /\ ReservationTypes' /\ JobTypes' /\ Len(jobs') \in Nat
  BY <1>1, Alone, Counts DEF store
<1>8. ProvInv'
  BY <1>1, <1>4, <1>5, <1>6, <1>7, DispatcherAside DEF store
<1>. QED BY <1>1, <1>4, <1>8

\* A dispatcher is done with what it had in hand.
LEMMA DispatcherIdle ==
  ASSUME ProvInv, NEW d \in Dispatchers, disp' = [disp EXCEPT ![d] = NoDisp]
  PROVE  DispOK(d)'
<1>1. disp'[d].step = "idle"
  BY EmptyRows DEF ProvInv, TypeOK
<1>. QED BY <1>1 DEF DispOK

LEMMA MaterializeStep ==
  ASSUME ProvInv, NEW d \in Dispatchers, Materialize(d)
  PROVE  /\ ProvInv' /\ disp[d].step = "due"
         /\ disp' = [disp EXCEPT ![d] = NoDisp]
         /\ disp[d].task \in DOMAIN reservations /\ disp[d].task \in Keys
         /\ disp[d].task[2] + Grace <= clock
         /\ \/ UNCHANGED <<reservations, tasks>>
            \/ /\ reservations[disp[d].task] = "scheduled"
               /\ reservations' = [reservations EXCEPT ![disp[d].task] = "materialized"]
               /\ tasks' = WithTask(tasks, disp[d].task, "delete")
         /\ UNCHANGED <<clock, captures, conn, link, down, ids, jobs, run, rec, admin, resync,
                        retried, late>>
<1>. DEFINE k == disp[d].task
<1>1. /\ disp[d].step = "due" /\ disp' = [disp EXCEPT ![d] = NoDisp]
      /\ UNCHANGED <<clock, user, assigned, captures, conn, link, down, ids, jobs,
                     run, rec, admin, resync, disturbances, retried, late>>
      /\ \/ UNCHANGED <<reservations, tasks>>
         \/ /\ reservations[k] = "scheduled"
            /\ reservations' = [reservations EXCEPT ![k] = "materialized"]
            /\ tasks' = WithTask(tasks, k, "delete")
  BY DEF Materialize, StillScheduled
<1>2. k \in DOMAIN reservations /\ k \in Keys /\ k[2] + Grace <= clock
  BY <1>1 DEF ProvInv, TypeOK, DispOK
<1>. HIDE DEF k
<1>3. /\ TaskTypes' /\ DOMAIN tasks \subseteq DOMAIN tasks'
      /\ ReservationTypes' /\ DOMAIN reservations \subseteq DOMAIN reservations'
  <2>1. CASE UNCHANGED <<reservations, tasks>>
    BY <1>1, <2>1, Alone
  <2>2. CASE /\ reservations' = [reservations EXCEPT ![k] = "materialized"]
             /\ tasks' = WithTask(tasks, k, "delete")
    <3>1. TaskTypes' /\ DOMAIN tasks \subseteq DOMAIN tasks'
      BY <1>1, <1>2, <2>2, TaskAdded DEF Operations
    <3>2. DOMAIN reservations' = DOMAIN reservations
      BY <2>2
    <3>3. \A x \in DOMAIN reservations : reservations'[x] = IF x = k THEN "materialized" ELSE reservations[x]
      BY <2>2
    <3>4. ReservationTypes'
      BY <3>2, <3>3, ReservationsNow DEF ReservationTypes, ReservationsOK
    <3>. QED BY <3>1, <3>2, <3>4
  <2>. QED BY <1>1, <2>1, <2>2
<1>4. Grows /\ Len(jobs') \in Nat
  BY <1>1, <1>3, Counts DEF Grows
<1>5. JobTypes'
  BY <1>1, <1>3 DEF JobTypes, ProvInv, TypeOK
<1>6. ProvInv'
  BY <1>1, <1>3, <1>4, <1>5, EmptyRows, DispatcherIdle, DispatcherAside
<1>. QED BY <1>1, <1>2, <1>6 DEF k

\* A job that is enqueued: an active one with the same key, or a new one at the end.
Enqueues(d) ==
  LET k == disp[d].task  prev == disp[d].job
  IN  \E j \in Nat :
        /\ \/ j \in DOMAIN jobs /\ SameKey(j, k, prev) /\ Active(j) /\ jobs' = jobs
           \/ /\ j = Len(jobs) + 1 /\ jobs' = Append(jobs, Job(k, prev))
              /\ \A i \in DOMAIN jobs : SameKey(i, k, prev) => ~ Active(i)
        /\ \E x \in DispRow :
             disp' = [disp EXCEPT ![d] = x] /\ x.step = "attach" /\ x.task = k /\ x.job = j

\* A new job is the last one.
LEMMA JobAdded ==
  ASSUME ProvInv, NEW k \in DOMAIN tasks, NEW prev \in Nat, jobs' = Append(jobs, Job(k, prev)), tasks' = tasks
  PROVE  /\ JobTypes' /\ TaskTypes' /\ Len(jobs') = Len(jobs) + 1
         /\ DOMAIN jobs' = DOMAIN jobs \union {Len(jobs) + 1}
         /\ Len(jobs) + 1 \notin DOMAIN jobs
         /\ \A j \in DOMAIN jobs : jobs'[j] = jobs[j]
         /\ jobs'[Len(jobs) + 1] = Job(k, prev)
         /\ Job(k, prev).task = k /\ Job(k, prev).prev = prev /\ Job(k, prev).status = "queued"
         /\ Job(k, prev).owner = None
<1>1. jobs \in Seq(JobRow) /\ k \in Keys
  BY DEF ProvInv, TypeOK
<1>2. /\ Job(k, prev) \in JobRow /\ Job(k, prev).task = k /\ Job(k, prev).prev = prev
      /\ Job(k, prev).status = "queued" /\ Job(k, prev).owner = None
  BY <1>1 DEF Job, JobRow
<1>3. /\ jobs' \in Seq(JobRow) /\ Len(jobs') = Len(jobs) + 1
      /\ DOMAIN jobs' = DOMAIN jobs \union {Len(jobs) + 1}
      /\ Len(jobs) + 1 \notin DOMAIN jobs
      /\ \A j \in DOMAIN jobs : jobs'[j] = jobs[j]
      /\ jobs'[Len(jobs) + 1] = Job(k, prev)
  <2>. DEFINE y == Job(k, prev)
  <2>1. y \in JobRow /\ jobs' = Append(jobs, y)
    BY <1>2
  <2>. HIDE DEF y
  <2>2. /\ jobs' \in Seq(JobRow) /\ Len(jobs') = Len(jobs) + 1 /\ Len(jobs) \in Nat
        /\ DOMAIN jobs = 1..Len(jobs) /\ DOMAIN jobs' = 1..Len(jobs')
        /\ \A j \in DOMAIN jobs : jobs'[j] = jobs[j]
        /\ jobs'[Len(jobs) + 1] = y
    BY <1>1, <2>1
  <2>3. DOMAIN jobs' = DOMAIN jobs \union {Len(jobs) + 1} /\ Len(jobs) + 1 \notin DOMAIN jobs
    BY <2>2
  <2>. QED BY <2>2, <2>3 DEF y
<1>4. \A j \in DOMAIN jobs' : jobs'[j].task \in DOMAIN tasks'
  BY <1>2, <1>3 DEF ProvInv, TypeOK
<1>5. TaskTypes'
  <2>1. \A x \in DOMAIN tasks : tasks[x].job \in Nat /\ tasks[x].job <= Len(jobs)
    BY DEF ProvInv, TypeOK, TaskRow
  <2>2. \A x \in DOMAIN tasks : tasks[x].job <= Len(jobs')
    BY <1>3, <2>1, Counts
  <2>. QED BY <2>2 DEF TaskTypes, ProvInv, TypeOK
<1>. QED BY <1>2, <1>3, <1>4, <1>5 DEF JobTypes

LEMMA EnqueueStep ==
  ASSUME ProvInv, NEW d \in Dispatchers, EnqueueTask(d)
  PROVE  /\ ProvInv' /\ disp[d].step = "pending"
         /\ UNCHANGED <<clock, captures, tasks, reservations, link, down, ids, run, rec, admin, resync,
                        retried, late>>
         /\ \/ disp' = [disp EXCEPT ![d] = NoDisp] /\ jobs' = jobs
            \/ Enqueues(d)
<1>. DEFINE k == disp[d].task
            prev == disp[d].job
            e == Enqueued(k, prev)
<1>1. /\ disp[d].step = "pending"
      /\ UNCHANGED <<clock, user, assigned, captures, conn, tasks, reservations, link, down, ids,
                     run, rec, admin, resync, disturbances, retried, late>>
      /\ \/ disp' = [disp EXCEPT ![d] = NoDisp] /\ jobs' = jobs
         \/ jobs' = e.jobs /\ disp' = [disp EXCEPT ![d].step = "attach", ![d].job = e.id]
  BY DEF EnqueueTask
<1>2. k \in DOMAIN tasks /\ k \in Keys /\ prev \in Nat /\ disp[d] \in DispRow
  BY <1>1, Counts DEF ProvInv, TypeOK, DispOK
<1>3. ReservationTypes'
  BY <1>1, Alone
<1>4. CASE disp' = [disp EXCEPT ![d] = NoDisp] /\ jobs' = jobs
  <2>1. Grows /\ TaskTypes' /\ JobTypes' /\ Len(jobs') \in Nat
    BY <1>1, <1>4, Counts, Alone DEF Grows
  <2>2. ProvInv'
    BY <1>1, <1>3, <1>4, <2>1, EmptyRows, DispatcherIdle, DispatcherAside
  <2>. QED BY <1>1, <1>4, <2>2
<1>5. CASE jobs' = e.jobs /\ disp' = [disp EXCEPT ![d].step = "attach", ![d].job = e.id]
  <2>. DEFINE x == [[disp[d] EXCEPT !.step = "attach"] EXCEPT !.job = e.id]
  <2>1. disp' = [disp EXCEPT ![d] = x]
    <3>. HIDE DEF e
    <3>. QED BY <1>5
  <2>2. /\ e.id \in Nat
        /\ \/ e.id \in DOMAIN jobs /\ SameKey(e.id, k, prev) /\ Active(e.id) /\ e.jobs = jobs
           \/ /\ e.id = Len(jobs) + 1 /\ e.jobs = Append(jobs, Job(k, prev))
              /\ \A i \in DOMAIN jobs : SameKey(i, k, prev) => ~ Active(i)
    <3>. DEFINE same == {j \in DOMAIN jobs : SameKey(j, k, prev) /\ Active(j)}
    <3>0. DOMAIN jobs \subseteq Nat /\ Len(jobs) + 1 \in Nat
      BY Counts
    <3>1. CASE same # {}
      <4>1. e.id = (CHOOSE j \in same : TRUE) /\ e.jobs = jobs
        BY <3>1 DEF Enqueued
      <4>2. e.id \in same
        <5>. HIDE DEF e, same
        <5>. QED BY <3>1, <4>1
      <4>3. e.id \in DOMAIN jobs /\ SameKey(e.id, k, prev) /\ Active(e.id)
        <5>. HIDE DEF e, k, prev
        <5>. QED BY <4>2
      <4>. HIDE DEF e, k, prev
      <4>. QED BY <3>0, <4>1, <4>3, Zenon
    <3>2. CASE same = {}
      <4>1. e.id = Len(jobs) + 1 /\ e.jobs = Append(jobs, Job(k, prev))
        BY <3>2 DEF Enqueued
      <4>2. \A i \in DOMAIN jobs : SameKey(i, k, prev) => ~ Active(i)
        <5>. HIDE DEF k, prev
        <5>. QED BY <3>2
      <4>. HIDE DEF e, k, prev
      <4>. QED BY <3>0, <4>1, <4>2, Zenon
    <3>. QED BY <3>1, <3>2
  <2>3. x \in DispRow /\ x.step = "attach" /\ x.task = k /\ x.job = e.id
    <3>. HIDE DEF e
    <3>. QED BY <1>2, <2>2 DEF DispRow
  <2>. HIDE DEF e, x, k, prev
  <2>4. Enqueues(d)
    <3>1. \E y \in DispRow : disp' = [disp EXCEPT ![d] = y] /\ y.step = "attach" /\ y.task = k /\ y.job = e.id
      BY <2>1, <2>3
    <3>2. \/ e.id \in DOMAIN jobs /\ SameKey(e.id, k, prev) /\ Active(e.id) /\ jobs' = jobs
          \/ /\ e.id = Len(jobs) + 1 /\ jobs' = Append(jobs, Job(k, prev))
             /\ \A i \in DOMAIN jobs : SameKey(i, k, prev) => ~ Active(i)
      BY <1>5, <2>2
    <3>. QED BY <2>2, <3>1, <3>2, Zenon DEF Enqueues, k, prev
  <2>5. /\ TaskTypes' /\ JobTypes' /\ Len(jobs') \in Nat /\ Grows
        /\ e.id \in DOMAIN jobs' /\ jobs'[e.id].task = k
    <3>1. CASE e.jobs = jobs
      <4>1. jobs' = jobs /\ tasks' = tasks /\ reservations' = reservations /\ clock' = clock /\ ids' = ids
        BY <1>1, <1>5, <3>1
      <4>2. e.id \in DOMAIN jobs /\ jobs[e.id].task = k
        <5>1. Len(Append(jobs, Job(k, prev))) # Len(jobs)
          <6>1. jobs \in Seq(JobRow) /\ Job(k, prev) \in JobRow
            BY <1>2 DEF ProvInv, TypeOK, Job, JobRow
          <6>. HIDE DEF Job
          <6>. QED BY <6>1
        <5>. QED BY <2>2, <3>1, <5>1, Zenon DEF SameKey
      <4>4. Grows
        BY <4>1, Counts DEF Grows
      <4>5. TaskTypes' /\ JobTypes' /\ Len(jobs') \in Nat
        BY <4>1, Alone, Counts
      <4>. QED BY <4>1, <4>2, <4>4, <4>5
    <3>2. CASE e.jobs # jobs
      <4>1. e.id = Len(jobs) + 1 /\ jobs' = Append(jobs, Job(k, prev)) /\ tasks' = tasks
        BY <1>1, <1>5, <2>2, <3>2
      <4>2. /\ JobTypes' /\ TaskTypes' /\ Len(jobs') = Len(jobs) + 1
            /\ DOMAIN jobs' = DOMAIN jobs \union {Len(jobs) + 1}
            /\ \A j \in DOMAIN jobs : jobs'[j] = jobs[j]
            /\ jobs'[Len(jobs) + 1] = Job(k, prev) /\ Job(k, prev).task = k
        BY <1>2, <4>1, JobAdded
      <4>3. Len(jobs') \in Nat /\ Len(jobs) <= Len(jobs') /\ clock <= clock' /\ ids <= ids'
        BY <1>1, <4>2, Counts
      <4>4. Grows
        BY <1>1, <4>2, <4>3 DEF Grows
      <4>5. jobs'[e.id].task = k /\ e.id \in DOMAIN jobs'
        BY <4>1, <4>2, Zenon
      <4>. QED BY <4>2, <4>3, <4>4, <4>5
    <3>. QED BY <3>1, <3>2
  <2>6. DispOK(d)'
    <3>1. disp'[d] = x
      BY <2>1 DEF ProvInv, TypeOK
    <3>. QED BY <2>3, <2>5, <3>1 DEF DispOK
  <2>7. ProvInv'
    BY <1>1, <1>3, <2>1, <2>3, <2>5, <2>6, DispatcherAside
  <2>. QED BY <1>1, <2>4, <2>7
<1>. QED BY <1>1, <1>4, <1>5

LEMMA AttachStep ==
  ASSUME ProvInv, NEW d \in Dispatchers, AttachJob(d)
  PROVE  /\ ProvInv' /\ disp[d].step = "attach" /\ disp' = [disp EXCEPT ![d] = NoDisp]
         /\ disp[d].job \in DOMAIN jobs /\ jobs[disp[d].job].task = disp[d].task
         /\ disp[d].task \in DOMAIN tasks
         /\ UNCHANGED <<clock, captures, reservations, link, down, ids, jobs, run, rec, admin, resync,
                        retried, late>>
         /\ \/ tasks' = tasks
            \/ \E t \in TaskRow :
                 /\ Attachable(disp[d].task, jobs[disp[d].job].prev)
                 /\ tasks' = [tasks EXCEPT ![disp[d].task] = t]
                 /\ t.op = tasks[disp[d].task].op /\ t.job = disp[d].job /\ t.status = "in_flight"
<1>. DEFINE k == disp[d].task
            j == disp[d].job
            t == [[tasks[k] EXCEPT !.job = j] EXCEPT !.status = "in_flight"]
<1>1. /\ disp[d].step = "attach" /\ disp' = [disp EXCEPT ![d] = NoDisp]
      /\ UNCHANGED <<clock, user, assigned, captures, conn, reservations, link, down, ids, jobs,
                     run, rec, admin, resync, disturbances, retried, late>>
  BY DEF AttachJob
<1>2. j \in DOMAIN jobs /\ jobs[j].task = k /\ j \in Nat
  BY <1>1, Counts DEF ProvInv, DispOK
<1>3. k \in DOMAIN tasks
  BY <1>2 DEF ProvInv, TypeOK
<1>4. tasks[k] \in TaskRow
  BY <1>3 DEF ProvInv, TypeOK
<1>5. t \in TaskRow /\ t.op = tasks[k].op /\ t.job = j /\ t.status = "in_flight"
  <2>. HIDE DEF k, j
  <2>. QED BY <1>2, <1>4 DEF TaskRow
<1>6. \/ tasks' = tasks
      \/ Attachable(k, jobs[j].prev) /\ tasks' = [tasks EXCEPT ![k] = t]
  BY DEF AttachJob
<1>. HIDE DEF t, k, j
<1>7. TaskTypes' /\ DOMAIN tasks' = DOMAIN tasks
  <2>1. \A x \in DOMAIN tasks : tasks[x] \in TaskRow /\ tasks[x].job <= Len(jobs)
    BY DEF ProvInv, TypeOK
  <2>2. j <= Len(jobs)
    BY <1>2, Counts
  <2>3. DOMAIN tasks' = DOMAIN tasks /\ \A x \in DOMAIN tasks : tasks'[x] \in {tasks[x], t}
    BY <1>6
  <2>4. DOMAIN tasks \subseteq Keys
    BY DEF ProvInv, TypeOK
  <2>5. \A x \in DOMAIN tasks' : tasks'[x] \in TaskRow /\ tasks'[x].job <= Len(jobs')
    BY <1>1, <1>5, <2>1, <2>2, <2>3
  <2>. QED BY <2>3, <2>4, <2>5 DEF TaskTypes
<1>8. Grows /\ JobTypes' /\ Len(jobs') \in Nat /\ ReservationTypes'
  BY <1>1, <1>7, Counts, Alone DEF Grows, JobTypes, ProvInv, TypeOK
<1>9. ProvInv'
  BY <1>1, <1>7, <1>8, EmptyRows, DispatcherIdle, DispatcherAside
<1>. QED BY <1>1, <1>2, <1>3, <1>5, <1>6, <1>9 DEF k, j

\* Steps of an administrator, and errors of the loops.
LEMMA EditStep ==
  ASSUME ProvInv, BeginEdit
  PROVE  /\ ProvInv' /\ admin'.step = "write" /\ admin'.op = "none" /\ admin.step = "idle"
         /\ UNCHANGED <<store, disp, run, rec, resync, retried, late>>
<1>1. /\ Disturb /\ admin.step = "idle" /\ UNCHANGED <<store, disp, run, rec, resync, retried, late>>
      /\ \/ \E s \in {"active", "disabled"} \ {conn.status} :
              admin' = [NoAdmin EXCEPT !.step = "write", !.conn = [conn EXCEPT !.status = s]]
         \/ \E g \in Guards :
              admin' = [NoAdmin EXCEPT !.step = "write", !.conn = [conn EXCEPT !.guard = g]]
         \/ admin' = [NoAdmin EXCEPT !.step = "write",
                                     !.conn = [conn EXCEPT !.health = "ok", !.failures = 0]]
  BY DEF BeginEdit
<1>2. conn \in ConnRow
  BY Tables
<1>3. \A s \in {"active", "disabled"} : [conn EXCEPT !.status = s] \in ConnRow
  BY <1>2 DEF ConnRow
<1>4. \A g \in Guards : [conn EXCEPT !.guard = g] \in ConnRow
  BY <1>2 DEF ConnRow
<1>5. [conn EXCEPT !.health = "ok", !.failures = 0] \in ConnRow
  BY <1>2 DEF ConnRow
<1>6. \E c \in ConnRow : admin' = [NoAdmin EXCEPT !.step = "write", !.conn = c]
  <2>1. CASE \E s \in {"active", "disabled"} \ {conn.status} :
               admin' = [NoAdmin EXCEPT !.step = "write", !.conn = [conn EXCEPT !.status = s]]
    BY <2>1, <1>3, Zenon
  <2>2. CASE \E g \in Guards :
               admin' = [NoAdmin EXCEPT !.step = "write", !.conn = [conn EXCEPT !.guard = g]]
    BY <2>2, <1>4, Zenon
  <2>. QED BY <1>1, <1>5, <2>1, <2>2, Zenon
<1>7. admin' \in AdminRow /\ admin'.step = "write" /\ admin'.op = "none"
  BY <1>6, EmptyRows DEF AdminRow, NoAdmin
<1>8. ActorTypes'
  BY <1>1, <1>7 DEF ActorTypes, ProvInv, TypeOK, store
<1>9. ChangeTypes'
  BY <1>1, Steps DEF ChangeTypes, ProvInv, TypeOK, store
<1>10. TaskTypes' /\ ReservationTypes'
  BY <1>1, Alone DEF store
<1>11. UNCHANGED <<store, disp, run, rec, resync, retried, late>>
  BY DEF BeginEdit
<1>12. ProvInv'
  BY <1>8, <1>9, <1>10, <1>11, Aside, Steps DEF store
<1>. QED BY <1>1, <1>7, <1>12

LEMMA WriteStep ==
  ASSUME ProvInv, WriteEdit
  PROVE  /\ ProvInv' /\ admin.step = "write"
         /\ \/ admin'.step = "tally" /\ admin.op = "resync"
            \/ admin'.step = "idle"
         /\ UNCHANGED <<clock, captures, tasks, reservations, link, down, ids, jobs, disp, run, rec,
                        resync, retried, late>>
<1>1. /\ admin.step = "write" /\ conn' = admin.conn
      /\ admin' = IF admin.op = "resync" THEN [admin EXCEPT !.step = "tally", !.conn = NoConn]
                  ELSE NoAdmin
      /\ UNCHANGED <<clock, user, assigned, captures, tasks, reservations, link, down, ids, jobs,
                     disp, run, rec, resync, disturbances, retried, late>>
  BY DEF WriteEdit
<1>2. admin \in AdminRow /\ conn' \in ConnRow
  BY <1>1 DEF ProvInv, TypeOK, AdminRow
<1>3. [admin EXCEPT !.step = "tally", !.conn = NoConn] \in AdminRow
      /\ [admin EXCEPT !.step = "tally", !.conn = NoConn].step = "tally"
  BY <1>2, EmptyRows DEF AdminRow
<1>4. /\ admin' \in AdminRow
      /\ \/ admin'.step = "tally" /\ admin.op = "resync"
         \/ admin'.step = "idle"
  BY <1>1, <1>3, EmptyRows
<1>5. ActorTypes'
  BY <1>1, <1>2, <1>4 DEF ActorTypes, ProvInv, TypeOK
<1>6. ChangeTypes' /\ TaskTypes' /\ ReservationTypes'
  BY <1>1, Alone
<1>7. ProvInv'
  BY <1>1, <1>5, <1>6, Aside, Steps
<1>. QED BY <1>1, <1>4, <1>7

LEMMA StartStep ==
  ASSUME ProvInv, StartFullResync
  PROVE  /\ ProvInv' /\ clock' = clock + 1 /\ admin.step = "idle" /\ resync.status = "none"
         /\ resync'.status = "running" /\ resync'.version = clock + 1
         /\ resync'.members = resync.members /\ resync'.completions = resync.completions
         /\ resync'.total = Cardinality(admin'.todo) /\ admin'.todo \subseteq Users
         /\ admin'.step \in {"tasks", "write"} /\ admin'.op = "resync"
         /\ (admin'.step = "write" => admin'.todo = {})
         /\ UNCHANGED <<captures, tasks, reservations, link, down, ids, jobs, disp, run, rec,
                        retried, late>>
<1>. DEFINE subjects == {u \in Users : /\ user[u].state # "absent" /\ InScope(u)
                                       /\ AllUsers => user[u].state # "deleted"}
<1>1. /\ admin.step = "idle" /\ resync.status = "none"
      /\ clock < MaxClock /\ Disturb /\ clock' = clock + 1
      /\ resync' = [resync EXCEPT !.status = "running", !.version = clock + 1,
                                  !.total = Cardinality(subjects)]
      /\ admin' = [step |-> IF subjects = {} THEN "write" ELSE "tasks", op |-> "resync",
                   conn |-> conn, todo |-> subjects]
      /\ UNCHANGED <<user, assigned, captures, conn, tasks, reservations, link, down, ids, jobs,
                     disp, run, rec, retried, late>>
  BY DEF StartFullResync
<1>2. subjects \subseteq Users
  OBVIOUS
<1>. HIDE DEF subjects
<1>3. Cardinality(subjects) \in Nat
  BY <1>2, Numbers, FS_Subset, FS_CardinalityType
<1>4. resync \in ResyncRow /\ clock + 1 \in 0..MaxClock /\ clock + 1 # 0 /\ conn \in ConnRow
  BY <1>1, Steps DEF ProvInv, TypeOK
<1>5. /\ resync' \in ResyncRow /\ resync'.status = "running" /\ resync'.version = clock + 1
      /\ resync'.members = resync.members /\ resync'.completions = resync.completions
      /\ resync'.total = Cardinality(subjects)
  <2>. DEFINE n == Cardinality(subjects)
              v == clock + 1
  <2>1. n \in Nat /\ v \in 0..MaxClock
    BY <1>3, <1>4
  <2>2. resync' = [resync EXCEPT !.status = "running", !.version = v, !.total = n]
    BY <1>1
  <2>3. /\ resync' \in ResyncRow /\ resync'.status = "running" /\ resync'.version = v
        /\ resync'.members = resync.members /\ resync'.completions = resync.completions
        /\ resync'.total = n
    <3>. HIDE DEF n, v
    <3>. QED BY <1>4, <2>1, <2>2 DEF ResyncRow
  <2>. QED BY <2>3
<1>6. /\ admin' \in AdminRow /\ admin'.todo = subjects /\ admin'.op = "resync"
      /\ admin'.step = IF subjects = {} THEN "write" ELSE "tasks"
  BY <1>1, <1>2, <1>4 DEF AdminRow
<1>7. ActorTypes'
  <2>1. resync'.version # 0
    BY <1>4, <1>5
  <2>. QED BY <1>1, <1>5, <1>6, <2>1 DEF ActorTypes, ProvInv, TypeOK
<1>8. ChangeTypes'
  BY <1>1, Steps DEF ChangeTypes, ProvInv, TypeOK
<1>9. TaskTypes' /\ ReservationTypes'
  BY <1>1, Alone
<1>10. ProvInv'
  BY <1>1, <1>7, <1>8, <1>9, Aside, Steps
<1>. QED BY <1>1, <1>2, <1>5, <1>6, <1>10

LEMMA ResyncTaskStep ==
  ASSUME ProvInv, SaveResyncTask
  PROVE  /\ ProvInv' /\ admin.step = "tasks"
         /\ UNCHANGED <<clock, captures, reservations, link, down, ids, jobs, disp, run, rec, retried, late>>
         /\ \E u \in admin.todo :
              /\ <<u, resync.version>> \in Keys
              /\ tasks' = WithTask(tasks, <<u, resync.version>>, "update")
              /\ \/ resync' = resync
                 \/ /\ resync'.members = resync.members \union {<<u, resync.version>>}
                    /\ resync'.total = resync.total /\ resync'.status = resync.status
                    /\ resync'.version = resync.version /\ resync'.completions = resync.completions
              /\ admin'.step \in {"tasks", "write"} /\ admin'.op = admin.op /\ admin'.todo = admin.todo \ {u}
              /\ admin.todo \subseteq Users
<1>1. PICK u \in admin.todo :
        /\ tasks' = WithTask(tasks, <<u, resync.version>>, "update")
        /\ resync' = IF <<u, resync.version>> \in DOMAIN tasks THEN resync
                     ELSE [resync EXCEPT !.members = resync.members \union {<<u, resync.version>>}]
        /\ admin' = [admin EXCEPT !.todo = admin.todo \ {u},
                                  !.step = IF admin.todo = {u} THEN "write" ELSE admin.step]
  BY DEF SaveResyncTask
<1>2. /\ admin.step = "tasks"
      /\ UNCHANGED <<clock, user, assigned, captures, conn, reservations, link, down, ids, jobs,
                     disp, run, rec, disturbances, retried, late>>
  BY DEF SaveResyncTask
<1>3. admin \in AdminRow /\ resync \in ResyncRow /\ resync.version # 0
  BY <1>2 DEF ProvInv, TypeOK
<1>4. admin.todo \subseteq Users /\ resync.version \in 1..MaxClock
  BY <1>3, Numbers DEF AdminRow, ResyncRow
<1>. DEFINE k == <<u, resync.version>>
<1>5. k \in Keys
  BY <1>4 DEF Keys
<1>6. \/ resync' = resync
      \/ /\ resync' \in ResyncRow /\ resync'.members = resync.members \union {k}
         /\ resync'.total = resync.total /\ resync'.status = resync.status
         /\ resync'.version = resync.version /\ resync'.completions = resync.completions
  <2>. HIDE DEF k
  <2>1. resync' = resync \/ resync' = [resync EXCEPT !.members = resync.members \union {k}]
    BY <1>1 DEF k
  <2>. QED BY <1>3, <1>5, <2>1 DEF ResyncRow
<1>7. admin' \in AdminRow /\ admin'.step \in {"tasks", "write"} /\ admin'.op = admin.op
      /\ admin'.todo = admin.todo \ {u}
  <2>. DEFINE st == IF admin.todo = {u} THEN "write" ELSE admin.step
              left == admin.todo \ {u}
  <2>1. st \in {"tasks", "write"} /\ left \subseteq Users
    BY <1>2, <1>4
  <2>2. admin' = [[admin EXCEPT !.todo = left] EXCEPT !.step = st]
    BY <1>1
  <2>3. /\ admin' \in AdminRow /\ admin'.step = st /\ admin'.op = admin.op
        /\ admin'.todo = left
    <3>. HIDE DEF st, left
    <3>. QED BY <1>3, <2>1, <2>2 DEF AdminRow
  <2>. QED BY <2>1, <2>3
<1>8. ActorTypes'
  BY <1>2, <1>3, <1>6, <1>7 DEF ActorTypes, ProvInv, TypeOK
<1>9. TaskTypes' /\ DOMAIN tasks \subseteq DOMAIN tasks'
  <2>. HIDE DEF k
  <2>1. tasks' = WithTask(tasks, k, "update")
    BY <1>1 DEF k
  <2>. QED BY <1>2, <1>5, <2>1, TaskAdded DEF Operations
<1>10. ChangeTypes' /\ ReservationTypes'
  BY <1>2, Alone
<1>11. ProvInv'
  BY <1>2, <1>8, <1>9, <1>10, Aside, Steps
<1>. QED BY <1>1, <1>2, <1>4, <1>5, <1>6, <1>7, <1>11

LEMMA TallyResyncStep ==
  ASSUME ProvInv, TallyResync
  PROVE  /\ ProvInv' /\ admin.step = "tally"
         /\ UNCHANGED <<store, disp, run, rec, resync, disturbances, retried, late>>
         /\ \/ admin'.step = "complete" /\ AllEnded
            \/ admin'.step = "idle"
<1>1. /\ admin.step = "tally" /\ UNCHANGED <<store, disp, run, rec, resync, disturbances, retried, late>>
      /\ admin' = IF AllEnded THEN [admin EXCEPT !.step = "complete"] ELSE NoAdmin
  BY DEF TallyResync
<1>2. [admin EXCEPT !.step = "complete"] \in AdminRow /\ [admin EXCEPT !.step = "complete"].step = "complete"
  BY DEF ProvInv, TypeOK, AdminRow
<1>3. admin' \in AdminRow /\ ((admin'.step = "complete" /\ AllEnded) \/ admin'.step = "idle")
  BY <1>1, <1>2, EmptyRows
<1>4. ActorTypes'
  BY <1>1, <1>3 DEF ActorTypes, ProvInv, TypeOK, store
<1>5. ChangeTypes' /\ TaskTypes' /\ ReservationTypes'
  BY <1>1, Alone DEF store
<1>6. ProvInv'
  BY <1>1, <1>4, <1>5, Aside, Steps DEF store
<1>. QED BY <1>1, <1>3, <1>6

\* The row of the full resync when one of those who found it complete completes it.
LEMMA CompletedRow ==
  ASSUME ProvInv, resync' = Completed(resync.total)
  PROVE  /\ resync' \in ResyncRow /\ resync'.version = resync.version
         /\ resync'.members = resync.members /\ resync'.total = resync.total
         /\ \/ resync' = resync /\ resync.status # "running"
            \/ /\ resync.status = "running" /\ resync'.status = "completed"
               /\ resync'.completions = resync.completions + 1
<1>1. resync \in ResyncRow
  BY DEF ProvInv, TypeOK
<1>2. CASE resync.status = "running"
  <2>. DEFINE n == resync.completions + 1
              m == resync.total
  <2>1. n \in Nat /\ m \in Nat
    BY <1>1 DEF ResyncRow
  <2>2. resync' = [resync EXCEPT !.status = "completed", !.counted = m, !.completions = n]
    BY <1>2 DEF Completed
  <2>3. /\ resync' \in ResyncRow /\ resync'.version = resync.version
        /\ resync'.members = resync.members /\ resync'.total = resync.total
        /\ resync'.status = "completed" /\ resync'.completions = n
    <3>. HIDE DEF n, m
    <3>. QED BY <1>1, <2>1, <2>2 DEF ResyncRow
  <2>. QED BY <1>2, <2>3
<1>3. CASE resync.status # "running"
  BY <1>1, <1>3 DEF Completed
<1>. QED BY <1>2, <1>3

LEMMA CompleteStep ==
  ASSUME ProvInv, CompleteResync
  PROVE  /\ ProvInv' /\ admin.step = "complete" /\ admin' = NoAdmin /\ resync' = Completed(resync.total)
         /\ UNCHANGED <<store, disp, run, rec, disturbances, retried, late>>
<1>1. /\ admin.step = "complete" /\ admin' = NoAdmin /\ resync' = Completed(resync.total)
      /\ UNCHANGED <<store, disp, run, rec, disturbances, retried, late>>
  BY DEF CompleteResync
<1>2. resync' \in ResyncRow
  BY <1>1, CompletedRow
<1>3. ActorTypes'
  BY <1>1, <1>2, EmptyRows DEF ActorTypes, ProvInv, TypeOK, store
<1>4. ChangeTypes' /\ TaskTypes' /\ ReservationTypes'
  BY <1>1, Alone DEF store
<1>5. ProvInv'
  BY <1>1, <1>3, <1>4, Aside, Steps DEF store
<1>. QED BY <1>1, <1>5

LEMMA LoopStep ==
  ASSUME ProvInv, LoopFails
  PROVE  /\ ProvInv' /\ UNCHANGED <<store, run, resync, retried, late>>
         /\ disp' = disp \/ \E d \in Dispatchers : disp' = [disp EXCEPT ![d] = NoDisp]
         /\ rec' \in {rec, NoRec} /\ admin' \in {admin, NoAdmin}
<1>1. /\ Disturb /\ UNCHANGED <<store, run, resync, retried, late>>
      /\ disp' = disp \/ \E d \in Dispatchers : disp' = [disp EXCEPT ![d] = NoDisp]
      /\ rec' \in {rec, NoRec} /\ admin' \in {admin, NoAdmin}
  BY DEF LoopFails
<1>2. disp \in [Dispatchers -> DispRow]
  BY DEF ProvInv, TypeOK
<1>3. ActorTypes'
  <2>1. disp' \in [Dispatchers -> DispRow]
    BY <1>1, <1>2, EmptyRows
  <2>. QED BY <1>1, <2>1, EmptyRows DEF ActorTypes, ProvInv, TypeOK, store
<1>4. ChangeTypes'
  BY <1>1, Steps DEF ChangeTypes, ProvInv, TypeOK, store
<1>5. TaskTypes' /\ ReservationTypes' /\ LinkTypes' /\ JobTypes'
  BY <1>1, Alone DEF store
<1>6. Grows /\ clock' \in Nat /\ Len(jobs') \in Nat /\ ids' \in Nat
  BY <1>1, Counts DEF Grows, store
<1>7. \A r \in Runners : RunOK(r)'
  BY <1>1, <1>6, RunKept
<1>8. \A d \in Dispatchers : DispOK(d)'
  <2>. SUFFICES ASSUME NEW d \in Dispatchers PROVE DispOK(d)'
    OBVIOUS
  <2>1. CASE disp'[d] = disp[d]
    BY <1>6, <2>1, DispKept
  <2>2. CASE disp'[d] # disp[d]
    <3>1. disp' = [disp EXCEPT ![d] = NoDisp]
      BY <1>1, <1>2, <2>2
    <3>. QED BY <3>1, DispatcherIdle
  <2>. QED BY <2>1, <2>2
<1>9. ProvInv'
  BY <1>3, <1>4, <1>5, <1>7, <1>8, PartsNext
<1>. QED BY <1>1, <1>9

LEMMA RetryStep ==
  ASSUME ProvInv, NEW k \in DOMAIN tasks, RetryTask(k)
  PROVE  /\ ProvInv' /\ tasks[k].status = "dead_letter" /\ retried' = retried \union {k}
         /\ UNCHANGED <<clock, captures, reservations, link, down, ids, jobs, actors, resync, late>>
         /\ \E t \in TaskRow : /\ tasks' = [tasks EXCEPT ![k] = t]
                               /\ t.op = tasks[k].op /\ t.status = "pending" /\ t.job = 0
<1>. DEFINE t == [[tasks[k] EXCEPT !.status = "pending"] EXCEPT !.job = 0]
<1>1. /\ Disturb /\ tasks[k].status = "dead_letter" /\ retried' = retried \union {k}
      /\ tasks' = [tasks EXCEPT ![k] = t]
      /\ UNCHANGED <<clock, user, assigned, captures, conn, reservations, link, down, ids, jobs,
                     actors, resync, late>>
  BY DEF RetryTask
<1>2. tasks[k] \in TaskRow /\ k \in Keys
  BY DEF ProvInv, TypeOK
<1>3. t \in TaskRow /\ t.op = tasks[k].op /\ t.status = "pending" /\ t.job = 0
  BY <1>2 DEF TaskRow
<1>. HIDE DEF t
<1>4. DOMAIN tasks' = DOMAIN tasks /\ \A x \in DOMAIN tasks : tasks'[x] \in {tasks[x], t}
  BY <1>1
<1>5. TaskTypes'
  <2>1. \A x \in DOMAIN tasks : tasks[x] \in TaskRow /\ tasks[x].job <= Len(jobs)
    BY DEF ProvInv, TypeOK
  <2>2. DOMAIN tasks \subseteq Keys /\ 0 <= Len(jobs)
    BY Counts DEF ProvInv, TypeOK
  <2>. QED BY <1>1, <1>3, <1>4, <2>1, <2>2 DEF TaskTypes
<1>6. ChangeTypes'
  BY <1>1, <1>2, Steps DEF ChangeTypes, ProvInv, TypeOK
<1>7. ReservationTypes' /\ ActorTypes'
  BY <1>1, Alone DEF actors
<1>8. ProvInv'
  BY <1>1, <1>4, <1>5, <1>6, <1>7, Aside, Steps DEF actors
<1>. QED BY <1>1, <1>3, <1>8

\* Executions leave the keys and the operations of tasks alone, and the keys of jobs.
SameTasks ==
  /\ DOMAIN tasks' = DOMAIN tasks
  /\ \A k \in DOMAIN tasks : /\ tasks'[k] \in TaskRow
                             /\ tasks'[k].job = tasks[k].job /\ tasks'[k].op = tasks[k].op
SameJobs ==
  /\ jobs' \in Seq(JobRow) /\ Len(jobs') = Len(jobs) /\ DOMAIN jobs' = DOMAIN jobs
  /\ \A j \in DOMAIN jobs : jobs'[j].task = jobs[j].task /\ jobs'[j].prev = jobs[j].prev

LEMMA OneStatus ==
  ASSUME ProvInv, NEW k \in DOMAIN tasks, NEW st \in Terminal \union {"pending", "in_flight"},
         tasks' = [tasks EXCEPT ![k].status = st]
  PROVE  /\ SameTasks /\ tasks'[k].status = st
         /\ \A x \in DOMAIN tasks : x # k => tasks'[x] = tasks[x]
<1>. DEFINE t == [tasks[k] EXCEPT !.status = st]
<1>1. tasks[k] \in TaskRow
  BY DEF ProvInv, TypeOK
<1>2. t \in TaskRow /\ t.op = tasks[k].op /\ t.job = tasks[k].job /\ t.status = st
  BY <1>1 DEF TaskRow
<1>3. tasks' = [tasks EXCEPT ![k] = t]
  OBVIOUS
<1>. HIDE DEF t
<1>4. \A x \in DOMAIN tasks : tasks[x] \in TaskRow
  BY DEF ProvInv, TypeOK
<1>5. DOMAIN tasks' = DOMAIN tasks /\ \A x \in DOMAIN tasks : tasks'[x] = IF x = k THEN t ELSE tasks[x]
  BY <1>3
<1>. QED BY <1>2, <1>4, <1>5 DEF SameTasks

LEMMA SameTasksKept ==
  ASSUME ProvInv, tasks' = tasks
  PROVE  SameTasks
BY DEF ProvInv, TypeOK, SameTasks

LEMMA SettlesKeeps ==
  ASSUME ProvInv, NEW r \in Runners, run[r].step # "idle", Settles(r)
  PROVE  SameTasks
<1>1. TaskOf(r) \in DOMAIN tasks
  BY InHand
<1>2. CASE tasks' = tasks
  BY <1>2, SameTasksKept
<1>3. CASE tasks' # tasks
  <2>1. PICK st \in Terminal : tasks' = [tasks EXCEPT ![TaskOf(r)].status = st]
    BY <1>3 DEF Settles
  <2>2. st \in Terminal \union {"pending", "in_flight"}
    BY <2>1
  <2>. QED BY <1>1, <2>1, <2>2, OneStatus
<1>. QED BY <1>2, <1>3

LEMMA OneJob ==
  ASSUME ProvInv, NEW j \in DOMAIN jobs, NEW y \in JobRow, jobs' = [jobs EXCEPT ![j] = y],
         y.task = jobs[j].task, y.prev = jobs[j].prev
  PROVE  /\ SameJobs /\ jobs'[j] = y
         /\ \A i \in DOMAIN jobs : i # j => jobs'[i] = jobs[i]
<1>1. jobs \in Seq(JobRow)
  BY DEF ProvInv, TypeOK
<1>2. jobs' \in Seq(JobRow) /\ Len(jobs') = Len(jobs) /\ DOMAIN jobs' = DOMAIN jobs
  BY <1>1
<1>3. \A i \in DOMAIN jobs : jobs'[i] = IF i = j THEN y ELSE jobs[i]
  BY <1>1
<1>. QED BY <1>2, <1>3 DEF SameJobs

LEMMA SameJobsKept ==
  ASSUME ProvInv, jobs' = jobs
  PROVE  SameJobs
BY DEF ProvInv, TypeOK, SameJobs

LEMMA RunnerAside ==
  ASSUME ProvInv, NEW r \in Runners, NEW x \in RunRow, run' = [run EXCEPT ![r] = x],
         x.step # "idle" => x.job \in DOMAIN jobs, x.link.id <= ids',
         SameTasks, SameJobs, LinkTypes', ids <= ids', conn' \in ConnRow,
         resync' \in ResyncRow, resync'.version = resync.version, disturbances' \in 0..MaxDisturbances,
         late' \in BOOLEAN,
         UNCHANGED <<clock, user, assigned, captures, reservations, disp, rec, admin, retried>>
  PROVE  ProvInv'
<1>1. run \in [Runners -> RunRow]
  BY DEF ProvInv, TypeOK
<1>2. run'[r] = x /\ run' \in [Runners -> RunRow] /\ \A s \in Runners : s # r => run'[s] = run[s]
  BY <1>1
<1>3. Len(jobs') \in Nat /\ ids' \in Nat /\ clock' \in Nat
  BY Counts DEF SameJobs, LinkTypes
<1>4. Grows
  BY Counts DEF SameTasks, SameJobs, Grows
<1>5. TaskTypes'
  <2>1. \A k \in DOMAIN tasks : tasks[k].job <= Len(jobs)
    BY DEF ProvInv, TypeOK
  <2>2. DOMAIN tasks \subseteq Keys
    BY DEF ProvInv, TypeOK
  <2>. QED BY <2>1, <2>2 DEF TaskTypes, SameTasks, SameJobs
<1>6. JobTypes'
  BY DEF JobTypes, SameTasks, SameJobs, ProvInv, TypeOK
<1>7. ChangeTypes'
  BY DEF ChangeTypes, ProvInv, TypeOK
<1>8. ReservationTypes'
  BY Alone
<1>9. ActorTypes'
  BY <1>2 DEF ActorTypes, ProvInv, TypeOK
<1>10. \A s \in Runners : RunOK(s)'
  <2>. SUFFICES ASSUME NEW s \in Runners PROVE RunOK(s)'
    OBVIOUS
  <2>1. CASE s = r
    <3>1. run'[s] = x /\ DOMAIN jobs' = DOMAIN jobs
      BY <1>2, <2>1 DEF SameJobs
    <3>. QED BY <3>1 DEF RunOK
  <2>2. CASE s # r
    BY <1>2, <1>3, <1>4, <2>2, RunKept
  <2>. QED BY <2>1, <2>2
<1>11. \A d \in Dispatchers : DispOK(d)'
  BY <1>3, <1>4, DispKept
<1>. QED BY <1>5, <1>6, <1>7, <1>8, <1>9, <1>10, <1>11, PartsNext

LEMMA ReleasedKeeps ==
  ASSUME ProvInv, NEW r \in Runners, run[r].step # "idle", Released(r)
  PROVE  SameJobs
<1>1. run[r].job \in DOMAIN jobs
  BY InHand
<1>2. CASE jobs' = jobs
  BY <1>2, SameJobsKept
<1>3. CASE jobs' # jobs
  <2>1. PICK y \in JobRow :
          /\ jobs' = [jobs EXCEPT ![run[r].job] = y]
          /\ y.task = jobs[run[r].job].task /\ y.prev = jobs[run[r].job].prev
    BY <1>3 DEF Released
  <2>. QED BY <1>1, <2>1, OneJob
<1>. QED BY <1>2, <1>3

LEMMA WorksStep ==
  ASSUME ProvInv, NEW r \in Runners, run[r].step # "idle", Works(r)
  PROVE  ProvInv' /\ SameTasks /\ SameJobs
<1>1. SameTasks
  BY SettlesKeeps DEF Works
<1>2. /\ UNCHANGED <<clock, user, assigned, captures, reservations, disp, rec, admin, retried, late>>
      /\ disturbances' \in 0..MaxDisturbances /\ conn' \in ConnRow /\ LinkTypes' /\ ids <= ids'
  BY DEF Works, Stores, LinkTypes
<1>3. resync' \in ResyncRow /\ resync'.version = resync.version
  <2>1. resync' = resync \/ resync' = Completed(resync.total)
    BY DEF Works, Stores
  <2>2. resync \in ResyncRow
    BY DEF ProvInv, TypeOK
  <2>. QED BY <2>1, <2>2, CompletedRow
<1>4. late' \in BOOLEAN
  BY <1>2 DEF ProvInv, TypeOK
<1>5. SameJobs
  BY SameJobsKept, ReleasedKeeps DEF Works, Moves, Leaves
<1>6. \E x \in RunRow : /\ run' = [run EXCEPT ![r] = x] /\ x.link.id <= ids'
                        /\ x.step # "idle" => x.job \in DOMAIN jobs
  <2>1. CASE Moves(r)
    BY <2>1, InHand DEF Moves
  <2>2. CASE Leaves(r)
    <3>1. NoRun \in RunRow /\ NoRun.step = "idle" /\ NoRun.link.id <= ids'
      BY <1>2, EmptyRows DEF LinkTypes
    <3>. QED BY <2>2, <3>1 DEF Leaves
  <2>. QED BY <2>1, <2>2 DEF Works
<1>. QED BY <1>1, <1>2, <1>3, <1>4, <1>5, <1>6, RunnerAside

LEMMA ClaimStep ==
  ASSUME ProvInv, NEW r \in Runners, Claim(r)
  PROVE  ProvInv' /\ SameJobs
<1>1. /\ Claims(r) /\ disturbances' \in 0..MaxDisturbances
      /\ UNCHANGED <<clock, user, assigned, captures, conn, tasks, reservations, link, down, ids,
                     disp, rec, admin, resync, retried>>
  BY ClaimKinds
<1>2. PICK j \in DOMAIN jobs, y \in JobRow :
        /\ jobs' = [jobs EXCEPT ![j] = y] /\ y.task = jobs[j].task /\ y.prev = jobs[j].prev
        /\ late' = TRUE \/ late' = late
        /\ \/ run' = run
           \/ \E x \in RunRow : /\ run' = [run EXCEPT ![r] = x]
                                /\ x.job = j /\ x.link.id <= ids
  BY <1>1 DEF Claims
<1>3. SameJobs /\ SameTasks
  BY <1>1, <1>2, OneJob, SameTasksKept
<1>4. LinkTypes' /\ ids <= ids'
  BY <1>1, Alone, Counts
<1>5. conn' \in ConnRow /\ resync' \in ResyncRow /\ resync'.version = resync.version /\ late' \in BOOLEAN
  BY <1>1, <1>2 DEF ProvInv, TypeOK
<1>6. \E x \in RunRow : /\ run' = [run EXCEPT ![r] = x] /\ x.link.id <= ids'
                        /\ x.step # "idle" => x.job \in DOMAIN jobs
  <2>1. CASE run' = run
    <3>1. run \in [Runners -> RunRow]
      BY DEF ProvInv, TypeOK
    <3>2. run' = [run EXCEPT ![r] = run[r]] /\ run[r] \in RunRow
      BY <2>1, <3>1
    <3>3. RunOK(r)
      BY DEF ProvInv
    <3>. QED BY <1>1, <3>2, <3>3 DEF RunOK
  <2>2. CASE run' # run
    BY <1>1, <1>2, <2>2
  <2>. QED BY <2>1, <2>2
<1>. QED BY <1>1, <1>3, <1>4, <1>5, <1>6, RunnerAside

LEMMA SuspendStep ==
  ASSUME ProvInv, NEW r \in Runners, Suspend(r)
  PROVE  /\ ProvInv' /\ SameTasks /\ SameJobs /\ Leaves(r) /\ run[r].step = "suspend"
         /\ \/ tasks' = tasks
            \/ /\ tasks[TaskOf(r)].status = "in_flight" /\ tasks[TaskOf(r)].job = run[r].job
               /\ tasks' = [tasks EXCEPT ![TaskOf(r)].status = "pending"]
         /\ UNCHANGED <<clock, user, assigned, captures, conn, reservations, link, down, ids,
                        disp, rec, admin, resync, disturbances, retried, late>>
<1>1. /\ run[r].step = "suspend" /\ Report(r, "ended")
      /\ \/ tasks' = tasks
         \/ /\ tasks[TaskOf(r)].status = "in_flight" /\ tasks[TaskOf(r)].job = run[r].job
            /\ tasks' = [tasks EXCEPT ![TaskOf(r)].status = "pending"]
      /\ UNCHANGED <<clock, user, assigned, captures, conn, reservations, link, down, ids,
                     disp, rec, admin, resync, disturbances, retried, late>>
  BY DEF Suspend
<1>2. Leaves(r)
  BY <1>1, ReportLeaves
<1>3. SameJobs
  BY <1>1, <1>2, ReleasedKeeps DEF Leaves
<1>4. SameTasks
  <2>1. TaskOf(r) \in DOMAIN tasks
    BY <1>1, InHand
  <2>. QED BY <1>1, <2>1, OneStatus, SameTasksKept
<1>5. LinkTypes' /\ ids <= ids'
  BY <1>1, Alone, Counts
<1>6. /\ conn' \in ConnRow /\ resync' \in ResyncRow /\ resync'.version = resync.version
      /\ late' \in BOOLEAN /\ disturbances' \in 0..MaxDisturbances
  BY <1>1 DEF ProvInv, TypeOK
<1>7. NoRun \in RunRow /\ NoRun.step = "idle" /\ NoRun.link.id <= ids'
  BY <1>1, EmptyRows, Counts
<1>8. run' = [run EXCEPT ![r] = NoRun]
  BY <1>2 DEF Leaves
<1>9. ProvInv'
  BY <1>1, <1>3, <1>4, <1>5, <1>6, <1>7, <1>8, RunnerAside
<1>. QED BY <1>1, <1>2, <1>3, <1>4, <1>9

-----------------------------------------------------------------------------
\* The steps of the system.
LEMMA NextKinds ==
  ASSUME Next
  PROVE  \/ \E u \in Users : ChangeUser(u) \/ ChangeAssignment(u)
         \/ \E u \in Users : ProvisionOnDemand(u)
         \/ \E c \in captures : Capture(c)
         \/ ReadLinks \/ Plan \/ SavePlanned \/ QuarantineByGuard
         \/ \E d \in Dispatchers : ListDue(d) \/ ListPending(d)
         \/ \E d \in Dispatchers : Materialize(d)
         \/ \E d \in Dispatchers : EnqueueTask(d)
         \/ \E d \in Dispatchers : AttachJob(d)
         \/ \E r \in Runners : Execute(r) \/ HandlerFails(r)
         \/ LoopFails \/ BeginEdit \/ WriteEdit \/ StartFullResync \/ SaveResyncTask
         \/ TallyResync \/ CompleteResync
         \/ \E k \in DOMAIN tasks : RetryTask(k)
         \/ Tick
BY Zenon DEF Next, Reconcile, Dispatch

LEMMA ProvInit == Init => ProvInv
<1>. SUFFICES ASSUME Init PROVE ProvInv
  OBVIOUS
<1>1. ChangeTypes
  <2>1. 1 \in 1..MaxClock /\ 0 \in 0..MaxDisturbances
    BY Numbers
  <2>2. user \in [Users -> [state : {"absent", "active", "disabled", "pending_deletion", "deleted"},
                           version : 1..MaxClock]]
    <3>1. user \in [Users -> [state : {"absent", "active"}, version : {1}]]
      BY DEF Init
    <3>. QED BY <2>1, <3>1
  <2>3. clock = 1 /\ assigned \subseteq Users /\ captures = {} /\ disturbances = 0 /\ retried = {} /\ late = FALSE
    BY DEF Init
  <2>. QED BY <2>1, <2>2, <2>3 DEF ChangeTypes
<1>2. TaskTypes /\ ReservationTypes /\ JobTypes
  BY DEF Init, TaskTypes, ReservationTypes, JobTypes
<1>3. LinkTypes
  <2>1. [id |-> 1, active |-> TRUE, version |-> 1] \in LinkRow
    BY DEF LinkRow
  <2>2. link \in [Users -> LinkRow] /\ \A u \in Users : link[u].id <= 1
    BY <2>1, EmptyRows DEF Init
  <2>3. /\ down \in [Users -> [id : Nat, active : BOOLEAN]]
        /\ \A u \in Users : down[u].id = link[u].id
    BY <2>2 DEF Init, LinkRow
  <2>. QED BY <2>2, <2>3 DEF Init, LinkTypes
<1>4. ActorTypes
  <2>1. resync \in ResyncRow
    BY Numbers DEF Init, ResyncRow
  <2>2. conn \in ConnRow /\ rec \in RecRow /\ admin \in AdminRow /\ rec.step = "idle" /\ admin.step = "idle"
    BY EmptyRows DEF Init
  <2>3. disp \in [Dispatchers -> DispRow] /\ run \in [Runners -> RunRow]
    BY EmptyRows DEF Init
  <2>. QED BY <2>1, <2>2, <2>3 DEF ActorTypes
<1>5. (\A r \in Runners : RunOK(r)) /\ \A d \in Dispatchers : DispOK(d)
  <2>1. \A r \in Runners : run[r] = NoRun
    BY DEF Init
  <2>2. \A d \in Dispatchers : disp[d] = NoDisp
    BY DEF Init
  <2>3. 0 <= ids
    BY DEF Init
  <2>. QED BY <2>1, <2>2, <2>3, EmptyRows DEF RunOK, DispOK
<1>. QED BY <1>1, <1>2, <1>3, <1>4, <1>5, Parts

LEMMA ProvStutter ==
  ASSUME ProvInv, UNCHANGED vars
  PROVE  ProvInv'
BY DEF ProvInv, TypeOK, vars, store, actors, RunOK, DispOK

LEMMA ProvNext ==
  ASSUME ProvInv, Next
  PROVE  ProvInv'
<1>1. CASE \E r \in Runners : Execute(r) \/ HandlerFails(r)
  BY <1>1, ExecutionKinds, ClaimStep, SuspendStep, WorksStep
<1>2. CASE ~ \E r \in Runners : Execute(r) \/ HandlerFails(r)
  BY <1>2, NextKinds, ChangeStep, DemandStep, CaptureStep, ReadLinksStep, PlanStep, SaveStep, GuardStep,
     ListStep, MaterializeStep, EnqueueStep, AttachStep, LoopStep, EditStep, WriteStep, StartStep,
     ResyncTaskStep, TallyResyncStep, CompleteStep, RetryStep, TickStep
<1>. QED BY <1>1, <1>2

\* Types of the tables and of what every actor has in hand.
LEMMA Provisioned == Spec => []ProvInv
<1>1. ProvInv /\ [Next]_vars => ProvInv'
  BY ProvNext, ProvStutter
<1>. QED BY <1>1, ProvInit, PTL DEF Spec

\* TypeOK: tasks name jobs that exist and jobs tasks that exist, a user has at most one
\* scheduled reservation, and every identity in a link was given by the downstream,
\* whatever dispatchers, executions, syncs and administrators do at the same time.
THEOREM ProvisioningTypes == Spec => []TypeOK
<1>1. ProvInv => TypeOK
  BY DEF ProvInv
<1>. QED BY <1>1, Provisioned, PTL

-----------------------------------------------------------------------------
(* Versions. *)

\* The versions are numbers, and none of those in the tables is still to come.
LEMMA VersionTypes ==
  ASSUME ProvInv
  PROVE  /\ clock \in Nat /\ rec.version \in Nat /\ resync.version \in Nat
         /\ \A k \in Rows : k \in Keys /\ k[2] \in Nat
         /\ \A c \in captures : c.version \in Nat /\ <<c.user, c.version>> \in Keys
<1>1. clock \in Nat
  BY Counts
<1>2. rec.version \in Nat /\ resync.version \in Nat
  BY Numbers DEF ProvInv, TypeOK, RecRow, ResyncRow
<1>3. \A k \in Rows : k \in Keys /\ k[2] \in Nat
  BY Counts DEF ProvInv, TypeOK, Rows
<1>4. \A c \in captures : c.version \in Nat /\ <<c.user, c.version>> \in Keys
  BY Numbers DEF ProvInv, TypeOK, Keys
<1>. QED BY <1>1, <1>2, <1>3, <1>4

\* Steps that add no row and start nothing that will.
LEMMA VersionsKept ==
  ASSUME ProvInv, VersionInv, Rows' = Rows, clock' \in Nat, clock <= clock', captures' \subseteq captures,
         rec' = rec \/ rec'.step \notin {"plan", "save"},
         resync'.version = resync.version, resync'.status = "none" <=> resync.status = "none",
         admin'.step = "tasks" => admin.step = "tasks"
  PROVE  VersionInv'
<1>1. \A k \in Rows' : k[2] <= clock'
  BY VersionTypes DEF VersionInv
<1>2. ASSUME NEW c \in captures'
      PROVE  c.version <= clock' /\ \A k \in Rows' : k[2] # c.version
  <2>1. c \in captures /\ c.version \in Nat /\ clock \in Nat
    BY <1>2, VersionTypes
  <2>2. c.version <= clock /\ \A k \in Rows : k[2] # c.version
    BY <2>1 DEF VersionInv
  <2>. QED BY <2>1, <2>2
<1>3. \A c, e \in captures' : c.version = e.version => c = e
  BY DEF VersionInv
<1>4. /\ Syncing' => rec'.version <= clock' /\ \A c \in captures' : c.version # rec'.version
      /\ rec'.step = "plan" => \A k \in Rows' : k[2] # rec'.version
      /\ rec'.step = "save" => /\ \A p \in rec'.plan : <<p[1], rec'.version>> \notin Rows'
                               /\ \A p, q \in rec'.plan : p[1] = q[1] => p = q
  <2>1. CASE rec' = rec
    <3>1. Syncing => rec.version <= clock'
      BY VersionTypes DEF VersionInv
    <3>. QED BY <2>1, <3>1 DEF VersionInv, Syncing
  <2>2. CASE rec'.step \notin {"plan", "save"}
    BY <2>2 DEF Syncing
  <2>. QED BY <2>1, <2>2
<1>5. resync'.status # "none" => /\ resync'.version <= clock'
                                 /\ \A c \in captures' : c.version # resync'.version
                                 /\ Syncing' => rec'.version # resync'.version
  BY VersionTypes DEF VersionInv, Syncing
<1>6. admin'.step = "tasks" => resync'.status # "none"
  BY DEF VersionInv
<1>. QED BY <1>1, <1>2, <1>3, <1>4, <1>5, <1>6 DEF VersionInv

\* A row is added under a version that nothing else is to be saved under.
LEMMA RowAdded ==
  ASSUME ProvInv, VersionInv, NEW k \in Keys, Rows \subseteq Rows', Rows' \subseteq Rows \union {k},
         clock' \in Nat, clock <= clock', k[2] <= clock', captures' \subseteq captures,
         \A c \in captures' : c.version # k[2],
         rec' = rec \/ rec'.step = "idle" \/ (rec'.step = "save" /\ rec.step = "save"
                                              /\ rec'.version = rec.version /\ rec'.plan \subseteq rec.plan),
         rec'.step = "plan" => rec.version # k[2],
         rec'.step = "save" => \A p \in rec'.plan : <<p[1], rec.version>> # k,
         resync'.version = resync.version, resync'.status = resync.status,
         admin'.step = "tasks" => admin.step = "tasks"
  PROVE  VersionInv'
<1>0. k[2] \in Nat
  BY Counts
<1>1. \A x \in Rows' : x[2] <= clock'
  BY <1>0, VersionTypes DEF VersionInv
<1>2. ASSUME NEW c \in captures'
      PROVE  c.version <= clock' /\ \A x \in Rows' : x[2] # c.version
  <2>1. c \in captures /\ c.version \in Nat /\ clock \in Nat /\ c.version # k[2]
    BY <1>2, VersionTypes
  <2>2. c.version <= clock /\ \A x \in Rows : x[2] # c.version
    BY <2>1 DEF VersionInv
  <2>. QED BY <2>1, <2>2
<1>3. \A c, e \in captures' : c.version = e.version => c = e
  BY DEF VersionInv
<1>4. Syncing' => Syncing /\ rec'.version = rec.version
  BY DEF Syncing
<1>5. Syncing' => rec'.version <= clock' /\ \A c \in captures' : c.version # rec'.version
  BY <1>4, VersionTypes DEF VersionInv
<1>6. rec'.step = "plan" => \A x \in Rows' : x[2] # rec'.version
  BY DEF VersionInv
<1>7. rec'.step = "save" => /\ \A p \in rec'.plan : <<p[1], rec'.version>> \notin Rows'
                            /\ \A p, q \in rec'.plan : p[1] = q[1] => p = q
  BY DEF VersionInv
<1>8. resync'.status # "none" => /\ resync'.version <= clock'
                                 /\ \A c \in captures' : c.version # resync'.version
                                 /\ Syncing' => rec'.version # resync'.version
  BY <1>4, VersionTypes DEF VersionInv
<1>9. admin'.step = "tasks" => resync'.status # "none"
  BY DEF VersionInv
<1>. QED BY <1>1, <1>2, <1>3, <1>5, <1>6, <1>7, <1>8, <1>9 DEF VersionInv

\* What executions leave alone.
LEMMA RunnerFrame ==
  ASSUME ProvInv, NEW r \in Runners, Execute(r) \/ HandlerFails(r)
  PROVE  /\ ProvInv' /\ SameTasks /\ SameJobs
         /\ UNCHANGED <<clock, captures, reservations, disp, rec, admin, retried>>
         /\ resync'.version = resync.version /\ resync'.members = resync.members
         /\ resync'.total = resync.total /\ (resync'.status = "none" <=> resync.status = "none")
<1>1. CASE Claim(r)
  BY <1>1, ClaimKinds, ClaimStep, SameTasksKept
<1>2. CASE Suspend(r)
  BY <1>2, SuspendStep
<1>3. CASE Works(r) /\ run[r].step # "idle"
  <2>1. ProvInv' /\ SameTasks /\ SameJobs
    BY <1>3, WorksStep
  <2>2. UNCHANGED <<clock, captures, reservations, disp, rec, admin, retried>>
    BY <1>3 DEF Works, Stores
  <2>3. resync' = resync \/ resync' = Completed(resync.total)
    BY <1>3 DEF Works, Stores
  <2>4. /\ resync'.version = resync.version /\ resync'.members = resync.members
        /\ resync'.total = resync.total /\ (resync'.status = "none" <=> resync.status = "none")
    BY <2>3, CompletedRow
  <2>. QED BY <2>1, <2>2, <2>4
<1>. QED BY <1>1, <1>2, <1>3, ExecutionKinds

LEMMA VersionInit == Init => VersionInv
BY EmptyRows DEF Init, VersionInv, Rows, Syncing

LEMMA VersionNext ==
  ASSUME ProvInv, VersionInv, Next
  PROVE  VersionInv'
<1>0. ProvInv' /\ clock \in Nat
  BY ProvNext, Counts
<1>1. ASSUME NEW u \in Users, ChangeUser(u) \/ ChangeAssignment(u) PROVE VersionInv'
  <2>1. PICK t \in Triggers : captures' = captures \union {[user |-> u, trigger |-> t, version |-> clock + 1]}
    BY <1>1, ChangeStep
  <2>2. clock' = clock + 1 /\ UNCHANGED <<tasks, reservations, actors, resync>>
    BY <1>1, ChangeStep
  <2>3. Rows' = Rows /\ rec' = rec /\ admin' = admin /\ resync' = resync /\ (Syncing' <=> Syncing)
    BY <2>2 DEF Rows, actors, Syncing
  <2>. DEFINE n == [user |-> u, trigger |-> t, version |-> clock + 1]
  <2>4. captures' = captures \union {n} /\ n.version = clock + 1
    BY <2>1
  <2>. HIDE DEF n
  <2>5. \A k \in Rows' : k[2] <= clock' /\ k[2] # clock + 1 /\ k[2] \in Nat
    BY <1>0, <2>2, <2>3, VersionTypes DEF VersionInv
  <2>6. ASSUME NEW c \in captures
        PROVE  c.version <= clock' /\ (\A k \in Rows' : k[2] # c.version) /\ c.version # clock + 1
    <3>1. c.version <= clock /\ c.version \in Nat /\ \A k \in Rows : k[2] # c.version
      BY VersionTypes DEF VersionInv
    <3>. QED BY <1>0, <2>2, <2>3, <3>1
  <2>7. \A c \in captures' : c.version <= clock' /\ \A k \in Rows' : k[2] # c.version
    BY <1>0, <2>2, <2>4, <2>5, <2>6
  <2>8. \A c, e \in captures' : c.version = e.version => c = e
    BY <2>4, <2>6 DEF VersionInv
  <2>9. Syncing' => rec'.version <= clock' /\ rec'.version # clock + 1
                    /\ \A c \in captures' : c.version # rec'.version
    <3>1. Syncing => rec.version <= clock /\ rec.version \in Nat /\ \A c \in captures : c.version # rec.version
      BY VersionTypes DEF VersionInv
    <3>. QED BY <1>0, <2>2, <2>3, <2>4, <3>1
  <2>10. resync'.status # "none" => /\ resync'.version <= clock'
                                    /\ \A c \in captures' : c.version # resync'.version
                                    /\ Syncing' => rec'.version # resync'.version
    <3>1. resync.status # "none" => /\ resync.version <= clock /\ resync.version \in Nat
                                    /\ \A c \in captures : c.version # resync.version
                                    /\ Syncing => rec.version # resync.version
      BY VersionTypes DEF VersionInv
    <3>. QED BY <1>0, <2>2, <2>3, <2>4, <3>1
  <2>11. /\ rec'.step = "plan" => \A k \in Rows' : k[2] # rec'.version
         /\ rec'.step = "save" => /\ \A p \in rec'.plan : <<p[1], rec'.version>> \notin Rows'
                                  /\ \A p, q \in rec'.plan : p[1] = q[1] => p = q
         /\ admin'.step = "tasks" => resync'.status # "none"
    BY <2>3 DEF VersionInv
  <2>. QED BY <2>5, <2>7, <2>8, <2>9, <2>10, <2>11 DEF VersionInv
<1>2. ASSUME NEW u \in Users, ProvisionOnDemand(u) PROVE VersionInv'
  <2>. DEFINE k == <<u, clock + 1>>
  <2>1. /\ clock' = clock + 1 /\ k \in Keys /\ tasks' = WithTask(tasks, k, "update") /\ jobs' = jobs
        /\ UNCHANGED <<captures, reservations, actors, resync>>
    BY <1>2, DemandStep
  <2>2. k[2] = clock + 1
    OBVIOUS
  <2>. HIDE DEF k
  <2>3. DOMAIN tasks' = DOMAIN tasks \union {k}
    BY <2>1, TaskAdded DEF Operations
  <2>4. Rows' = Rows \union {k} /\ rec' = rec /\ admin' = admin
    BY <2>1, <2>3 DEF Rows, actors
  <2>5. clock' \in Nat /\ clock <= clock' /\ k[2] <= clock'
    BY <1>0, <2>1, <2>2
  <2>6. \A c \in captures' : c.version # k[2]
    BY <1>0, <2>1, <2>2, VersionTypes DEF VersionInv
  <2>7. Syncing => rec.version # k[2]
    BY <1>0, <2>2, VersionTypes DEF VersionInv
  <2>8. rec'.step = "save" => \A p \in rec'.plan : <<p[1], rec.version>> # k
    BY <2>4, <2>7 DEF Syncing
  <2>. QED BY <2>1, <2>4, <2>5, <2>6, <2>7, <2>8, RowAdded DEF Syncing
<1>3. ASSUME NEW c \in captures, Capture(c) PROVE VersionInv'
  <2>. DEFINE k == <<c.user, c.version>>
  <2>1. /\ captures' = captures \ {c} /\ k \in Keys /\ UNCHANGED <<clock, jobs, actors, resync>>
        /\ DOMAIN reservations \subseteq DOMAIN reservations'
        /\ DOMAIN reservations' \subseteq DOMAIN reservations \union {k}
    BY <1>3, CaptureStep
  <2>2. k[2] = c.version
    OBVIOUS
  <2>3. DOMAIN tasks' \in {DOMAIN tasks, DOMAIN tasks \union {k}}
    <3>1. tasks' = tasks \/ \E op \in Operations : tasks' = WithTask(tasks, k, op)
      BY <1>3, CaptureStep
    <3>. HIDE DEF k
    <3>. QED BY <2>1, <3>1, TaskAdded
  <2>. HIDE DEF k
  <2>4. Rows \subseteq Rows' /\ Rows' \subseteq Rows \union {k} /\ rec' = rec /\ admin' = admin
    BY <2>1, <2>3 DEF Rows, actors
  <2>5. clock' \in Nat /\ clock <= clock' /\ k[2] <= clock'
    BY <1>0, <2>1, <2>2 DEF VersionInv
  <2>6. \A e \in captures' : e.version # k[2]
    BY <2>1, <2>2 DEF VersionInv
  <2>7. Syncing => rec.version # k[2]
    BY <2>2 DEF VersionInv
  <2>8. rec'.step = "save" => \A p \in rec'.plan : <<p[1], rec.version>> # k
    BY <2>4, <2>7 DEF Syncing
  <2>. QED BY <2>1, <2>4, <2>5, <2>6, <2>7, <2>8, RowAdded DEF Syncing
<1>4. CASE ReadLinks
  <2>1. /\ clock' = clock + 1 /\ rec'.step = "plan" /\ rec'.version = clock + 1
        /\ UNCHANGED <<captures, tasks, reservations, admin, resync>>
    BY <1>4, ReadLinksStep
  <2>2. Rows' = Rows
    BY <2>1 DEF Rows
  <2>3. \A k \in Rows' : k[2] <= clock' /\ k[2] # clock + 1
    BY <1>0, <2>1, <2>2, VersionTypes DEF VersionInv
  <2>4. ASSUME NEW c \in captures'
        PROVE  c.version <= clock' /\ c.version # clock + 1 /\ \A k \in Rows' : k[2] # c.version
    <3>1. c.version <= clock /\ c.version \in Nat /\ \A k \in Rows : k[2] # c.version
      BY <2>1, VersionTypes DEF VersionInv
    <3>. QED BY <1>0, <2>1, <2>2, <3>1
  <2>5. resync'.status # "none" => /\ resync'.version <= clock'
                                   /\ \A c \in captures' : c.version # resync'.version
                                   /\ rec'.version # resync'.version
    <3>1. resync.status # "none" => /\ resync.version <= clock /\ resync.version \in Nat
                                    /\ \A c \in captures : c.version # resync.version
      BY VersionTypes DEF VersionInv
    <3>. QED BY <1>0, <2>1, <3>1
  <2>6. clock + 1 <= clock' /\ rec'.step # "save"
    BY <1>0, <2>1
  <2>7. /\ \A c, e \in captures' : c.version = e.version => c = e
        /\ admin'.step = "tasks" => resync'.status # "none"
    BY <2>1 DEF VersionInv
  <2>. QED BY <2>1, <2>3, <2>4, <2>5, <2>6, <2>7 DEF VersionInv
<1>5. CASE Plan
  <2>1. /\ rec.step = "plan" /\ UNCHANGED <<clock, captures, tasks, reservations, admin, resync>>
        /\ \/ rec'.step \in {"idle", "quarantine"}
           \/ /\ rec'.step = "save" /\ rec'.version = rec.version
              /\ \A p, q \in rec'.plan : p[1] = q[1] => p = q
    BY <1>5, PlanStep DEF store
  <2>2. Rows' = Rows
    BY <2>1 DEF Rows
  <2>3. CASE rec'.step \in {"idle", "quarantine"}
    BY <1>0, <2>1, <2>2, <2>3, VersionsKept
  <2>4. CASE /\ rec'.step = "save" /\ rec'.version = rec.version
             /\ \A p, q \in rec'.plan : p[1] = q[1] => p = q
    <3>1. \A k \in Rows : k[2] # rec.version
      BY <2>1 DEF VersionInv
    <3>2. \A p \in rec'.plan : <<p[1], rec.version>> \notin Rows
      <4>1. \A a : <<a, rec.version>>[2] = rec.version
        OBVIOUS
      <4>. QED BY <3>1, <4>1
    <3>3. Syncing /\ Syncing'
      BY <2>1, <2>4 DEF Syncing
    <3>. QED BY <2>1, <2>2, <2>4, <3>2, <3>3 DEF VersionInv
  <2>. QED BY <2>1, <2>3, <2>4
<1>6. CASE SavePlanned
  <2>1. rec.step = "save" /\ UNCHANGED <<clock, captures, jobs, admin, resync>>
    BY <1>6, SaveStep
  <2>2. PICK p \in rec.plan :
          /\ <<p[1], rec.version>> \in Keys /\ p[2] \in Operations
          /\ IF p[3]
               THEN /\ reservations' = WithReservation(reservations, <<p[1], rec.version>>)
                    /\ UNCHANGED tasks
               ELSE /\ tasks' = WithTask(tasks, <<p[1], rec.version>>, p[2])
                    /\ UNCHANGED reservations
          /\ \/ rec'.step = "idle" /\ rec'.plan = {}
             \/ rec'.step = "save" /\ rec'.version = rec.version /\ rec'.plan = rec.plan \ {p}
    BY <1>6, SaveStep
  <2>. DEFINE k == <<p[1], rec.version>>
  <2>3. k \in Keys /\ k[2] = rec.version /\ k[1] = p[1]
    BY <2>2
  <2>4. Rows \subseteq Rows' /\ Rows' \subseteq Rows \union {k}
    <3>. HIDE DEF k
    <3>1. CASE reservations' = WithReservation(reservations, k) /\ tasks' = tasks
      BY <2>3, <3>1, ReservationMade, ReservationsNow DEF Rows
    <3>2. CASE tasks' = WithTask(tasks, k, p[2]) /\ reservations' = reservations
      BY <2>1, <2>2, <2>3, <3>2, TaskAdded DEF Rows
    <3>. QED BY <2>2, <3>1, <3>2 DEF k
  <2>5. clock' \in Nat /\ clock <= clock' /\ k[2] <= clock'
    BY <1>0, <2>1, <2>3 DEF VersionInv, Syncing
  <2>6. \A e \in captures' : e.version # k[2]
    BY <2>1, <2>3 DEF VersionInv, Syncing
  <2>7. rec'.step = "save" => \A q \in rec'.plan : <<q[1], rec.version>> # k
    <3>1. \A q \in rec.plan : q[1] = p[1] => q = p
      BY <2>1 DEF VersionInv
    <3>. QED BY <2>2, <3>1
  <2>8. rec'.step = "idle" \/ (rec'.step = "save" /\ rec'.version = rec.version /\ rec'.plan \subseteq rec.plan)
    BY <2>2
  <2>. HIDE DEF k
  <2>. QED BY <2>1, <2>3, <2>4, <2>5, <2>6, <2>7, <2>8, RowAdded
<1>7. CASE StartFullResync
  <2>1. /\ clock' = clock + 1 /\ resync'.status = "running" /\ resync'.version = clock + 1
        /\ UNCHANGED <<captures, tasks, reservations, rec>>
    BY <1>7, StartStep
  <2>2. Rows' = Rows /\ (Syncing' <=> Syncing)
    BY <2>1 DEF Rows, Syncing
  <2>3. \A k \in Rows' : k[2] <= clock'
    BY <1>0, <2>1, <2>2, VersionTypes DEF VersionInv
  <2>4. ASSUME NEW c \in captures'
        PROVE  c.version <= clock' /\ c.version # clock + 1 /\ \A k \in Rows' : k[2] # c.version
    <3>1. c.version <= clock /\ c.version \in Nat /\ \A k \in Rows : k[2] # c.version
      BY <2>1, VersionTypes DEF VersionInv
    <3>. QED BY <1>0, <2>1, <2>2, <3>1
  <2>5. Syncing' => /\ rec'.version <= clock' /\ rec'.version # clock + 1
                    /\ \A c \in captures' : c.version # rec'.version
    <3>1. Syncing => /\ rec.version <= clock /\ rec.version \in Nat
                     /\ \A c \in captures : c.version # rec.version
      BY VersionTypes DEF VersionInv
    <3>. QED BY <1>0, <2>1, <2>2, <3>1
  <2>6. clock + 1 <= clock'
    BY <1>0, <2>1
  <2>7. /\ \A c, e \in captures' : c.version = e.version => c = e
        /\ rec'.step = "plan" => \A k \in Rows' : k[2] # rec'.version
        /\ rec'.step = "save" => /\ \A p \in rec'.plan : <<p[1], rec'.version>> \notin Rows'
                                 /\ \A p, q \in rec'.plan : p[1] = q[1] => p = q
    BY <2>1, <2>2 DEF VersionInv
  <2>. QED BY <2>1, <2>3, <2>4, <2>5, <2>6, <2>7 DEF VersionInv
<1>8. CASE SaveResyncTask
  <2>1. admin.step = "tasks" /\ UNCHANGED <<clock, captures, reservations, jobs, rec>>
    BY <1>8, ResyncTaskStep
  <2>2. PICK u \in admin.todo :
          /\ <<u, resync.version>> \in Keys
          /\ tasks' = WithTask(tasks, <<u, resync.version>>, "update")
          /\ resync'.version = resync.version /\ resync'.status = resync.status
    BY <1>8, ResyncTaskStep
  <2>. DEFINE k == <<u, resync.version>>
  <2>3. k[2] = resync.version /\ k \in Keys /\ tasks' = WithTask(tasks, k, "update")
    BY <2>2
  <2>4. DOMAIN tasks' = DOMAIN tasks \union {k}
    <3>. HIDE DEF k
    <3>. QED BY <2>1, <2>3, TaskAdded DEF Operations
  <2>. HIDE DEF k
  <2>5. Rows' = Rows \union {k}
    BY <2>1, <2>4 DEF Rows
  <2>6. resync.status # "none"
    BY <2>1 DEF VersionInv
  <2>7. clock' \in Nat /\ clock <= clock' /\ k[2] <= clock' /\ \A c \in captures' : c.version # k[2]
    BY <1>0, <2>1, <2>3, <2>6 DEF VersionInv
  <2>8. Syncing => rec.version # k[2]
    BY <2>3, <2>6 DEF VersionInv
  <2>9. rec'.step = "save" => \A p \in rec'.plan : <<p[1], rec.version>> # k
    BY <2>1, <2>8 DEF Syncing
  <2>. QED BY <2>1, <2>2, <2>3, <2>5, <2>7, <2>8, <2>9, RowAdded DEF Syncing
<1>9. ASSUME NEW d \in Dispatchers, ListDue(d) \/ ListPending(d) \/ Materialize(d) \/ EnqueueTask(d) \/ AttachJob(d)
      PROVE  VersionInv'
  <2>1. UNCHANGED <<clock, captures, rec, admin, resync>>
    BY <1>9, ListStep, MaterializeStep, EnqueueStep, AttachStep DEF store
  <2>2. Rows' = Rows
    <3>1. CASE ListDue(d) \/ ListPending(d) \/ EnqueueTask(d)
      BY <3>1, ListStep, EnqueueStep DEF store, Rows
    <3>2. CASE AttachJob(d)
      <4>1. DOMAIN tasks' = DOMAIN tasks /\ reservations' = reservations
        BY <3>2, AttachStep
      <4>. QED BY <4>1 DEF Rows
    <3>3. CASE Materialize(d)
      <4>. DEFINE k == disp[d].task
      <4>1. k \in DOMAIN reservations /\ k \in Keys /\ jobs' = jobs
        BY <3>3, MaterializeStep
      <4>2. \/ UNCHANGED <<reservations, tasks>>
            \/ /\ reservations' = [reservations EXCEPT ![k] = "materialized"]
               /\ tasks' = WithTask(tasks, k, "delete")
        BY <3>3, MaterializeStep
      <4>. HIDE DEF k
      <4>3. CASE /\ reservations' = [reservations EXCEPT ![k] = "materialized"]
                 /\ tasks' = WithTask(tasks, k, "delete")
        <5>1. DOMAIN tasks' = DOMAIN tasks \union {k} /\ DOMAIN reservations' = DOMAIN reservations
          BY <4>1, <4>3, TaskAdded DEF Operations
        <5>. QED BY <4>1, <5>1 DEF Rows
      <4>. QED BY <4>2, <4>3 DEF Rows
    <3>. QED BY <1>9, <3>1, <3>2, <3>3
  <2>. QED BY <1>0, <2>1, <2>2, VersionsKept
<1>10. ASSUME NEW r \in Runners, Execute(r) \/ HandlerFails(r) PROVE VersionInv'
  <2>1. /\ UNCHANGED <<clock, captures, reservations, rec, admin>> /\ DOMAIN tasks' = DOMAIN tasks
        /\ resync'.version = resync.version /\ (resync'.status = "none" <=> resync.status = "none")
    BY <1>10, RunnerFrame DEF SameTasks
  <2>2. Rows' = Rows
    BY <2>1 DEF Rows
  <2>. QED BY <1>0, <2>1, <2>2, VersionsKept
<1>11. CASE QuarantineByGuard \/ LoopFails \/ BeginEdit \/ WriteEdit \/ TallyResync
  <2>1. /\ UNCHANGED <<clock, captures, tasks, reservations, resync>>
        /\ rec' = rec \/ rec'.step = "idle"
        /\ admin'.step = "tasks" => admin.step = "tasks"
    BY <1>11, GuardStep, LoopStep, EditStep, WriteStep, TallyResyncStep, EmptyRows DEF store
  <2>2. Rows' = Rows
    BY <2>1 DEF Rows
  <2>. QED BY <1>0, <2>1, <2>2, VersionsKept
<1>12. CASE CompleteResync
  <2>1. /\ UNCHANGED <<clock, captures, tasks, reservations, rec>> /\ admin'.step = "idle"
        /\ resync'.version = resync.version /\ (resync'.status = "none" <=> resync.status = "none")
    BY <1>12, CompleteStep, CompletedRow, EmptyRows DEF store
  <2>2. Rows' = Rows
    BY <2>1 DEF Rows
  <2>. QED BY <1>0, <2>1, <2>2, VersionsKept
<1>13. ASSUME NEW k \in DOMAIN tasks, RetryTask(k) PROVE VersionInv'
  <2>1. /\ UNCHANGED <<clock, captures, reservations, rec, admin, resync>> /\ DOMAIN tasks' = DOMAIN tasks
    BY <1>13, RetryStep DEF actors
  <2>2. Rows' = Rows
    BY <2>1 DEF Rows
  <2>. QED BY <1>0, <2>1, <2>2, VersionsKept
<1>14. CASE Tick
  <2>1. clock' = clock + 1 /\ UNCHANGED <<captures, tasks, reservations, rec, admin, resync>>
    BY <1>14 DEF Tick, actors
  <2>2. Rows' = Rows /\ clock' \in Nat /\ clock <= clock'
    BY <1>0, <2>1 DEF Rows
  <2>. QED BY <2>1, <2>2, VersionsKept
<1>. QED BY NextKinds, <1>1, <1>2, <1>3, <1>4, <1>5, <1>6, <1>7, <1>8, <1>9, <1>10, <1>11, <1>12,
            <1>13, <1>14

-----------------------------------------------------------------------------
(* Reservations and deletions. *)

\* A reservation that is cancelled or has become a task stays so.
Final ==
  /\ DOMAIN reservations \subseteq DOMAIN reservations'
  /\ \A k \in DOMAIN reservations : reservations[k] # "scheduled" => reservations'[k] = reservations[k]

LEMMA MadeFinal ==
  ASSUME ProvInv, NEW k \in Keys, k \notin Rows, reservations' = WithReservation(reservations, k)
  PROVE  Final
<1>1. k \notin DOMAIN reservations
  BY DEF Rows
<1>2. /\ DOMAIN reservations \subseteq DOMAIN reservations'
      /\ \A x \in DOMAIN reservations : reservations'[x] = reservations[x] \/ x = k
  BY ReservationMade, ReservationsNow
<1>. QED BY <1>1, <1>2 DEF Final

LEMMA FinalNext ==
  ASSUME ProvInv, VersionInv, Next
  PROVE  Final
<1>1. CASE reservations' = reservations
  BY <1>1 DEF Final
<1>2. ASSUME NEW c \in captures, Capture(c) PROVE Final
  <2>1. /\ DOMAIN reservations \subseteq DOMAIN reservations'
        /\ \A x \in DOMAIN reservations :
             \/ reservations'[x] = reservations[x]
             \/ reservations[x] = "scheduled" /\ reservations'[x] = "cancelled"
             \/ x = <<c.user, c.version>>
    BY <1>2, CaptureStep
  <2>2. <<c.user, c.version>> \notin DOMAIN reservations
    <3>1. \A x \in DOMAIN reservations : x[2] # c.version
      BY DEF VersionInv, Rows
    <3>. QED BY <3>1
  <2>. QED BY <2>1, <2>2 DEF Final
<1>3. CASE SavePlanned
  <2>1. rec.step = "save"
    BY <1>3, SaveStep
  <2>2. PICK p \in rec.plan :
          /\ <<p[1], rec.version>> \in Keys
          /\ \/ reservations' = WithReservation(reservations, <<p[1], rec.version>>)
             \/ UNCHANGED reservations
    BY <1>3, SaveStep
  <2>3. <<p[1], rec.version>> \notin Rows
    BY <2>1 DEF VersionInv
  <2>. QED BY <1>1, <2>2, <2>3, MadeFinal
<1>4. ASSUME NEW d \in Dispatchers, Materialize(d) PROVE Final
  <2>. DEFINE k == disp[d].task
  <2>1. \/ reservations' = reservations
        \/ /\ k \in DOMAIN reservations /\ reservations[k] = "scheduled"
           /\ reservations' = [reservations EXCEPT ![k] = "materialized"]
    BY <1>4, MaterializeStep
  <2>. HIDE DEF k
  <2>. QED BY <2>1 DEF Final
<1>5. ASSUME NEW u \in Users, ChangeUser(u) \/ ChangeAssignment(u) \/ ProvisionOnDemand(u)
      PROVE  reservations' = reservations
  BY <1>5, ChangeStep, DemandStep
<1>6. ASSUME NEW d \in Dispatchers, ListDue(d) \/ ListPending(d) \/ EnqueueTask(d) \/ AttachJob(d)
      PROVE  reservations' = reservations
  BY <1>6, ListStep, EnqueueStep, AttachStep DEF store
<1>7. ASSUME NEW r \in Runners, Execute(r) \/ HandlerFails(r)
      PROVE  reservations' = reservations
  BY <1>7, RunnerFrame
<1>8. ASSUME NEW k \in DOMAIN tasks, RetryTask(k)
      PROVE  reservations' = reservations
  BY <1>8, RetryStep
<1>9. CASE \/ ReadLinks \/ Plan \/ QuarantineByGuard \/ LoopFails \/ BeginEdit \/ WriteEdit
           \/ StartFullResync \/ SaveResyncTask \/ TallyResync \/ CompleteResync \/ Tick
  <2>1. reservations' = reservations
    BY <1>9, ReadLinksStep, PlanStep, GuardStep, LoopStep, EditStep, WriteStep, StartStep,
       ResyncTaskStep, TallyResyncStep, CompleteStep DEF store, Tick
  <2>. QED BY <1>1, <2>1
<1>. QED BY NextKinds, <1>1, <1>2, <1>3, <1>4, <1>5, <1>6, <1>7, <1>8, <1>9

\* Steps that bring in no deletion.
LEMMA GraceKept ==
  ASSUME ProvInv, GraceInv, Final, clock' \in Nat, clock <= clock',
         \A k \in DOMAIN tasks' : \/ k \in DOMAIN tasks /\ tasks'[k].op = tasks[k].op
                                  \/ tasks'[k].op # "delete",
         rec'.plan \subseteq rec.plan
  PROVE  GraceInv'
<1>. SUFFICES ASSUME Grace > 0, OnUnassign # "delete"
              PROVE  GraceHonoured' /\ \A p \in rec'.plan : p[2] = "delete" => p[3]
  BY DEF GraceInv, GraceHonoured
<1>1. \A p \in rec'.plan : p[2] = "delete" => p[3]
  BY DEF GraceInv
<1>2. ASSUME NEW k \in DOMAIN tasks', tasks'[k].op = "delete"
      PROVE  k \in DOMAIN reservations' /\ reservations'[k] = "materialized" /\ k[2] + Grace <= clock'
  <2>1. k \in DOMAIN tasks /\ tasks[k].op = "delete"
    BY <1>2
  <2>2. k \in DOMAIN reservations /\ reservations[k] = "materialized" /\ k[2] + Grace <= clock
    BY <2>1 DEF GraceInv, GraceHonoured
  <2>3. k[2] \in Nat /\ clock \in Nat /\ Grace \in Nat
    BY <2>1, VersionTypes, Numbers DEF Rows
  <2>. QED BY <2>2, <2>3 DEF Final
<1>3. GraceHonoured'
  BY <1>2 DEF GraceHonoured
<1>. QED BY <1>1, <1>3

\* A task is added that is no deletion.
LEMMA GraceAdded ==
  ASSUME ProvInv, GraceInv, Final, clock' \in Nat, clock <= clock', NEW k \in Keys,
         NEW op \in Operations, op # "delete", tasks' = WithTask(tasks, k, op), jobs' = jobs,
         rec'.plan \subseteq rec.plan
  PROVE  GraceInv'
<1>1. /\ DOMAIN tasks' = DOMAIN tasks \union {k}
      /\ \A x \in DOMAIN tasks : tasks'[x] = tasks[x]
      /\ k \notin DOMAIN tasks => tasks'[k] = [op |-> op, status |-> "pending", job |-> 0]
  BY TaskAdded
<1>2. [op |-> op, status |-> "pending", job |-> 0].op = op
  OBVIOUS
<1>3. \A x \in DOMAIN tasks' : \/ x \in DOMAIN tasks /\ tasks'[x].op = tasks[x].op
                               \/ tasks'[x].op # "delete"
  BY <1>1, <1>2
<1>. QED BY <1>3, GraceKept

LEMMA GraceInit == Init => GraceInv
BY EmptyRows DEF Init, GraceInv, GraceHonoured

LEMMA GraceNext ==
  ASSUME ProvInv, VersionInv, GraceInv, Next
  PROVE  GraceInv'
<1>0. Final /\ clock \in Nat
  BY FinalNext, Counts
<1>. SUFFICES ASSUME Grace > 0, OnUnassign # "delete" PROVE GraceInv'
  BY DEF GraceInv, GraceHonoured
<1>1. ASSUME NEW u \in Users, ChangeUser(u) \/ ChangeAssignment(u) PROVE GraceInv'
  <2>1. clock' = clock + 1 /\ tasks' = tasks /\ rec' = rec
    BY <1>1, ChangeStep DEF actors
  <2>. QED BY <1>0, <2>1, GraceKept
<1>2. ASSUME NEW u \in Users, ProvisionOnDemand(u) PROVE GraceInv'
  <2>1. /\ clock' = clock + 1 /\ <<u, clock + 1>> \in Keys /\ rec' = rec /\ jobs' = jobs
        /\ tasks' = WithTask(tasks, <<u, clock + 1>>, "update")
    BY <1>2, DemandStep DEF actors
  <2>2. clock' \in Nat /\ clock <= clock' /\ "update" \in Operations /\ "update" # "delete"
    BY <1>0, <2>1 DEF Operations
  <2>. QED BY <1>0, <2>1, <2>2, GraceAdded
<1>3. ASSUME NEW c \in captures, Capture(c) PROVE GraceInv'
  <2>1. clock' = clock /\ rec' = rec /\ jobs' = jobs /\ <<c.user, c.version>> \in Keys
    BY <1>3, CaptureStep DEF actors
  <2>2. CASE tasks' = tasks
    BY <1>0, <2>1, <2>2, GraceKept
  <2>3. ASSUME NEW op \in Operations, tasks' = WithTask(tasks, <<c.user, c.version>>, op),
               op = Operation(c.trigger), ~ Reserved(c.trigger, op)
        PROVE  GraceInv'
    <3>1. op # "delete"
      <4>1. c.trigger \in Triggers
        BY DEF ProvInv, TypeOK
      <4>2. c.trigger = "deleted" => op # "delete"
        BY <2>3 DEF Reserved
      <4>3. c.trigger = "removed" => op = OnUnassign
        BY <2>3 DEF Operation
      <4>4. c.trigger \notin {"deleted", "removed"} => op # "delete"
        BY <2>3, <4>1 DEF Operation, Triggers
      <4>. QED BY <4>2, <4>3, <4>4
    <3>. QED BY <1>0, <2>1, <2>3, <3>1, GraceAdded
  <2>. QED BY <1>3, <2>2, <2>3, CaptureStep
<1>4. CASE Plan
  <2>1. clock' = clock /\ tasks' = tasks
    BY <1>4, PlanStep DEF store
  <2>2. \A p \in rec'.plan : p[2] = "delete" => p[3]
    BY <1>4, PlanStep
  <2>3. GraceHonoured'
    BY <1>0, <2>1 DEF GraceInv, GraceHonoured, Final
  <2>. QED BY <2>2, <2>3 DEF GraceInv
<1>5. CASE SavePlanned
  <2>1. clock' = clock /\ jobs' = jobs
    BY <1>5, SaveStep
  <2>2. PICK p \in rec.plan :
          /\ <<p[1], rec.version>> \in Keys /\ p[2] \in Operations
          /\ IF p[3]
               THEN /\ reservations' = WithReservation(reservations, <<p[1], rec.version>>)
                    /\ UNCHANGED tasks
               ELSE /\ tasks' = WithTask(tasks, <<p[1], rec.version>>, p[2])
                    /\ UNCHANGED reservations
          /\ \/ rec'.step = "idle" /\ rec'.plan = {}
             \/ rec'.step = "save" /\ rec'.version = rec.version /\ rec'.plan = rec.plan \ {p}
    BY <1>5, SaveStep
  <2>3. rec'.plan \subseteq rec.plan
    BY <2>2
  <2>4. CASE p[3]
    BY <1>0, <2>1, <2>2, <2>3, <2>4, GraceKept
  <2>5. CASE ~ p[3]
    <3>1. p[2] # "delete"
      BY <2>5 DEF GraceInv
    <3>2. tasks' = WithTask(tasks, <<p[1], rec.version>>, p[2])
      BY <2>2, <2>5
    <3>. QED BY <1>0, <2>1, <2>2, <2>3, <3>1, <3>2, GraceAdded
  <2>. QED BY <2>4, <2>5
<1>6. CASE SaveResyncTask
  <2>1. clock' = clock /\ jobs' = jobs /\ rec' = rec
    BY <1>6, ResyncTaskStep
  <2>2. \E u \in admin.todo :
          /\ <<u, resync.version>> \in Keys /\ tasks' = WithTask(tasks, <<u, resync.version>>, "update")
    BY <1>6, ResyncTaskStep
  <2>3. "update" \in Operations /\ "update" # "delete"
    BY DEF Operations
  <2>. QED BY <1>0, <2>1, <2>2, <2>3, GraceAdded
<1>7. ASSUME NEW d \in Dispatchers, Materialize(d) PROVE GraceInv'
  <2>. DEFINE k == disp[d].task
  <2>1. /\ k \in DOMAIN reservations /\ k \in Keys /\ k[2] + Grace <= clock
        /\ clock' = clock /\ jobs' = jobs /\ rec' = rec
    BY <1>7, MaterializeStep
  <2>2. \/ UNCHANGED <<reservations, tasks>>
        \/ /\ reservations' = [reservations EXCEPT ![k] = "materialized"]
           /\ tasks' = WithTask(tasks, k, "delete")
    BY <1>7, MaterializeStep
  <2>. HIDE DEF k
  <2>3. CASE tasks' = tasks
    BY <1>0, <2>1, <2>3, GraceKept
  <2>4. CASE /\ reservations' = [reservations EXCEPT ![k] = "materialized"]
             /\ tasks' = WithTask(tasks, k, "delete")
    <3>1. DOMAIN tasks' = DOMAIN tasks \union {k} /\ \A x \in DOMAIN tasks : tasks'[x] = tasks[x]
      BY <2>1, <2>4, TaskAdded DEF Operations
    <3>2. reservations'[k] = "materialized" /\ DOMAIN reservations' = DOMAIN reservations
      BY <2>1, <2>4
    <3>3. \A x \in DOMAIN tasks' : tasks'[x].op = "delete" =>
            x \in DOMAIN reservations' /\ reservations'[x] = "materialized" /\ x[2] + Grace <= clock'
      BY <1>0, <2>1, <3>1, <3>2 DEF GraceInv, GraceHonoured, Final
    <3>. QED BY <2>1, <3>3 DEF GraceInv, GraceHonoured
  <2>. QED BY <2>2, <2>3, <2>4
<1>8. ASSUME NEW d \in Dispatchers, ListDue(d) \/ ListPending(d) \/ EnqueueTask(d) \/ AttachJob(d)
      PROVE  GraceInv'
  <2>1. clock' = clock /\ rec' = rec
    BY <1>8, ListStep, EnqueueStep, AttachStep DEF store
  <2>2. \A k \in DOMAIN tasks' : k \in DOMAIN tasks /\ tasks'[k].op = tasks[k].op
    <3>1. CASE ListDue(d) \/ ListPending(d) \/ EnqueueTask(d)
      BY <3>1, ListStep, EnqueueStep DEF store
    <3>2. CASE AttachJob(d)
      <4>. DEFINE k == disp[d].task
      <4>1. k \in DOMAIN tasks /\ (tasks' = tasks \/ \E t \in TaskRow : tasks' = [tasks EXCEPT ![k] = t]
                                                                         /\ t.op = tasks[k].op)
        BY <3>2, AttachStep
      <4>. HIDE DEF k
      <4>. QED BY <4>1
    <3>. QED BY <1>8, <3>1, <3>2
  <2>. QED BY <1>0, <2>1, <2>2, GraceKept
<1>9. ASSUME NEW r \in Runners, Execute(r) \/ HandlerFails(r) PROVE GraceInv'
  <2>1. clock' = clock /\ rec' = rec /\ SameTasks
    BY <1>9, RunnerFrame
  <2>. QED BY <1>0, <2>1, GraceKept DEF SameTasks
<1>10. ASSUME NEW k \in DOMAIN tasks, RetryTask(k) PROVE GraceInv'
  <2>1. clock' = clock /\ rec' = rec
    BY <1>10, RetryStep DEF actors
  <2>2. \E t \in TaskRow : tasks' = [tasks EXCEPT ![k] = t] /\ t.op = tasks[k].op
    BY <1>10, RetryStep
  <2>3. \A x \in DOMAIN tasks' : x \in DOMAIN tasks /\ tasks'[x].op = tasks[x].op
    BY <2>2
  <2>. QED BY <1>0, <2>1, <2>3, GraceKept
<1>11. CASE \/ ReadLinks \/ QuarantineByGuard \/ LoopFails \/ BeginEdit \/ WriteEdit
            \/ StartFullResync \/ TallyResync \/ CompleteResync \/ Tick
  <2>1. clock' \in {clock, clock + 1} /\ tasks' = tasks
    BY <1>11, ReadLinksStep, GuardStep, LoopStep, EditStep, WriteStep, StartStep,
       TallyResyncStep, CompleteStep DEF store, Tick
  <2>2. rec' = rec \/ rec'.plan = {}
    BY <1>11, ReadLinksStep, GuardStep, LoopStep, EditStep, WriteStep, StartStep,
       TallyResyncStep, CompleteStep, EmptyRows DEF store, Tick, actors
  <2>3. clock' \in Nat /\ clock <= clock' /\ rec'.plan \subseteq rec.plan
    BY <1>0, <2>1, <2>2
  <2>. QED BY <1>0, <2>1, <2>3, GraceKept
<1>. QED BY NextKinds, <1>1, <1>2, <1>3, <1>4, <1>5, <1>6, <1>7, <1>8, <1>9, <1>10, <1>11

LEMMA Versioned == Spec => [](ProvInv /\ VersionInv /\ GraceInv)
<1>1. VersionInv /\ UNCHANGED vars => VersionInv'
  BY DEF VersionInv, vars, store, actors, Rows, Syncing
<1>2. GraceInv /\ UNCHANGED vars => GraceInv'
  BY DEF GraceInv, GraceHonoured, vars, store, actors
<1>3. ProvInv /\ VersionInv /\ GraceInv /\ [Next]_vars => (ProvInv /\ VersionInv /\ GraceInv)'
  BY <1>1, <1>2, ProvNext, ProvStutter, VersionNext, GraceNext
<1>. QED BY <1>3, ProvInit, VersionInit, GraceInit, PTL DEF Spec

\* GraceHonoured: with a grace period, a deletion reaches the tasks only through a
\* reservation that is due, whatever captures, syncs and dispatchers interleave.
THEOREM DeletionsWait == Spec => []GraceHonoured
<1>1. GraceInv => GraceHonoured
  BY DEF GraceInv
<1>. QED BY <1>1, Versioned, PTL

\* CancelledIsFinal: no dispatcher, capture or sync revives a reservation that a restore
\* has cancelled.
THEOREM CancellationsStand == Spec => CancelledIsFinal
<1>1. ProvInv /\ VersionInv /\ [Next]_vars =>
        [\A k \in DOMAIN reservations :
           reservations[k] = "cancelled" => reservations'[k] = "cancelled"]_vars
  BY FinalNext DEF Final
<1>. QED BY <1>1, Versioned, PTL DEF Spec, CancelledIsFinal

-----------------------------------------------------------------------------
(* Jobs and leases. *)

\* An execution has the lease of its job, which is active, and no other one has it.
LEMMA OneLease ==
  ASSUME ProvInv, QueueInv, ~ late, NEW r \in Runners, run[r].step # "idle"
  PROVE  /\ jobs[run[r].job].owner = r /\ Active(run[r].job) /\ run[r].job \in DOMAIN jobs
         /\ jobs[run[r].job].status = "running" /\ r # None
         /\ \A s \in Runners : s # r /\ run[s].step # "idle" => run[s].job # run[r].job
<1>1. jobs[run[r].job].owner = r /\ run[r].job \in DOMAIN jobs /\ r # None
  BY InHand, Numbers DEF QueueInv
<1>2. jobs[run[r].job].status = "running" /\ Active(run[r].job)
  BY <1>1 DEF QueueInv, Active
<1>3. \A s \in Runners : s # r /\ run[s].step # "idle" => run[s].job # run[r].job
  BY <1>1 DEF QueueInv
<1>. QED BY <1>1, <1>2, <1>3

\* Executions give jobs no key and make none active.
LEMMA QueueStay ==
  ASSUME ProvInv, QueueInv, NEW j \in DOMAIN jobs, NEW y \in JobRow, jobs' = [jobs EXCEPT ![j] = y],
         y.task = jobs[j].task, y.prev = jobs[j].prev, y.owner # None => y.status = "running", Active(j)
  PROVE  /\ \A i \in DOMAIN jobs' : jobs'[i].owner # None => jobs'[i].status = "running"
         /\ \A i, h \in DOMAIN jobs' : jobs'[i].status # "ended" /\ jobs'[h].status # "ended"
              /\ jobs'[i].task = jobs'[h].task /\ jobs'[i].prev = jobs'[h].prev => i = h
         /\ \A i \in DOMAIN jobs' : jobs'[i].status # "ended" => Active(i)
<1>1. /\ SameJobs /\ jobs'[j] = y
      /\ \A i \in DOMAIN jobs : i # j => jobs'[i] = jobs[i]
  BY OneJob
<1>2. DOMAIN jobs' = DOMAIN jobs
      /\ \A i \in DOMAIN jobs : jobs'[i].task = jobs[i].task /\ jobs'[i].prev = jobs[i].prev
  BY <1>1 DEF SameJobs
<1>3. \A i \in DOMAIN jobs' : jobs'[i].owner # None => jobs'[i].status = "running"
  BY <1>1, <1>2 DEF QueueInv
<1>4. \A i \in DOMAIN jobs' : jobs'[i].status # "ended" => Active(i)
  BY <1>1, <1>2 DEF Active
<1>. QED BY <1>2, <1>3, <1>4 DEF QueueInv, SameKey

\* What an execution's step does to the queue.
LEMMA RunnerQueue ==
  ASSUME ProvInv, QueueInv, NEW r \in Runners, Execute(r) \/ HandlerFails(r)
  PROVE  /\ QueueInv'
         /\ \A i \in DOMAIN jobs : Active(i)' => Active(i)
         /\ late => late'
<1>1. run \in [Runners -> RunRow]
  BY DEF ProvInv, TypeOK
<1>2. CASE Claim(r)
  <2>1. Claims(r) /\ run[r].step = "idle"
    BY <1>2, ClaimKinds
  <2>2. PICK j \in DOMAIN jobs, y \in JobRow :
          /\ Active(j)
          /\ jobs' = [jobs EXCEPT ![j] = y] /\ y.task = jobs[j].task /\ y.prev = jobs[j].prev
          /\ late' = TRUE \/ (late' = late /\ (jobs[j].status = "queued" \/ jobs[j].owner = None))
          /\ \/ run' = run /\ y.status = "ended" /\ y.owner = None
             \/ /\ y.status = "running" /\ y.owner = r
                /\ \E x \in RunRow : run' = [run EXCEPT ![r] = x] /\ x.job = j
    BY <2>1 DEF Claims
  <2>3. /\ \A i \in DOMAIN jobs' : jobs'[i].owner # None => jobs'[i].status = "running"
        /\ \A i, h \in DOMAIN jobs' : jobs'[i].status # "ended" /\ jobs'[h].status # "ended"
             /\ jobs'[i].task = jobs'[h].task /\ jobs'[i].prev = jobs'[h].prev => i = h
        /\ \A i \in DOMAIN jobs' : jobs'[i].status # "ended" => Active(i)
    BY <2>2, QueueStay
  <2>4. jobs'[j] = y /\ DOMAIN jobs' = DOMAIN jobs /\ \A i \in DOMAIN jobs : i # j => jobs'[i] = jobs[i]
    BY <2>2, OneJob DEF SameJobs
  <2>5. ASSUME ~ late', NEW s \in Runners, run'[s].step # "idle" PROVE jobs'[run'[s].job].owner = s
    <3>1. ~ late /\ (jobs[j].status = "queued" \/ jobs[j].owner = None)
      BY <2>2, <2>5
    <3>2. CASE s = r
      <4>1. run' # run
        BY <2>1, <2>5, <3>2
      <4>2. y.owner = r /\ run'[r].job = j
        BY <1>1, <2>2, <4>1
      <4>. QED BY <2>4, <3>2, <4>2
    <3>3. CASE s # r
      <4>1. run'[s] = run[s]
        BY <1>1, <2>2, <3>3
      <4>2. /\ jobs[run[s].job].owner = s /\ run[s].job \in DOMAIN jobs
            /\ jobs[run[s].job].status = "running" /\ s # None
        BY <2>5, <3>1, <4>1, OneLease
      <4>3. run[s].job # j
        BY <3>1, <4>2
      <4>. QED BY <2>4, <4>1, <4>2, <4>3
    <3>. QED BY <3>2, <3>3
  <2>. QED BY <2>2, <2>3, <2>4, <2>5 DEF QueueInv, Active, SameKey
<1>3. ASSUME Leaves(r), run[r].step # "idle", late' = late
      PROVE  QueueInv' /\ \A i \in DOMAIN jobs : Active(i)' => Active(i)
  <2>1. run' = [run EXCEPT ![r] = NoRun] /\ run'[r].step = "idle"
    BY <1>1, <1>3, EmptyRows DEF Leaves
  <2>2. \A s \in Runners : run'[s].step # "idle" => s # r /\ run'[s] = run[s]
    BY <1>1, <2>1
  <2>3. CASE jobs' = jobs
    BY <1>3, <2>2, <2>3 DEF QueueInv, Active, SameKey
  <2>4. CASE jobs' # jobs
    <3>. DEFINE j == run[r].job
    <3>1. PICK y \in JobRow :
            /\ jobs[j].owner = r /\ jobs' = [jobs EXCEPT ![j] = y]
            /\ y.task = jobs[j].task /\ y.prev = jobs[j].prev /\ y.owner = None
      BY <1>3, <2>4 DEF Leaves, Released
    <3>2. j \in DOMAIN jobs /\ r # None
      BY <1>3, InHand, Numbers
    <3>. HIDE DEF j
    <3>3. Active(j)
      BY <3>1, <3>2 DEF QueueInv, Active
    <3>4. /\ \A i \in DOMAIN jobs' : jobs'[i].owner # None => jobs'[i].status = "running"
          /\ \A i, h \in DOMAIN jobs' : jobs'[i].status # "ended" /\ jobs'[h].status # "ended"
               /\ jobs'[i].task = jobs'[h].task /\ jobs'[i].prev = jobs'[h].prev => i = h
          /\ \A i \in DOMAIN jobs' : jobs'[i].status # "ended" => Active(i)
      BY <3>1, <3>2, <3>3, QueueStay
    <3>5. DOMAIN jobs' = DOMAIN jobs /\ \A i \in DOMAIN jobs : i # j => jobs'[i] = jobs[i]
      BY <3>1, <3>2, OneJob DEF SameJobs
    <3>6. ASSUME ~ late', NEW s \in Runners, run'[s].step # "idle" PROVE jobs'[run'[s].job].owner = s
      <4>1. s # r /\ run'[s] = run[s] /\ ~ late /\ run[s].step # "idle"
        BY <1>3, <2>2, <3>6
      <4>2. jobs[run[s].job].owner = s /\ run[s].job \in DOMAIN jobs
        BY <4>1, OneLease
      <4>. QED BY <3>1, <3>5, <4>1, <4>2
    <3>. QED BY <3>4, <3>5, <3>6 DEF QueueInv, Active, SameKey
  <2>. QED BY <2>3, <2>4
<1>4. CASE Suspend(r)
  BY <1>3, <1>4, SuspendStep
<1>5. CASE Works(r) /\ run[r].step # "idle"
  <2>1. late' = late
    BY <1>5 DEF Works, Stores
  <2>2. CASE Leaves(r)
    BY <1>3, <1>5, <2>1, <2>2
  <2>3. CASE Moves(r)
    <3>1. jobs' = jobs /\ \E x \in RunRow : run' = [run EXCEPT ![r] = x] /\ x.job = run[r].job
      BY <2>3 DEF Moves
    <3>2. \A s \in Runners : run'[s].job = run[s].job /\ (run'[s].step # "idle" => run[s].step # "idle")
      BY <1>1, <1>5, <3>1
    <3>. QED BY <2>1, <3>1, <3>2 DEF QueueInv, Active, SameKey
  <2>. QED BY <1>5, <2>1, <2>2, <2>3 DEF Works
<1>. QED BY <1>2, <1>4, <1>5, ExecutionKinds, SuspendStep

\* Only executions change executions and leases, and only dispatchers add jobs.
LEMMA OthersFrame ==
  ASSUME ProvInv, Next, ~ \E r \in Runners : Execute(r) \/ HandlerFails(r)
  PROVE  run' = run /\ late' = late /\ (jobs' = jobs \/ \E d \in Dispatchers : EnqueueTask(d))
BY NextKinds, ChangeStep, DemandStep, CaptureStep, ReadLinksStep, PlanStep, SaveStep, GuardStep,
   ListStep, MaterializeStep, EnqueueStep, AttachStep, LoopStep, EditStep, WriteStep, StartStep,
   ResyncTaskStep, TallyResyncStep, CompleteStep, RetryStep DEF store, actors, Tick

\* A job that is added is the only active one with its key.
LEMMA AddedJobs ==
  ASSUME ProvInv, NEW d \in Dispatchers, EnqueueTask(d)
  PROVE  \/ jobs' = jobs
         \/ /\ DOMAIN jobs' = DOMAIN jobs \union {Len(jobs) + 1} /\ Len(jobs) + 1 \notin DOMAIN jobs
            /\ \A j \in DOMAIN jobs : jobs'[j] = jobs[j]
            /\ jobs'[Len(jobs) + 1].task = disp[d].task /\ jobs'[Len(jobs) + 1].prev = disp[d].job
            /\ jobs'[Len(jobs) + 1].owner = None
            /\ \A i \in DOMAIN jobs : SameKey(i, disp[d].task, disp[d].job) => ~ Active(i)
<1>. SUFFICES ASSUME jobs' # jobs
              PROVE  /\ DOMAIN jobs' = DOMAIN jobs \union {Len(jobs) + 1} /\ Len(jobs) + 1 \notin DOMAIN jobs
                     /\ \A j \in DOMAIN jobs : jobs'[j] = jobs[j]
                     /\ jobs'[Len(jobs) + 1].task = disp[d].task /\ jobs'[Len(jobs) + 1].prev = disp[d].job
                     /\ jobs'[Len(jobs) + 1].owner = None
                     /\ \A i \in DOMAIN jobs : SameKey(i, disp[d].task, disp[d].job) => ~ Active(i)
  OBVIOUS
<1>1. Enqueues(d) /\ disp[d].step = "pending" /\ tasks' = tasks
  BY EnqueueStep
<1>2. /\ jobs' = Append(jobs, Job(disp[d].task, disp[d].job))
      /\ \A i \in DOMAIN jobs : SameKey(i, disp[d].task, disp[d].job) => ~ Active(i)
  BY <1>1, Zenon DEF Enqueues
<1>3. disp[d].task \in DOMAIN tasks /\ disp[d].job \in Nat
  BY <1>1, Counts DEF ProvInv, DispOK
<1>. QED BY <1>1, <1>2, <1>3, JobAdded

LEMMA QueueNext ==
  ASSUME ProvInv, QueueInv, Next
  PROVE  QueueInv'
<1>1. CASE \E r \in Runners : Execute(r) \/ HandlerFails(r)
  BY <1>1, RunnerQueue
<1>2. CASE ~ \E r \in Runners : Execute(r) \/ HandlerFails(r)
  <2>1. run' = run /\ late' = late
    BY <1>2, OthersFrame
  <2>2. CASE jobs' = jobs
    BY <2>1, <2>2 DEF QueueInv, Active, SameKey
  <2>3. CASE jobs' # jobs
    <3>1. PICK d \in Dispatchers : EnqueueTask(d)
      BY <1>2, <2>3, OthersFrame
    <3>. DEFINE n == Len(jobs) + 1
    <3>2. /\ DOMAIN jobs' = DOMAIN jobs \union {n} /\ n \notin DOMAIN jobs
          /\ \A j \in DOMAIN jobs : jobs'[j] = jobs[j]
          /\ jobs'[n].task = disp[d].task /\ jobs'[n].prev = disp[d].job
          /\ jobs'[n].owner = None
          /\ \A i \in DOMAIN jobs : SameKey(i, disp[d].task, disp[d].job) => ~ Active(i)
      BY <2>3, <3>1, AddedJobs
    <3>. HIDE DEF n
    <3>3. \A j \in DOMAIN jobs' : jobs'[j].owner # None => jobs'[j].status = "running"
      BY <3>2 DEF QueueInv
    <3>4. \A i, j \in DOMAIN jobs' : jobs'[i].status # "ended" /\ jobs'[j].status # "ended"
            /\ jobs'[i].task = jobs'[j].task /\ jobs'[i].prev = jobs'[j].prev => i = j
      BY <3>2 DEF QueueInv, Active, SameKey
    <3>5. \A r \in Runners : run[r].step # "idle" => run[r].job \in DOMAIN jobs
      BY DEF ProvInv, RunOK
    <3>6. ~ late' => \A r \in Runners : run'[r].step # "idle" => jobs'[run'[r].job].owner = r
      BY <2>1, <3>2, <3>5 DEF QueueInv
    <3>. QED BY <3>3, <3>4, <3>6 DEF QueueInv, Active, SameKey
  <2>. QED BY <2>2, <2>3
<1>. QED BY <1>1, <1>2

-----------------------------------------------------------------------------
(* First jobs. *)

\* A task that names no job is new, or named none before; no job and no dispatcher comes
\* to it with another one.
LEMMA FirstKept ==
  ASSUME ProvInv, FirstJobs, retried \subseteq retried', SameJobs \/ jobs' = jobs,
         \A k \in DOMAIN tasks' \ retried' :
           tasks'[k].job = 0 => k \notin DOMAIN tasks \/ tasks[k].job = 0,
         \A d \in Dispatchers : disp'[d].step = "pending" =>
           \/ disp'[d] = disp[d]
           \/ disp'[d].task \in DOMAIN tasks /\ disp'[d].job = tasks[disp'[d].task].job
  PROVE  FirstJobs'
<1>. SUFFICES ASSUME NEW k \in DOMAIN tasks' \ retried', tasks'[k].job = 0
              PROVE  /\ \A j \in DOMAIN jobs' : jobs'[j].task = k => jobs'[j].prev = 0
                     /\ \A d \in Dispatchers : disp'[d].step = "pending" /\ disp'[d].task = k
                                                 => disp'[d].job = 0
  BY DEF FirstJobs
<1>1. /\ DOMAIN jobs' = DOMAIN jobs
      /\ \A j \in DOMAIN jobs : jobs'[j].task = jobs[j].task /\ jobs'[j].prev = jobs[j].prev
  BY DEF SameJobs
<1>2. CASE k \notin DOMAIN tasks
  <2>1. \A j \in DOMAIN jobs : jobs[j].task # k
    BY <1>2 DEF ProvInv, TypeOK
  <2>2. \A d \in Dispatchers : disp[d].step = "pending" => disp[d].task # k
    BY <1>2 DEF ProvInv, DispOK
  <2>. QED BY <1>1, <1>2, <2>1, <2>2
<1>3. CASE k \in DOMAIN tasks
  <2>1. k \in DOMAIN tasks \ retried /\ tasks[k].job = 0
    BY <1>3
  <2>. QED BY <1>1, <2>1 DEF FirstJobs
<1>. QED BY <1>2, <1>3

LEMMA FirstAdded ==
  ASSUME ProvInv, FirstJobs, NEW k \in Keys, NEW op \in Operations, tasks' = WithTask(tasks, k, op),
         jobs' = jobs, disp' = disp, retried' = retried
  PROVE  FirstJobs'
<1>1. DOMAIN tasks' = DOMAIN tasks \union {k} /\ \A x \in DOMAIN tasks : tasks'[x] = tasks[x]
  BY TaskAdded
<1>. QED BY <1>1, FirstKept

LEMMA FirstNext ==
  ASSUME ProvInv, FirstJobs, Next
  PROVE  FirstJobs'
<1>1. ASSUME NEW r \in Runners, Execute(r) \/ HandlerFails(r) PROVE FirstJobs'
  <2>1. SameTasks /\ SameJobs /\ disp' = disp /\ retried' = retried
    BY <1>1, RunnerFrame
  <2>. QED BY <2>1, FirstKept DEF SameTasks
<1>2. ASSUME NEW u \in Users, ProvisionOnDemand(u) PROVE FirstJobs'
  BY <1>2, DemandStep, FirstAdded DEF actors, Operations
<1>3. ASSUME NEW c \in captures, Capture(c) PROVE FirstJobs'
  <2>1. /\ jobs' = jobs /\ disp' = disp /\ retried' = retried /\ <<c.user, c.version>> \in Keys
        /\ tasks' = tasks \/ \E op \in Operations : tasks' = WithTask(tasks, <<c.user, c.version>>, op)
    BY <1>3, CaptureStep DEF actors
  <2>2. CASE tasks' = tasks
    BY <2>1, <2>2, FirstKept
  <2>3. CASE tasks' # tasks
    BY <2>1, <2>3, FirstAdded
  <2>. QED BY <2>2, <2>3
<1>4. CASE SavePlanned
  <2>1. jobs' = jobs /\ disp' = disp /\ retried' = retried
    BY <1>4, SaveStep
  <2>2. PICK p \in rec.plan :
          /\ <<p[1], rec.version>> \in Keys /\ p[2] \in Operations
          /\ tasks' = tasks \/ tasks' = WithTask(tasks, <<p[1], rec.version>>, p[2])
    BY <1>4, SaveStep
  <2>3. CASE tasks' = tasks
    BY <2>1, <2>3, FirstKept
  <2>4. CASE tasks' # tasks
    BY <2>1, <2>2, <2>4, FirstAdded
  <2>. QED BY <2>3, <2>4
<1>5. CASE SaveResyncTask
  <2>1. jobs' = jobs /\ disp' = disp /\ retried' = retried
    BY <1>5, ResyncTaskStep
  <2>2. PICK u \in admin.todo :
          <<u, resync.version>> \in Keys /\ tasks' = WithTask(tasks, <<u, resync.version>>, "update")
    BY <1>5, ResyncTaskStep
  <2>. QED BY <2>1, <2>2, FirstAdded DEF Operations
<1>6. ASSUME NEW d \in Dispatchers, ListDue(d) \/ ListPending(d) PROVE FirstJobs'
  <2>1. UNCHANGED <<tasks, jobs, retried>>
    BY <1>6, ListStep DEF store
  <2>2. PICK x \in DispRow :
          /\ disp' = [disp EXCEPT ![d] = x]
          /\ x.step = "pending" => x.task \in DOMAIN tasks /\ x.job = tasks[x.task].job
    BY <1>6, ListStep
  <2>3. disp'[d] = x /\ \A e \in Dispatchers : e # d => disp'[e] = disp[e]
    BY <2>2 DEF ProvInv, TypeOK
  <2>4. \A e \in Dispatchers : disp'[e].step = "pending" =>
          \/ disp'[e] = disp[e]
          \/ disp'[e].task \in DOMAIN tasks /\ disp'[e].job = tasks[disp'[e].task].job
    BY <2>2, <2>3
  <2>. QED BY <2>1, <2>4, FirstKept
<1>7. ASSUME NEW d \in Dispatchers, disp' = [disp EXCEPT ![d] = NoDisp]
      PROVE  \A e \in Dispatchers : disp'[e].step = "pending" => disp'[e] = disp[e]
  BY <1>7, EmptyRows DEF ProvInv, TypeOK
<1>8. ASSUME NEW d \in Dispatchers, Materialize(d) PROVE FirstJobs'
  <2>1. disp' = [disp EXCEPT ![d] = NoDisp] /\ UNCHANGED <<jobs, retried>> /\ disp[d].task \in Keys
    BY <1>8, MaterializeStep
  <2>2. tasks' = tasks \/ tasks' = WithTask(tasks, disp[d].task, "delete")
    BY <1>8, MaterializeStep
  <2>3. \A x \in DOMAIN tasks' : x \notin DOMAIN tasks \/ tasks'[x] = tasks[x]
    BY <2>1, <2>2, TaskAdded DEF Operations
  <2>. QED BY <1>7, <2>1, <2>3, FirstKept
<1>9. ASSUME NEW d \in Dispatchers, AttachJob(d) PROVE FirstJobs'
  <2>. DEFINE k == disp[d].task
              j == disp[d].job
  <2>1. /\ disp' = [disp EXCEPT ![d] = NoDisp] /\ UNCHANGED <<jobs, retried>>
        /\ j \in DOMAIN jobs /\ k \in DOMAIN tasks
    BY <1>9, AttachStep
  <2>2. tasks' = tasks \/ \E t \in TaskRow : tasks' = [tasks EXCEPT ![k] = t] /\ t.job = j
    BY <1>9, AttachStep
  <2>3. j # 0
    BY <2>1, Counts
  <2>. HIDE DEF k, j
  <2>4. \A x \in DOMAIN tasks' : tasks'[x].job = 0 => tasks[x].job = 0
    BY <2>2, <2>3
  <2>. QED BY <1>7, <2>1, <2>4, FirstKept
<1>10. ASSUME NEW d \in Dispatchers, EnqueueTask(d) PROVE FirstJobs'
  <2>1. tasks' = tasks /\ retried' = retried /\ disp[d].step = "pending"
    BY <1>10, EnqueueStep
  <2>2. \A e \in Dispatchers : disp'[e].step = "pending" => disp'[e] = disp[e]
    <3>1. \E x \in DispRow : disp' = [disp EXCEPT ![d] = x] /\ x.step # "pending"
      <4>1. CASE Enqueues(d)
        BY <4>1 DEF Enqueues
      <4>2. CASE disp' = [disp EXCEPT ![d] = NoDisp]
        BY <4>2, EmptyRows
      <4>. QED BY <1>10, <4>1, <4>2, EnqueueStep
    <3>. QED BY <3>1 DEF ProvInv, TypeOK
  <2>3. CASE jobs' = jobs
    BY <2>1, <2>2, <2>3, FirstKept
  <2>4. CASE jobs' # jobs
    <3>. DEFINE n == Len(jobs) + 1
    <3>1. /\ DOMAIN jobs' = DOMAIN jobs \union {n}
          /\ \A j \in DOMAIN jobs : jobs'[j] = jobs[j]
          /\ jobs'[n].task = disp[d].task /\ jobs'[n].prev = disp[d].job
      BY <1>10, <2>4, AddedJobs
    <3>. HIDE DEF n
    <3>. QED BY <2>1, <2>2, <3>1 DEF FirstJobs
  <2>. QED BY <2>3, <2>4
<1>11. ASSUME NEW k \in DOMAIN tasks, RetryTask(k) PROVE FirstJobs'
  <2>1. retried' = retried \union {k} /\ UNCHANGED <<jobs, disp>>
    BY <1>11, RetryStep DEF actors
  <2>2. \E t \in TaskRow : tasks' = [tasks EXCEPT ![k] = t]
    BY <1>11, RetryStep
  <2>. QED BY <2>1, <2>2, FirstKept
<1>12. CASE LoopFails
  <2>1. UNCHANGED <<tasks, jobs, retried>>
    BY <1>12, LoopStep DEF store
  <2>2. \A e \in Dispatchers : disp'[e].step = "pending" => disp'[e] = disp[e]
    BY <1>7, <1>12, LoopStep
  <2>. QED BY <2>1, <2>2, FirstKept
<1>13. ASSUME NEW u \in Users, ChangeUser(u) \/ ChangeAssignment(u) PROVE FirstJobs'
  <2>1. UNCHANGED <<tasks, jobs, disp, retried>>
    BY <1>13, ChangeStep DEF actors
  <2>. QED BY <2>1, FirstKept
<1>14. CASE \/ ReadLinks \/ Plan \/ QuarantineByGuard \/ BeginEdit \/ WriteEdit
            \/ StartFullResync \/ TallyResync \/ CompleteResync \/ Tick
  <2>1. UNCHANGED <<tasks, jobs, disp, retried>>
    BY <1>14, ReadLinksStep, PlanStep, GuardStep, EditStep, WriteStep, StartStep,
       TallyResyncStep, CompleteStep DEF store, Tick, actors
  <2>. QED BY <2>1, FirstKept
<1>. QED BY NextKinds, <1>1, <1>2, <1>3, <1>4, <1>5, <1>6, <1>8, <1>9, <1>10, <1>11, <1>12, <1>13, <1>14

-----------------------------------------------------------------------------
(* Tasks and who works on them. *)

\* Besides executions, only an attachment and a retry change a task.
LEMMA TasksFrame ==
  ASSUME ProvInv, Next, ~ \E r \in Runners : Execute(r) \/ HandlerFails(r)
  PROVE  \/ \A x \in DOMAIN tasks : x \in DOMAIN tasks' /\ tasks'[x] = tasks[x]
         \/ \E d \in Dispatchers : AttachJob(d)
         \/ \E k \in DOMAIN tasks : RetryTask(k)
<1>. DEFINE Same == \A x \in DOMAIN tasks : x \in DOMAIN tasks' /\ tasks'[x] = tasks[x]
<1>1. ASSUME NEW k \in Keys, NEW op \in Operations, tasks' = WithTask(tasks, k, op) PROVE Same
  BY <1>1 DEF WithTask
<1>2. ASSUME NEW u \in Users, ProvisionOnDemand(u) PROVE Same
  BY <1>1, <1>2, DemandStep DEF Operations
<1>3. ASSUME NEW c \in captures, Capture(c) PROVE Same
  <2>1. /\ <<c.user, c.version>> \in Keys
        /\ tasks' = tasks \/ \E op \in Operations : tasks' = WithTask(tasks, <<c.user, c.version>>, op)
    BY <1>3, CaptureStep
  <2>. QED BY <1>1, <2>1
<1>4. CASE SavePlanned
  <2>2. PICK p \in rec.plan :
          /\ <<p[1], rec.version>> \in Keys /\ p[2] \in Operations
          /\ tasks' = tasks \/ tasks' = WithTask(tasks, <<p[1], rec.version>>, p[2])
    BY <1>4, SaveStep
  <2>. QED BY <1>1, <2>2
<1>5. CASE SaveResyncTask
  <2>2. PICK u \in admin.todo :
          <<u, resync.version>> \in Keys /\ tasks' = WithTask(tasks, <<u, resync.version>>, "update")
    BY <1>5, ResyncTaskStep
  <2>. QED BY <1>1, <2>2 DEF Operations
<1>6. ASSUME NEW d \in Dispatchers, Materialize(d) PROVE Same
  <2>1. disp[d].task \in Keys /\ (tasks' = tasks \/ tasks' = WithTask(tasks, disp[d].task, "delete"))
    BY <1>6, MaterializeStep
  <2>. QED BY <1>1, <2>1 DEF Operations
<1>7. ASSUME NEW d \in Dispatchers, ListDue(d) \/ ListPending(d) \/ EnqueueTask(d) PROVE tasks' = tasks
  BY <1>7, ListStep, EnqueueStep DEF store
<1>8. ASSUME NEW u \in Users, ChangeUser(u) \/ ChangeAssignment(u) PROVE tasks' = tasks
  BY <1>8, ChangeStep
<1>9. ASSUME LoopFails \/ ReadLinks \/ Plan \/ QuarantineByGuard \/ BeginEdit \/ WriteEdit
             \/ StartFullResync \/ TallyResync \/ CompleteResync \/ Tick
      PROVE  tasks' = tasks
  BY <1>9, ReadLinksStep, PlanStep, GuardStep, EditStep, WriteStep, StartStep, LoopStep,
     TallyResyncStep, CompleteStep DEF store, Tick
<1>. QED BY NextKinds, <1>2, <1>3, <1>4, <1>5, <1>6, <1>7, <1>8, <1>9

\* A job keeps its key, and a retry is not forgotten.
LEMMA KeysKept ==
  ASSUME ProvInv, Next
  PROVE  /\ DOMAIN jobs \subseteq DOMAIN jobs' /\ retried \subseteq retried'
         /\ \A j \in DOMAIN jobs : jobs'[j].task = jobs[j].task /\ jobs'[j].prev = jobs[j].prev
<1>1. CASE \E r \in Runners : Execute(r) \/ HandlerFails(r)
  BY <1>1, RunnerFrame DEF SameJobs
<1>2. CASE ~ \E r \in Runners : Execute(r) \/ HandlerFails(r)
  <2>1. jobs' = jobs \/ \E d \in Dispatchers : EnqueueTask(d)
    BY <1>2, OthersFrame
  <2>2. /\ DOMAIN jobs \subseteq DOMAIN jobs'
        /\ \A j \in DOMAIN jobs : jobs'[j].task = jobs[j].task /\ jobs'[j].prev = jobs[j].prev
    BY <2>1, AddedJobs
  <2>3. retried \subseteq retried'
    BY <1>2, NextKinds, ChangeStep, DemandStep, CaptureStep, ReadLinksStep, PlanStep, SaveStep, GuardStep,
       ListStep, MaterializeStep, EnqueueStep, AttachStep, LoopStep, EditStep, WriteStep, StartStep,
       ResyncTaskStep, TallyResyncStep, CompleteStep, RetryStep DEF store, actors, Tick
  <2>. QED BY <2>2, <2>3
<1>. QED BY <1>1, <1>2

LEMMA RecalledStays ==
  ASSUME ProvInv, Next, NEW k, Recalled(k)
  PROVE  Recalled(k)'
BY KeysKept DEF Recalled

\* The jobs of a task that names none have one key.
LEMMA FirstKey ==
  ASSUME ProvInv, FirstJobs, NEW k \in DOMAIN tasks, ~ Recalled(k), tasks[k].job = 0,
         NEW j \in DOMAIN jobs, jobs[j].task = k
  PROVE  jobs[j].prev = 0
BY DEF FirstJobs, Recalled

\* Steps after which nobody works who did not, nobody has found a settled task to work on, and
\* the tasks worked on are as they were or start again.
LEMMA WorkKept ==
  ASSUME ProvInv, SoleWorkers, Next, late => late',
         \A s \in Runners : AtWork(s)' => AtWork(s) /\ run'[s].job = run[s].job,
         \A s \in Runners : AtWork(s)' /\ run[s].step = "load"
           => run'[s].step = "load" \/ tasks[TaskOf(s)].status \notin Terminal,
         \A j \in DOMAIN jobs : Active(j)' => Active(j),
         ~ late => \A s \in Runners : AtWork(s)' /\ ~ Recalled(TaskOf(s))
           => \/ tasks'[TaskOf(s)] = tasks[TaskOf(s)]
              \/ tasks'[TaskOf(s)].job = 0 /\ tasks'[TaskOf(s)].status \notin Terminal
  PROVE  SoleWorkers'
<1>. SUFFICES ASSUME ~ late' PROVE (OneExecutionPerTask /\ \A r \in Runners :
                                      AtWork(r) /\ ~ Recalled(TaskOf(r)) => Working(r))'
  BY DEF SoleWorkers
<1>1. ~ late
  OBVIOUS
<1>2. \A s \in Runners : AtWork(s) => run[s].job \in DOMAIN jobs /\ TaskOf(s) \in DOMAIN tasks
  BY InHand DEF AtWork
<1>3. \A s \in Runners : AtWork(s)' => AtWork(s) /\ TaskOf(s)' = TaskOf(s)
  BY <1>2, KeysKept DEF TaskOf
<1>4. \A s \in Runners : AtWork(s)' /\ ~ Recalled(TaskOf(s))' => ~ Recalled(TaskOf(s))
  <2>. SUFFICES ASSUME NEW s \in Runners, AtWork(s)', Recalled(TaskOf(s)) PROVE Recalled(TaskOf(s))'
    OBVIOUS
  <2>1. TaskOf(s)' = TaskOf(s)
    BY <1>3
  <2>. QED BY <2>1, KeysKept DEF Recalled
<1>5. OneExecutionPerTask'
  BY <1>1, <1>3, <1>4 DEF SoleWorkers, OneExecutionPerTask
<1>6. ASSUME NEW r \in Runners, AtWork(r)', ~ Recalled(TaskOf(r))' PROVE Working(r)'
  <2>1. /\ Working(r) /\ TaskOf(r)' = TaskOf(r) /\ run'[r].job = run[r].job
        /\ TaskOf(r) \in DOMAIN tasks /\ ~ Recalled(TaskOf(r))
    BY <1>1, <1>2, <1>3, <1>4, <1>6 DEF SoleWorkers
  <2>2. tasks[TaskOf(r)].job # 0 => tasks[TaskOf(r)].job \in DOMAIN jobs
    BY <2>1, Counts DEF ProvInv, TypeOK, TaskRow
  <2>3. tasks[TaskOf(r)].job \notin {0, run[r].job} => jobs'[tasks[TaskOf(r)].job].status = "ended"
    BY <2>1, <2>2 DEF Working, Active
  <2>4. run'[r].step # "load" => tasks[TaskOf(r)].status \notin Terminal
    BY <1>6, <2>1 DEF Working
  <2>5. CASE tasks'[TaskOf(r)] = tasks[TaskOf(r)]
    BY <2>1, <2>3, <2>4, <2>5 DEF Working, Active
  <2>6. CASE tasks'[TaskOf(r)].job = 0 /\ tasks'[TaskOf(r)].status \notin Terminal
    BY <2>1, <2>6 DEF Working
  <2>. QED BY <1>1, <1>6, <2>1, <2>5, <2>6
<1>. QED BY <1>5, <1>6

\* A new execution is alone on its task: the job of another one would have the same key, or
\* would be the job that the task names.
LEMMA ClaimAlone ==
  ASSUME ProvInv, QueueInv, FirstJobs, SoleWorkers, Next, NEW r \in Runners, Claim(r)
  PROVE  SoleWorkers'
<1>. SUFFICES ASSUME ~ late' PROVE SoleWorkers'
  BY DEF SoleWorkers
<1>1. Claims(r) /\ run[r].step = "idle" /\ tasks' = tasks /\ retried' = retried
  BY ClaimKinds
<1>2. run \in [Runners -> RunRow]
  BY DEF ProvInv, TypeOK
<1>3. \A i \in DOMAIN jobs : Active(i)' => Active(i)
  BY RunnerQueue DEF Execute
<1>4. late => late'
  BY RunnerQueue DEF Execute
<1>5. CASE run' = run
  BY <1>1, <1>3, <1>4, <1>5, WorkKept DEF AtWork
<1>6. CASE run' # run
  <2>1. PICK j \in DOMAIN jobs, x \in RunRow :
          /\ Active(j) /\ late' = late /\ (jobs[j].status = "queued" \/ jobs[j].owner = None)
          /\ ~ Stale(j, tasks[jobs[j].task])
          /\ run' = [run EXCEPT ![r] = x] /\ x.job = j /\ x.step = "load"
    BY <1>1, <1>6 DEF Claims
  <2>. DEFINE k == jobs[j].task
              t == tasks[k]
  <2>2. k \in DOMAIN tasks
    BY DEF ProvInv, TypeOK
  <2>3. run'[r] = x /\ \A s \in Runners : s # r => run'[s] = run[s]
    BY <1>2, <2>1
  <2>4. TaskOf(r)' = k /\ run'[r].job = j
    BY <2>1, <2>3, KeysKept DEF TaskOf
  <2>5. \A s \in Runners : s # r /\ AtWork(s)' => AtWork(s) /\ TaskOf(s)' = TaskOf(s)
    <3>1. \A s \in Runners : AtWork(s) => run[s].job \in DOMAIN jobs
      BY InHand DEF AtWork
    <3>. QED BY <2>3, <3>1, KeysKept DEF TaskOf, AtWork
  <2>6. \A s \in Runners : s # r /\ AtWork(s)' /\ ~ Recalled(TaskOf(s))'
                             => ~ Recalled(TaskOf(s)) /\ Working(s)
    <3>. SUFFICES ASSUME NEW s \in Runners, s # r, AtWork(s)', ~ Recalled(TaskOf(s))'
                  PROVE  ~ Recalled(TaskOf(s)) /\ Working(s)
      OBVIOUS
    <3>1. ~ Recalled(TaskOf(s))
      BY <2>5, KeysKept DEF Recalled
    <3>. QED BY <2>1, <2>5, <3>1 DEF SoleWorkers
  <2>7. ASSUME NEW s \in Runners, s # r, AtWork(r)', AtWork(s)', TaskOf(s)' = k, ~ Recalled(TaskOf(s))'
        PROVE  FALSE
    <3>1. Working(s) /\ ~ Recalled(k) /\ TaskOf(s) = k /\ AtWork(s)
      BY <2>5, <2>6, <2>7
    <3>2. /\ jobs[run[s].job].owner = s /\ Active(run[s].job) /\ run[s].job \in DOMAIN jobs
          /\ jobs[run[s].job].status = "running" /\ s # None
      BY <2>1, <3>1, OneLease DEF AtWork
    <3>3. run[s].job # j
      BY <2>1, <3>2
    <3>4. CASE t.job = 0
      <4>1. jobs[j].prev = 0
        BY <2>2, <3>1, <3>4, FirstKey
      <4>2. jobs[run[s].job].prev = 0 /\ jobs[run[s].job].task = k
        BY <2>2, <3>1, <3>2, <3>4, FirstKey DEF TaskOf
      <4>. QED BY <2>1, <3>2, <3>3, <4>1, <4>2 DEF QueueInv, SameKey
    <3>5. CASE t.job # 0
      <4>1. t.job = j
        BY <2>1, <3>5 DEF Stale
      <4>. QED BY <2>1, <3>1, <3>3, <3>5, <4>1 DEF Working
    <3>. QED BY <3>4, <3>5
  <2>8. OneExecutionPerTask'
    <3>1. ASSUME NEW p \in Runners, NEW q \in Runners, p # q, AtWork(p)', AtWork(q)',
                 ~ Recalled(TaskOf(p))', TaskOf(p)' = TaskOf(q)'
          PROVE  FALSE
      <4>1. CASE p = r
        BY <2>4, <2>7, <3>1, <4>1 DEF Recalled
      <4>2. CASE q = r
        BY <2>4, <2>7, <3>1, <4>2
      <4>3. CASE p # r /\ q # r
        BY <2>1, <2>5, <2>6, <3>1, <4>3 DEF SoleWorkers, OneExecutionPerTask
      <4>. QED BY <4>1, <4>2, <4>3
    <3>. QED BY <3>1 DEF OneExecutionPerTask
  <2>9. ASSUME NEW s \in Runners, AtWork(s)', ~ Recalled(TaskOf(s))' PROVE Working(s)'
    <3>1. CASE s = r
      <4>1. run'[r].step = "load"
        BY <2>1, <2>3
      <4>2. t.job # 0 => t.status # "pending" /\ t.job = j
        BY <2>1 DEF Stale
      <4>. HIDE DEF t, k
      <4>3. tasks'[k] = t
        BY <1>1 DEF t
      <4>. QED BY <2>4, <3>1, <4>1, <4>2, <4>3 DEF Working
    <3>2. CASE s # r
      <4>1. Working(s) /\ TaskOf(s)' = TaskOf(s) /\ run'[s] = run[s] /\ AtWork(s)
        BY <2>3, <2>5, <2>6, <2>9, <3>2
      <4>2. TaskOf(s) \in DOMAIN tasks
        BY <4>1, InHand DEF AtWork
      <4>3. tasks[TaskOf(s)].job # 0 => tasks[TaskOf(s)].job \in DOMAIN jobs
        BY <4>2, Counts DEF ProvInv, TypeOK, TaskRow
      <4>4. tasks[TaskOf(s)].job \notin {0, run[s].job} => ~ Active(tasks[TaskOf(s)].job)'
        BY <1>1, <1>3, <4>1, <4>3 DEF Working
      <4>. QED BY <1>1, <4>1, <4>4 DEF Working, Active
    <3>. QED BY <3>1, <3>2
  <2>. QED BY <2>8, <2>9 DEF SoleWorkers
<1>. QED BY <1>5, <1>6

\* A job that is attached to a task somebody works on has ended, or is the one worked on.
LEMMA AttachAlone ==
  ASSUME ProvInv, QueueInv, FirstJobs, SoleWorkers, Next, NEW d \in Dispatchers, AttachJob(d)
  PROVE  SoleWorkers'
<1>. DEFINE k == disp[d].task
            j == disp[d].job
<1>1. /\ j \in DOMAIN jobs /\ jobs[j].task = k /\ k \in DOMAIN tasks
      /\ UNCHANGED <<jobs, run, retried, late>>
      /\ \/ tasks' = tasks
         \/ \E t \in TaskRow :
              /\ Attachable(k, jobs[j].prev) /\ tasks' = [tasks EXCEPT ![k] = t]
              /\ t.job = j /\ t.status = "in_flight"
  BY AttachStep
<1>. HIDE DEF k, j
<1>2. CASE tasks' = tasks
  BY <1>1, <1>2, WorkKept DEF AtWork, Active
<1>3. CASE tasks' # tasks
  <2>. SUFFICES ASSUME ~ late PROVE SoleWorkers'
    BY <1>1 DEF SoleWorkers
  <2>1. PICK t \in TaskRow : /\ Attachable(k, jobs[j].prev) /\ tasks' = [tasks EXCEPT ![k] = t]
                             /\ t.job = j /\ t.status = "in_flight"
    BY <1>1, <1>3
  <2>2. tasks'[k] = t /\ \A x \in DOMAIN tasks : x # k => tasks'[x] = tasks[x]
    BY <1>1, <2>1
  <2>3. OneExecutionPerTask'
    BY <1>1 DEF SoleWorkers, OneExecutionPerTask, AtWork, TaskOf, Recalled
  <2>4. ASSUME NEW s \in Runners, AtWork(s)', ~ Recalled(TaskOf(s))' PROVE Working(s)'
    <3>1. AtWork(s) /\ ~ Recalled(TaskOf(s)) /\ TaskOf(s)' = TaskOf(s) /\ run'[s] = run[s]
      BY <1>1, <2>4 DEF AtWork, Recalled, TaskOf
    <3>2. Working(s) /\ TaskOf(s) \in DOMAIN tasks
      BY <2>4, <3>1, InHand DEF SoleWorkers, AtWork
    <3>3. CASE TaskOf(s) # k
      BY <1>1, <2>2, <3>1, <3>2, <3>3 DEF Working, Active
    <3>4. CASE TaskOf(s) = k
      <4>1. tasks[k].job = 0 /\ jobs[j].prev = 0
        BY <2>1, <3>2, <3>4 DEF Working, Attachable
      <4>2. Active(run[s].job) /\ run[s].job \in DOMAIN jobs
        BY <3>1, OneLease DEF AtWork
      <4>3. jobs[run[s].job].task = k /\ jobs[run[s].job].prev = 0
        BY <1>1, <3>1, <3>4, <4>1, <4>2, FirstKey DEF TaskOf
      <4>4. run[s].job # j => ~ Active(j)
        BY <1>1, <4>1, <4>2, <4>3 DEF QueueInv, SameKey
      <4>5. t.status \notin Terminal /\ t.status # "pending"
        BY <2>1 DEF Terminal
      <4>. QED BY <1>1, <2>1, <2>2, <3>1, <3>4, <4>4, <4>5 DEF Working, Active
    <3>. QED BY <3>3, <3>4
  <2>. QED BY <2>3, <2>4 DEF SoleWorkers
<1>. QED BY <1>2, <1>3

\* The other steps: who settles a task, suspends it or retries it is not in the way of
\* another one who works on it.
LEMMA SoleNext ==
  ASSUME ProvInv, QueueInv, FirstJobs, SoleWorkers, Next
  PROVE  SoleWorkers'
<1>1. run \in [Runners -> RunRow]
  BY DEF ProvInv, TypeOK
<1>2. \A s \in Runners : AtWork(s) => run[s].step # "idle" /\ run[s].job \in DOMAIN jobs
                                      /\ TaskOf(s) \in DOMAIN tasks
  BY InHand DEF AtWork
<1>3. ASSUME NEW r \in Runners, Execute(r) \/ HandlerFails(r), ~ Claim(r) PROVE SoleWorkers'
  <2>1. (\A i \in DOMAIN jobs : Active(i)' => Active(i)) /\ (late => late')
    BY <1>3, RunnerQueue
  <2>2. CASE Suspend(r)
    <3>1. /\ run' = [run EXCEPT ![r] = NoRun] /\ run[r].step = "suspend"
          /\ \/ tasks' = tasks
             \/ /\ tasks[TaskOf(r)].status = "in_flight" /\ tasks[TaskOf(r)].job = run[r].job
                /\ tasks' = [tasks EXCEPT ![TaskOf(r)].status = "pending"]
      BY <2>2, SuspendStep DEF Leaves
    <3>2. \A s \in Runners : AtWork(s)' => s # r /\ AtWork(s) /\ run'[s] = run[s]
      BY <1>1, <3>1, EmptyRows DEF AtWork
    <3>3. ASSUME ~ late, NEW s \in Runners, AtWork(s)', ~ Recalled(TaskOf(s))
          PROVE  tasks'[TaskOf(s)] = tasks[TaskOf(s)]
      <4>1. CASE tasks' = tasks
        BY <4>1
      <4>2. CASE tasks' # tasks
        <5>1. Working(s) /\ run[s].job # run[r].job /\ Active(run[r].job)
          BY <1>2, <3>1, <3>2, <3>3, OneLease DEF SoleWorkers
        <5>2. run[r].job # 0
          BY <3>1, InHand, Counts
        <5>3. TaskOf(s) # TaskOf(r)
          BY <3>1, <4>2, <5>1, <5>2 DEF Working
        <5>4. TaskOf(r) \in DOMAIN tasks
          BY <3>1, InHand
        <5>. QED BY <1>2, <3>1, <3>2, <3>3, <4>2, <5>3, <5>4, OneStatus
      <4>. QED BY <4>1, <4>2
    <3>. QED BY <2>1, <3>2, <3>3, WorkKept
  <2>3. CASE Works(r) /\ run[r].step # "idle"
    <3>1. \E x \in RunRow :
            /\ run' = [run EXCEPT ![r] = x]
            /\ x.step \in WorkSteps =>
                 /\ AtWork(r) /\ tasks' = tasks /\ x.job = run[r].job
                 /\ run[r].step = "load" => tasks[TaskOf(r)].status \notin Terminal
      <4>1. CASE Moves(r)
        BY <4>1 DEF Moves
      <4>2. CASE Leaves(r)
        BY <4>2, EmptyRows DEF Leaves, WorkSteps
      <4>. QED BY <2>3, <4>1, <4>2 DEF Works
    <3>2. /\ \A s \in Runners : AtWork(s)' => AtWork(s) /\ run'[s].job = run[s].job
          /\ AtWork(r)' => tasks' = tasks
          /\ \A s \in Runners : AtWork(s)' /\ run[s].step = "load"
               => run'[s].step = "load" \/ tasks[TaskOf(s)].status \notin Terminal
      BY <1>1, <3>1 DEF AtWork, WorkSteps
    <3>3. ASSUME ~ late, NEW s \in Runners, AtWork(s)', ~ Recalled(TaskOf(s))
          PROVE  tasks'[TaskOf(s)] = tasks[TaskOf(s)]
      <4>1. CASE tasks' = tasks
        BY <4>1
      <4>2. CASE tasks' # tasks
        <5>1. PICK st \in Terminal : AtWork(r) /\ tasks' = [tasks EXCEPT ![TaskOf(r)].status = st]
          BY <2>3, <4>2 DEF Works, Settles
        <5>2. s # r /\ AtWork(s)
          BY <3>2, <3>3, <4>2
        <5>3. TaskOf(s) # TaskOf(r)
          BY <3>3, <5>1, <5>2 DEF SoleWorkers, OneExecutionPerTask
        <5>4. TaskOf(r) \in DOMAIN tasks /\ TaskOf(s) \in DOMAIN tasks
          BY <1>2, <5>1, <5>2
        <5>5. st \in Terminal \union {"pending", "in_flight"}
          BY <5>1
        <5>. QED BY <5>1, <5>3, <5>4, <5>5, OneStatus
      <4>. QED BY <4>1, <4>2
    <3>. QED BY <2>1, <3>2, <3>3, WorkKept
  <2>. QED BY <1>3, <2>2, <2>3, ExecutionKinds
<1>4. ASSUME ~ \E r \in Runners : Execute(r) \/ HandlerFails(r) PROVE SoleWorkers'
  <2>1. run' = run /\ late' = late /\ (jobs' = jobs \/ \E d \in Dispatchers : EnqueueTask(d))
    BY <1>4, OthersFrame
  <2>2. \A j \in DOMAIN jobs : jobs'[j] = jobs[j]
    BY <2>1, AddedJobs
  <2>3. \A j \in DOMAIN jobs : Active(j)' => Active(j)
    BY <2>2 DEF Active
  <2>4. \A s \in Runners : AtWork(s)' => AtWork(s) /\ run'[s] = run[s]
    BY <2>1 DEF AtWork
  <2>5. CASE \A x \in DOMAIN tasks : x \in DOMAIN tasks' /\ tasks'[x] = tasks[x]
    BY <1>2, <2>1, <2>3, <2>4, <2>5, WorkKept
  <2>6. ASSUME NEW k \in DOMAIN tasks, RetryTask(k) PROVE SoleWorkers'
    <3>1. \E t \in TaskRow : tasks' = [tasks EXCEPT ![k] = t] /\ t.job = 0 /\ t.status = "pending"
      BY <2>6, RetryStep
    <3>2. ASSUME NEW s \in Runners, AtWork(s)'
          PROVE  \/ tasks'[TaskOf(s)] = tasks[TaskOf(s)]
                 \/ tasks'[TaskOf(s)].job = 0 /\ tasks'[TaskOf(s)].status \notin Terminal
      <4>1. TaskOf(s) \in DOMAIN tasks
        BY <1>2, <2>4, <3>2
      <4>. QED BY <3>1, <4>1 DEF Terminal
    <3>. QED BY <2>1, <2>3, <2>4, <3>2, WorkKept
  <2>. QED BY <1>4, <2>5, <2>6, TasksFrame, AttachAlone
<1>. QED BY <1>3, <1>4, ClaimAlone

LEMMA WorkInit == Init => WorkInv
BY EmptyRows DEF Init, WorkInv, QueueInv, FirstJobs, SoleWorkers, OneExecutionPerTask, AtWork

LEMMA WorkStutter ==
  ASSUME WorkInv, UNCHANGED vars
  PROVE  WorkInv'
<1>1. UNCHANGED <<tasks, jobs, disp, run, retried, late>>
  BY DEF vars, store, actors
<1>2. QueueInv'
  BY <1>1 DEF WorkInv, QueueInv, Active, SameKey
<1>3. FirstJobs'
  BY <1>1 DEF WorkInv, FirstJobs
<1>4. OneExecutionPerTask' <=> OneExecutionPerTask
  BY <1>1 DEF OneExecutionPerTask, AtWork, TaskOf, Recalled
<1>5. ASSUME NEW r \in Runners
      PROVE  /\ Working(r)' <=> Working(r)
             /\ AtWork(r)' /\ ~ Recalled(TaskOf(r))' <=> AtWork(r) /\ ~ Recalled(TaskOf(r))
  BY <1>1 DEF Working, AtWork, TaskOf, Recalled, Active
<1>6. SoleWorkers'
  BY <1>1, <1>4, <1>5 DEF WorkInv, SoleWorkers
<1>. QED BY <1>2, <1>3, <1>6 DEF WorkInv

LEMMA Worked == Spec => [](ProvInv /\ WorkInv)
<1>1. ProvInv /\ WorkInv /\ Next => WorkInv'
  BY QueueNext, FirstNext, SoleNext DEF WorkInv
<1>2. ProvInv /\ WorkInv /\ [Next]_vars => (ProvInv /\ WorkInv)'
  BY <1>1, ProvNext, ProvStutter, WorkStutter
<1>. QED BY <1>2, ProvInit, WorkInit, PTL DEF Spec

\* OneExecutionPerTask: however many dispatchers give tasks jobs and runners execute them,
\* and wherever a quarantine, a retry or an error comes between, no two executions send the
\* same task while leases hold.
THEOREM OneAtATime == Spec => []OneExecutionPerTask
<1>1. ProvInv /\ WorkInv => OneExecutionPerTask
  BY DEF WorkInv, SoleWorkers, OneExecutionPerTask
<1>. QED BY <1>1, Worked, PTL

\* A task that has succeeded is neither attached, retried, suspended nor settled again, unless
\* it is given up unread.
LEMMA SuccessNext ==
  ASSUME ProvInv, WorkInv, Next, ~ late, NEW k \in DOMAIN tasks, tasks[k].status = "succeeded",
         ~ Recalled(k)
  PROVE  tasks'[k].status = "succeeded" \/ GivesUpUnread(k)
<1>1. ASSUME NEW r \in Runners, Execute(r) \/ HandlerFails(r), tasks' # tasks
      PROVE  tasks'[k].status = "succeeded" \/ GivesUpUnread(k)
  <2>1. CASE Claim(r)
    BY <1>1, <2>1, ClaimKinds
  <2>2. CASE Suspend(r)
    <3>1. /\ tasks[TaskOf(r)].status = "in_flight" /\ run[r].step # "idle"
          /\ tasks' = [tasks EXCEPT ![TaskOf(r)].status = "pending"]
      BY <1>1, <2>2, SuspendStep
    <3>2. TaskOf(r) \in DOMAIN tasks /\ k # TaskOf(r)
      BY <3>1, InHand
    <3>. QED BY <3>1, <3>2, OneStatus
  <2>3. CASE Works(r) /\ run[r].step # "idle"
    <3>1. PICK st \in Terminal :
            /\ AtWork(r) /\ tasks' = [tasks EXCEPT ![TaskOf(r)].status = st]
            /\ run[r].step = "load" => st = "dead_letter" /\ run[r].attempt >= MaxAttempts
      BY <1>1, <2>3 DEF Works, Settles
    <3>2. TaskOf(r) \in DOMAIN tasks
      BY <2>3, InHand
    <3>3. k = TaskOf(r) => run[r].step = "load"
      BY <3>1 DEF WorkInv, SoleWorkers, Working, Terminal
    <3>4. st \in Terminal \union {"pending", "in_flight"}
      BY <3>1
    <3>5. CASE k = TaskOf(r)
      <4>1. tasks[k] \in TaskRow
        BY DEF ProvInv, TypeOK
      <4>2. tasks'[k].status = "dead_letter"
        BY <3>1, <3>2, <3>3, <3>5, <4>1 DEF TaskRow
      <4>. QED BY <3>1, <3>3, <3>5, <4>2 DEF GivesUpUnread
    <3>6. CASE k # TaskOf(r)
      BY <3>1, <3>2, <3>4, <3>6, OneStatus
    <3>. QED BY <3>5, <3>6
  <2>. QED BY <1>1, <2>1, <2>2, <2>3, ExecutionKinds
<1>2. CASE ~ \E r \in Runners : Execute(r) \/ HandlerFails(r)
  <2>1. ASSUME NEW d \in Dispatchers, AttachJob(d) PROVE tasks'[k].status = "succeeded"
    <3>1. \/ tasks' = tasks
          \/ \E t \in TaskRow : /\ tasks[disp[d].task].status = "pending"
                                /\ tasks' = [tasks EXCEPT ![disp[d].task] = t]
      BY <2>1, AttachStep DEF Attachable
    <3>. QED BY <3>1
  <2>2. ASSUME NEW x \in DOMAIN tasks, RetryTask(x) PROVE tasks'[k].status = "succeeded"
    <3>1. tasks[x].status = "dead_letter" /\ \E t \in TaskRow : tasks' = [tasks EXCEPT ![x] = t]
      BY <2>2, RetryStep
    <3>. QED BY <3>1
  <2>. QED BY <1>2, <2>1, <2>2, TasksFrame
<1>. QED BY <1>1, <1>2

\* SucceededIsFinal: no late dispatcher, stale job or retry sends a task again that has
\* succeeded, while leases hold; it is given up only by a repeated execution that fails to read
\* it at the last attempt.
THEOREM SuccessStands == Spec => SucceededIsFinal
<1>1. ProvInv /\ WorkInv /\ [Next]_vars =>
        [\A k \in DOMAIN tasks :
           tasks[k].status = "succeeded"
             => late \/ Recalled(k) \/ tasks'[k].status = "succeeded" \/ GivesUpUnread(k)]_vars
  BY SuccessNext
<1>. QED BY <1>1, Worked, PTL DEF Spec, SucceededIsFinal

-----------------------------------------------------------------------------
(* Full resync. *)

\* A task that has ended stays so, but for a retry.
LEMMA EndedStays ==
  ASSUME ProvInv, Next, NEW k \in DOMAIN tasks
  PROVE  /\ k \in DOMAIN tasks'
         /\ tasks[k].status \in Terminal => tasks'[k].status \in Terminal \/ k \in retried'
<1>1. ASSUME NEW r \in Runners, Execute(r) \/ HandlerFails(r), tasks' # tasks
      PROVE  /\ k \in DOMAIN tasks'
             /\ tasks[k].status \in Terminal => tasks'[k].status \in Terminal
  <2>1. CASE Claim(r)
    BY <1>1, <2>1, ClaimKinds
  <2>2. CASE Suspend(r)
    <3>1. /\ tasks[TaskOf(r)].status = "in_flight" /\ run[r].step # "idle"
          /\ tasks' = [tasks EXCEPT ![TaskOf(r)].status = "pending"]
      BY <1>1, <2>2, SuspendStep
    <3>2. TaskOf(r) \in DOMAIN tasks
      BY <3>1, InHand
    <3>3. SameTasks /\ \A x \in DOMAIN tasks : x # TaskOf(r) => tasks'[x] = tasks[x]
      BY <3>1, <3>2, OneStatus
    <3>4. tasks[k].status \in Terminal => k # TaskOf(r)
      BY <3>1 DEF Terminal
    <3>. QED BY <3>3, <3>4 DEF SameTasks
  <2>3. CASE Works(r) /\ run[r].step # "idle"
    <3>1. PICK st \in Terminal : tasks' = [tasks EXCEPT ![TaskOf(r)].status = st]
      BY <1>1, <2>3 DEF Works, Settles
    <3>2. TaskOf(r) \in DOMAIN tasks
      BY <2>3, InHand
    <3>3. st \in Terminal \union {"pending", "in_flight"}
      BY <3>1
    <3>4. /\ SameTasks /\ tasks'[TaskOf(r)].status = st
          /\ \A x \in DOMAIN tasks : x # TaskOf(r) => tasks'[x] = tasks[x]
      BY <3>1, <3>2, <3>3, OneStatus
    <3>. QED BY <3>1, <3>4 DEF SameTasks
  <2>. QED BY <1>1, <2>1, <2>2, <2>3, ExecutionKinds
<1>2. CASE ~ \E r \in Runners : Execute(r) \/ HandlerFails(r)
  <2>1. ASSUME NEW d \in Dispatchers, AttachJob(d)
        PROVE  /\ k \in DOMAIN tasks'
               /\ tasks[k].status \in Terminal => tasks'[k].status \in Terminal
    <3>1. \/ tasks' = tasks
          \/ \E t \in TaskRow : /\ tasks[disp[d].task].status = "pending"
                                /\ tasks' = [tasks EXCEPT ![disp[d].task] = t]
      BY <2>1, AttachStep DEF Attachable
    <3>. QED BY <3>1 DEF Terminal
  <2>2. ASSUME NEW x \in DOMAIN tasks, RetryTask(x)
        PROVE  /\ k \in DOMAIN tasks'
               /\ tasks[k].status \in Terminal => tasks'[k].status \in Terminal \/ k \in retried'
    <3>1. retried' = retried \union {x} /\ \E t \in TaskRow : tasks' = [tasks EXCEPT ![x] = t]
      BY <2>2, RetryStep
    <3>. QED BY <3>1
  <2>. QED BY <1>2, <2>1, <2>2, TasksFrame
<1>. QED BY <1>1, <1>2

\* The numbers of a full resync.
LEMMA ResyncNumbers ==
  ASSUME ProvInv, ResyncInv
  PROVE  /\ Cardinality(resync.members) \in Nat /\ resync.total \in Nat
         /\ IsFiniteSet(admin.todo) /\ Cardinality(admin.todo) \in Nat
         /\ Cardinality(resync.members) <= resync.total
<1>1. resync.total \in Nat /\ admin.todo \subseteq Users
  BY DEF ProvInv, TypeOK, ResyncRow, AdminRow
<1>2. IsFiniteSet(admin.todo) /\ Cardinality(admin.todo) \in Nat
  BY <1>1, Numbers, FS_Subset, FS_CardinalityType
<1>3. Cardinality(resync.members) \in Nat
  BY FS_CardinalityType DEF ResyncInv
<1>. QED BY <1>1, <1>2, <1>3 DEF ResyncInv

\* As many tasks have ended as there were subjects: there is one for each of them.
LEMMA EndedIsDone ==
  ASSUME ProvInv, ResyncInv, AllEnded
  PROVE  Done
<1>. DEFINE S == {k \in resync.members : tasks[k].status \in Terminal}
<1>1. S \subseteq resync.members /\ IsFiniteSet(resync.members)
  BY DEF ResyncInv
<1>2. Cardinality(S) = resync.total
  BY DEF AllEnded
<1>3. \A k \in S : tasks[k].status \in Terminal
  OBVIOUS
<1>. HIDE DEF S
<1>4. /\ Cardinality(S) \in Nat /\ Cardinality(S) <= Cardinality(resync.members)
      /\ Cardinality(S) = Cardinality(resync.members) => S = resync.members
  BY <1>1, FS_Subset, FS_CardinalityType
<1>5. Cardinality(S) = Cardinality(resync.members)
  BY <1>2, <1>4, ResyncNumbers
<1>. QED BY <1>2, <1>3, <1>4, <1>5 DEF Done

\* Steps that give the full resync no task and find it done before they complete it.
LEMMA ResyncKept ==
  ASSUME ProvInv, ResyncInv, Next,
         resync'.members = resync.members, resync'.total = resync.total,
         \/ resync'.status = resync.status /\ resync'.completions = resync.completions
         \/ /\ Completing /\ resync.status = "running" /\ resync'.status = "completed"
            /\ resync'.completions = resync.completions + 1,
         admin'.step = "tasks" => admin.step = "tasks" /\ admin'.todo = admin.todo,
         Resyncing' => Resyncing,
         Completing' => Completing \/ (resync.status # "none" /\ AllEnded)
  PROVE  ResyncInv'
<1>1. resync'.members \subseteq DOMAIN tasks' /\ IsFiniteSet(resync'.members)
  BY EndedStays DEF ResyncInv
<1>2. resync'.completions = IF resync'.status = "completed" THEN 1 ELSE 0
  BY DEF ResyncInv
<1>3. Cardinality(resync'.members) + (IF admin'.step = "tasks" THEN Cardinality(admin'.todo) ELSE 0)
        <= resync'.total
  <2>1. CASE admin'.step = "tasks"
    BY <2>1 DEF ResyncInv
  <2>2. CASE admin'.step # "tasks"
    BY <2>2, ResyncNumbers
  <2>. QED BY <2>1, <2>2
<1>4. resync'.status = "none" => resync'.members = {} /\ ~ Completing' /\ ~ Resyncing'
  BY DEF ResyncInv
<1>5. ASSUME Completing' \/ resync'.status = "completed" PROVE Done'
  <2>1. Done
    BY <1>5, EndedIsDone DEF ResyncInv
  <2>2. \A k \in resync.members : tasks'[k].status \in Terminal \/ k \in retried'
    BY <2>1, EndedStays, KeysKept DEF Done, ResyncInv
  <2>. QED BY <2>1, <2>2 DEF Done
<1>. QED BY <1>1, <1>2, <1>3, <1>4, <1>5 DEF ResyncInv

\* Executions: one goes on to complete the full resync only after it has counted.
LEMMA ResyncRunner ==
  ASSUME ProvInv, ResyncInv, Next, NEW r \in Runners, Execute(r) \/ HandlerFails(r)
  PROVE  ResyncInv'
<1>1. run \in [Runners -> RunRow]
  BY DEF ProvInv, TypeOK
<1>2. admin' = admin /\ resync'.members = resync.members /\ resync'.total = resync.total
  BY RunnerFrame
<1>3. ASSUME NEW x \in RunRow, run' = [run EXCEPT ![r] = x],
             x.step = "complete" => resync.status # "none" /\ AllEnded
      PROVE  Completing' => Completing \/ (resync.status # "none" /\ AllEnded)
  <2>1. \A s \in Runners : run'[s].step = "complete" =>
          run[s].step = "complete" \/ (resync.status # "none" /\ AllEnded)
    BY <1>1, <1>3
  <2>. QED BY <1>2, <2>1 DEF Completing
<1>4. CASE Claim(r)
  <2>1. Claims(r) /\ resync' = resync
    BY <1>4, ClaimKinds
  <2>2. run' = run \/ \E x \in RunRow : run' = [run EXCEPT ![r] = x] /\ x.step # "complete"
    BY <2>1 DEF Claims
  <2>3. Completing' => Completing \/ (resync.status # "none" /\ AllEnded)
    <3>1. CASE run' = run
      BY <1>2, <3>1 DEF Completing
    <3>2. CASE run' # run
      BY <1>3, <2>2, <3>2
    <3>. QED BY <3>1, <3>2
  <2>. QED BY <1>2, <2>1, <2>3, ResyncKept DEF Resyncing
<1>5. CASE Suspend(r)
  <2>1. run' = [run EXCEPT ![r] = NoRun] /\ resync' = resync
    BY <1>5, SuspendStep DEF Leaves
  <2>2. Completing' => Completing \/ (resync.status # "none" /\ AllEnded)
    BY <1>3, <2>1, EmptyRows
  <2>. QED BY <1>2, <2>1, <2>2, ResyncKept DEF Resyncing
<1>6. CASE Works(r) /\ run[r].step # "idle"
  <2>1. \E x \in RunRow : /\ run' = [run EXCEPT ![r] = x]
                          /\ x.step = "complete" => resync.status # "none" /\ AllEnded
    <3>1. CASE Moves(r)
      BY <3>1 DEF Moves
    <3>2. CASE Leaves(r)
      BY <3>2, EmptyRows DEF Leaves
    <3>. QED BY <1>6, <3>1, <3>2 DEF Works
  <2>2. Completing' => Completing \/ (resync.status # "none" /\ AllEnded)
    BY <1>3, <2>1
  <2>3. \/ resync' = resync
        \/ run[r].step = "complete" /\ resync' = Completed(resync.total)
    BY <1>6 DEF Works, Stores
  <2>4. \/ resync'.status = resync.status /\ resync'.completions = resync.completions
        \/ /\ Completing /\ resync.status = "running" /\ resync'.status = "completed"
           /\ resync'.completions = resync.completions + 1
    BY <2>3, CompletedRow DEF Completing
  <2>. QED BY <1>2, <2>2, <2>4, ResyncKept DEF Resyncing
<1>. QED BY <1>4, <1>5, <1>6, ExecutionKinds

\* A subject is given its task: one more task, one subject less.
LEMMA ResyncGrows ==
  ASSUME ProvInv, ResyncInv, Next, SaveResyncTask
  PROVE  ResyncInv'
<1>1. admin.step = "tasks" /\ UNCHANGED <<run, retried>>
  BY ResyncTaskStep
<1>2. PICK u \in admin.todo :
        /\ <<u, resync.version>> \in Keys
        /\ tasks' = WithTask(tasks, <<u, resync.version>>, "update")
        /\ \/ resync' = resync
           \/ /\ resync'.members = resync.members \union {<<u, resync.version>>}
              /\ resync'.total = resync.total /\ resync'.status = resync.status
              /\ resync'.completions = resync.completions
        /\ admin'.step \in {"tasks", "write"} /\ admin'.op = admin.op /\ admin'.todo = admin.todo \ {u}
  BY ResyncTaskStep
<1>. DEFINE k == <<u, resync.version>>
<1>3. k \in DOMAIN tasks' /\ DOMAIN tasks \subseteq DOMAIN tasks'
  BY <1>2 DEF WithTask
<1>. HIDE DEF k
<1>4. /\ resync'.members \subseteq resync.members \union {k} /\ resync'.total = resync.total
      /\ resync'.status = resync.status /\ resync'.completions = resync.completions
      /\ resync'.members = resync.members \/ resync'.members = resync.members \union {k}
  BY <1>2 DEF k
<1>5. resync'.members \subseteq DOMAIN tasks'
  BY <1>3, <1>4 DEF ResyncInv
<1>6. /\ IsFiniteSet(resync'.members) /\ Cardinality(resync'.members) \in Nat
      /\ Cardinality(resync'.members) <= Cardinality(resync.members) + 1
  <2>1. IsFiniteSet(resync.members) /\ Cardinality(resync.members) \in Nat
    BY ResyncNumbers DEF ResyncInv
  <2>2. /\ IsFiniteSet(resync.members \union {k})
        /\ Cardinality(resync.members \union {k}) \in Nat
        /\ Cardinality(resync.members \union {k}) <= Cardinality(resync.members) + 1
    BY <2>1, FS_AddElement
  <2>3. CASE resync'.members = resync.members
    BY <2>1, <2>3
  <2>4. CASE resync'.members = resync.members \union {k}
    BY <2>2, <2>4
  <2>. QED BY <1>4, <2>3, <2>4
<1>7. Cardinality(admin'.todo) = Cardinality(admin.todo) - 1 /\ Cardinality(admin.todo) \in Nat
      /\ Cardinality(admin'.todo) \in Nat
  <2>1. IsFiniteSet(admin.todo) /\ Cardinality(admin.todo) \in Nat
    BY ResyncNumbers
  <2>2. IsFiniteSet(admin.todo \ {u}) /\ Cardinality(admin.todo \ {u}) = Cardinality(admin.todo) - 1
    BY <1>2, <2>1, FS_RemoveElement
  <2>3. Cardinality(admin.todo \ {u}) \in Nat
    BY <2>2, FS_CardinalityType
  <2>. QED BY <1>2, <2>1, <2>2, <2>3
<1>8. Cardinality(resync.members) + Cardinality(admin.todo) <= resync.total
  BY <1>1 DEF ResyncInv
<1>9. Cardinality(resync'.members) + (IF admin'.step = "tasks" THEN Cardinality(admin'.todo) ELSE 0)
        <= resync'.total
  BY <1>4, <1>6, <1>7, <1>8, ResyncNumbers
<1>10. ~ Completing /\ resync.status # "completed"
  <2>1. ~ Done
    BY <1>7, <1>8, ResyncNumbers DEF Done
  <2>. QED BY <2>1 DEF ResyncInv
<1>11. ~ Completing'
  BY <1>1, <1>2, <1>10 DEF Completing
<1>12. resync.status # "none"
  BY <1>1 DEF ResyncInv, Resyncing
<1>13. resync'.completions = IF resync'.status = "completed" THEN 1 ELSE 0
  BY <1>4 DEF ResyncInv
<1>. QED BY <1>4, <1>5, <1>6, <1>9, <1>10, <1>11, <1>12, <1>13 DEF ResyncInv

\* The subjects are counted.
LEMMA ResyncStarts ==
  ASSUME ProvInv, ResyncInv, StartFullResync
  PROVE  ResyncInv'
<1>1. /\ admin.step = "idle" /\ resync.status = "none" /\ resync'.status = "running"
      /\ resync'.members = resync.members /\ resync'.completions = resync.completions
      /\ resync'.total = Cardinality(admin'.todo) /\ admin'.todo \subseteq Users
      /\ admin'.step \in {"tasks", "write"}
      /\ UNCHANGED <<tasks, run, retried>>
  BY StartStep
<1>2. resync.members = {} /\ ~ Completing /\ resync.completions = 0
  BY <1>1 DEF ResyncInv
<1>3. Cardinality(admin'.todo) \in Nat
  BY <1>1, Numbers, FS_Subset, FS_CardinalityType
<1>4. Cardinality(resync'.members) = 0 /\ IsFiniteSet(resync'.members)
  BY <1>1, <1>2, FS_EmptySet
<1>5. ~ Completing'
  BY <1>1, <1>2 DEF Completing
<1>. QED BY <1>1, <1>2, <1>3, <1>4, <1>5 DEF ResyncInv

LEMMA ResyncNext ==
  ASSUME ProvInv, ResyncInv, Next
  PROVE  ResyncInv'
<1>1. ASSUME resync' = resync, run' = run, admin' = admin PROVE ResyncInv'
  BY <1>1, ResyncKept DEF Completing, Resyncing
<1>2. ASSUME NEW u \in Users, ChangeUser(u) \/ ChangeAssignment(u) \/ ProvisionOnDemand(u) PROVE ResyncInv'
  BY <1>1, <1>2, ChangeStep, DemandStep DEF actors
<1>3. ASSUME NEW c \in captures, Capture(c) PROVE ResyncInv'
  BY <1>1, <1>3, CaptureStep DEF actors
<1>4. CASE ReadLinks \/ Plan \/ SavePlanned \/ QuarantineByGuard \/ Tick
  BY <1>1, <1>4, ReadLinksStep, PlanStep, SaveStep, GuardStep DEF Tick, actors
<1>5. ASSUME NEW d \in Dispatchers,
             ListDue(d) \/ ListPending(d) \/ Materialize(d) \/ EnqueueTask(d) \/ AttachJob(d)
      PROVE  ResyncInv'
  BY <1>1, <1>5, ListStep, MaterializeStep, EnqueueStep, AttachStep
<1>6. CASE LoopFails
  <2>1. resync' = resync /\ run' = run /\ (admin' = admin \/ admin' = NoAdmin)
    BY <1>6, LoopStep
  <2>2. CASE admin' = admin
    BY <1>1, <2>1, <2>2
  <2>3. CASE admin' = NoAdmin
    BY <2>1, <2>3, EmptyRows, ResyncKept DEF Completing, Resyncing
  <2>. QED BY <2>1, <2>2, <2>3
<1>7. CASE BeginEdit
  <2>1. resync' = resync /\ run' = run /\ admin'.step = "write" /\ admin'.op = "none"
    BY <1>7, EditStep
  <2>. QED BY <2>1, ResyncKept DEF Completing, Resyncing
<1>8. CASE WriteEdit
  <2>1. /\ resync' = resync /\ run' = run /\ admin.step = "write"
        /\ (admin'.step = "tally" /\ admin.op = "resync") \/ admin'.step = "idle"
    BY <1>8, WriteStep
  <2>. QED BY <2>1, ResyncKept DEF Completing, Resyncing
<1>9. CASE TallyResync
  <2>1. /\ resync' = resync /\ run' = run /\ admin.step = "tally"
        /\ (admin'.step = "complete" /\ AllEnded) \/ admin'.step = "idle"
    BY <1>9, TallyResyncStep
  <2>2. resync.status # "none"
    BY <2>1 DEF ResyncInv, Resyncing
  <2>. QED BY <2>1, <2>2, ResyncKept DEF Completing, Resyncing
<1>10. CASE CompleteResync
  <2>1. /\ admin.step = "complete" /\ admin' = NoAdmin /\ run' = run
        /\ resync' = Completed(resync.total)
    BY <1>10, CompleteStep
  <2>2. /\ resync'.members = resync.members /\ resync'.total = resync.total
        /\ \/ resync'.status = resync.status /\ resync'.completions = resync.completions
           \/ /\ resync.status = "running" /\ resync'.status = "completed"
              /\ resync'.completions = resync.completions + 1
    BY <2>1, CompletedRow
  <2>3. Completing /\ (Completing' => Completing) /\ ~ Resyncing' /\ admin'.step = "idle"
    BY <2>1, EmptyRows DEF Completing, Resyncing
  <2>. QED BY <2>2, <2>3, ResyncKept
<1>11. ASSUME NEW k \in DOMAIN tasks, RetryTask(k) PROVE ResyncInv'
  BY <1>1, <1>11, RetryStep DEF actors
<1>. QED BY NextKinds, <1>2, <1>3, <1>4, <1>5, <1>6, <1>7, <1>8, <1>9, <1>10, <1>11, ResyncRunner,
         ResyncGrows, ResyncStarts

\* ResyncCompletes: a full resync is completed once, by one of those who counted at the same
\* time, and not before every subject counted at its start has a task that ended.
THEOREM ResyncEndsOnce == Spec => []ResyncCompletes
<1>1. Init => ResyncInv
  <2>. SUFFICES ASSUME Init PROVE ResyncInv
    OBVIOUS
  <2>1. /\ resync.members = {} /\ resync.status = "none" /\ resync.total = 0 /\ resync.completions = 0
        /\ admin = NoAdmin /\ \A r \in Runners : run[r] = NoRun
    BY DEF Init
  <2>2. ~ Completing /\ ~ Resyncing /\ admin.step = "idle"
    BY <2>1, EmptyRows DEF Completing, Resyncing
  <2>3. IsFiniteSet(resync.members) /\ Cardinality(resync.members) = 0
    BY <2>1, FS_EmptySet
  <2>. QED BY <2>1, <2>2, <2>3 DEF ResyncInv
<1>2. ResyncInv /\ UNCHANGED vars => ResyncInv'
  BY DEF ResyncInv, Done, Completing, Resyncing, vars, store, actors
<1>3. ProvInv /\ ResyncInv /\ [Next]_vars => ResyncInv'
  BY <1>2, ResyncNext
<1>4. ResyncInv => ResyncCompletes
  BY DEF ResyncInv, Done, ResyncCompletes
<1>. QED BY <1>1, <1>3, <1>4, Provisioned, PTL DEF Spec
=============================================================================
