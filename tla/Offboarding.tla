------------------------------ MODULE Offboarding ------------------------------
(***************************************************************************)
(* How a User is stopped, started again and purged, and what follows it:   *)
(* the Agents the User owns, and the revocation epochs that kill the       *)
(* access tokens issued before the stop.                                   *)
(*                                                                         *)
(* Sources: idmanagement/internal/user/usecases/admin_users.go,            *)
(* idmanagement/internal/agent/usecases/{admin_agents,owner_offboarding}.go*)
(* and sharedsignals/internal/usecases/{revocation,receive}.go, over the   *)
(* Postgres repositories.                                                  *)
(*                                                                         *)
(* A request reads, and then changes one row per step: there is no         *)
(* transaction across rows, so other requests run between its steps and it *)
(* may die (an error of the store, a crash, a deadline) before any of      *)
(* them.  The users table is written by a whole-row upsert that checks     *)
(* nothing; the agents table by a change applied to the latest row under a *)
(* lock.                                                                   *)
(***************************************************************************)
EXTENDS Integers, FiniteSets

CONSTANTS Users,      \* the tenant's users
          Agents,     \* agent identifiers, born by RegisterAgent
          Requests,   \* handler slots: how many requests run at once
          Asked,      \* the users that requests stop, start or purge
          Signalled,  \* principals an inbound SET (one jti each) names
          Grace,      \* seconds between the reservation and the purge
          MaxClock,   \* bound on the clock
          MaxAsked,   \* bound on the requests of administrators and peers
          MaxFaults   \* bound on the steps that fail

Principals == Users \union Agents

ASSUME OffboardingAssumption ==
  /\ Users \intersect Agents = {} /\ IsFiniteSet(Users)
  /\ Asked \subseteq Users /\ Signalled \subseteq Principals
  /\ {Grace, MaxClock, MaxAsked, MaxFaults} \subseteq Nat /\ MaxClock # 0

VARIABLES user,      \* users: status, StatusChangedAt, PendingPurge.Step
          agent,     \* agents: status and OwnerUserID
          epoch,     \* revocation epoch of a principal; 0: never revoked
          recorded,  \* received_security_events by jti
          usage,     \* tenant_usages of ResourceUsers
          announced, \* users for which UserDeleted was emitted
          req,       \* the requests being served
          clock, asked, faults,
          stopped,   \* history: up to when answered requests revoked a principal
          lost,      \* history: up to when stops that failed before they revoked a
                     \*   user's tokens would have revoked them
          owed,      \* history: users whose agents a stop that failed half way, or that
                     \*   a stale edit brought back, left running
          loose      \* history: agents set running while their owner was stopping

vars == <<user, agent, epoch, recorded, usage, announced, req, clock, asked,
          faults, stopped, lost, owed, loose>>
store == <<user, agent, epoch, recorded, usage, announced>>
history == <<stopped, lost, owed, loose>>

Time == 0 .. MaxClock
StopKinds == {"disable", "softDelete"}
StartKinds == {"enable", "restore"}
SaveKinds == StopKinds \union StartKinds \union {"edit"}
AgentKinds == {"agentEnable", "agentDisable", "kill", "remove"}
Kinds == SaveKinds \union AgentKinds
           \union {"purge", "register", "transfer", "receive"}
Steps == {"idle", "save", "revokeUser", "notifyOwner", "revokeOwned", "list",
          "disableOwned", "revokeAgent", "purgeRead", "tombstone", "release",
          "saveAnnounce", "announce", "close", "commit", "record", "reflect",
          "answer"}

Rows == [status : {"active", "disabled", "pending", "deleted"}, since : Time,
         purge : {"none", "release", "announce"}]

\* on: the user, agent or SET asked about; to: the owner asked for; at: the
\* handler's now; row: the users row it will save; todo and cur: the loop over agents.
Idle == [step |-> "idle"]
RequestRecords ==
  {Idle} \union [step : Steps \ {"idle"}, kind : Kinds, on : Principals,
                 to : Principals, at : Time, row : Rows,
                 todo : SUBSET Agents, cur : Principals]
Busy(p) == req[p] # Idle
Serving(p, kinds, step) == Busy(p) /\ req[p].kind \in kinds /\ req[p].step = step
Step(p, s) == req' = [req EXCEPT ![p].step = s]
Return(p) == req' = [req EXCEPT ![p] = Idle]

--------------------------------------------------------------------------------
(* Users and epochs *)

SavedStatus == [disable |-> "disabled", softDelete |-> "pending",
                enable |-> "active", restore |-> "active"]
Moved(kind) == [status |-> SavedStatus[kind], since |-> clock, purge |-> "none"]
softDeleteExpired(row, now) == now > row.since + Grace
IsActive(u) == user[u].status = "active"
\* Mutant: the epoch is written without comparing it with the stored one.
AdvanceBlindly(x, at) == [epoch EXCEPT ![x] = at]
Advance(x, at) == [epoch EXCEPT ![x] = IF at > @ THEN at ELSE @]

\* users that occupy the quota: not purged, or purged up to the decrement
CountOccupying ==
  Cardinality({u \in Users : user[u].status # "deleted" \/ user[u].purge = "release"})

\* An access token of x issued at iat passes introspection.
Revoked(x, iat) == iat < epoch[x]
TokenLive(x, iat) ==
  /\ IF x \in Users THEN IsActive(x) ELSE agent[x].status = "active"
  /\ ~Revoked(x, iat)

NoRow == [status |-> "active", since |-> 0, purge |-> "none"]
Begin(p, kind, on, to, step, row) ==
  /\ ~Busy(p)
  /\ req' = [req EXCEPT ![p] =
       [step |-> step, kind |-> kind, on |-> on, to |-> to, at |-> clock,
        row |-> row, todo |-> {}, cur |-> on]]
  /\ UNCHANGED <<store, clock, faults, history>>
Ask == asked < MaxAsked /\ asked' = asked + 1

--------------------------------------------------------------------------------
(* SetUserDisabled(true) and SoftDeleteUser: read the row; if the user is    *)
(* already stopped, only go through the agents again; else save, revoke the  *)
(* user's tokens, revoke the owned agents' tokens, stop the owned agents.    *)

\* Mutant: a stop that finds the user stopped answers without the agents.
AskStopNoRetry(p, u, kind) ==
  /\ Ask
  /\ user[u].status # "deleted"
  /\ kind = "disable" => user[u].status # "pending"
  /\ IF user[u].status = SavedStatus[kind]
     THEN Begin(p, kind, u, u, "answer", user[u])
     ELSE Begin(p, kind, u, u, "save", Moved(kind))
AskStop(p, u, kind) ==
  /\ Ask
  /\ user[u].status # "deleted"
  /\ kind = "disable" => user[u].status # "pending"
  /\ IF user[u].status = SavedStatus[kind]
     THEN Begin(p, kind, u, u, "list", user[u])
     ELSE Begin(p, kind, u, u, "save", Moved(kind))

\* SetUserDisabled(false) and RestoreUser.
AskStart(p, u, kind) ==
  /\ Ask
  /\ \/ kind = "enable" /\ user[u].status = "disabled"
     \/ kind = "restore" /\ user[u].status = "pending"
          /\ ~softDeleteExpired(user[u], clock)
  /\ Begin(p, kind, u, u, "save", Moved(kind))

\* UpdateUser: other columns change; the lifecycle goes back as it was read.
AskEdit(p, u) ==
  /\ Ask
  /\ user[u].status # "deleted"
  /\ Begin(p, "edit", u, u, "save", user[u])

\* captureUserMutation: the row as read and changed, over whatever is stored.
Save(p) ==
  /\ Serving(p, SaveKinds, "save")
  /\ LET r == req[p]
     IN /\ user' = [user EXCEPT ![r.on] = r.row]
        /\ owed' = IF r.kind = "edit" /\ r.row.status # user[r.on].status
                   THEN owed \union {r.on} ELSE owed
        /\ IF r.kind \in StopKinds THEN Step(p, "revokeUser") ELSE Return(p)
  /\ UNCHANGED <<agent, epoch, recorded, usage, announced, clock, asked, faults,
                 stopped, lost, loose>>

\* React to UserDisabled and UserSoftDeleted: RevokeUser.
RevokeUser(p) ==
  /\ Serving(p, StopKinds, "revokeUser")
  /\ epoch' = Advance(req[p].on, req[p].at)
  /\ Step(p, "notifyOwner")
  /\ UNCHANGED <<user, agent, recorded, usage, announced, clock, asked, faults, history>>

Owned(u) == {a \in Agents : agent[a].owner = u /\ agent[a].status \notin {"unborn", "gone"}}

\* Where a request goes on when it has been through the agents it listed.
AfterLoop(r) ==
  CASE r.step = "revokeOwned" -> IF r.kind = "purge" THEN "close" ELSE "list"
    [] r.step = "disableOwned" -> IF r.kind = "purge" THEN "tombstone" ELSE "answer"
Loop(r) == IF r.todo = {} THEN [r EXCEPT !.step = AfterLoop(r)] ELSE r

\* AgentRepo.ListAll, before either loop.
ListOwned(p) ==
  /\ Busy(p) /\ req[p].step \in {"notifyOwner", "list"}
  /\ LET r == req[p]
         owned == Owned(r.on)
     IN req' = [req EXCEPT ![p] = Loop(
          IF r.step = "notifyOwner"
          THEN [r EXCEPT !.step = "revokeOwned", !.todo = owned]
          ELSE [r EXCEPT !.step = "disableOwned",
                         !.todo = {a \in owned : agent[a].status = "active"}])]
  /\ UNCHANGED <<store, clock, asked, faults, history>>

\* notifyOwner: one AdvanceRevocationEpoch per owned agent.
RevokeOwned(p, a) ==
  /\ Busy(p) /\ req[p].step = "revokeOwned" /\ a \in req[p].todo
  /\ epoch' = Advance(a, req[p].at)
  /\ LET r == [req[p] EXCEPT !.todo = @ \ {a}]
     IN req' = [req EXCEPT ![p] = Loop(r)]
  /\ UNCHANGED <<user, agent, recorded, usage, announced, clock, asked, faults, history>>

\* DisableAgentsOwnedBy: only if the latest row is still this owner's and active.
StillOwned(a, u) == agent[a].owner = u /\ agent[a].status = "active"
DisableOwned(p, a) ==
  /\ Busy(p) /\ req[p].step = "disableOwned" /\ a \in req[p].todo
  /\ LET r == [req[p] EXCEPT !.todo = @ \ {a}]
     IN IF StillOwned(a, r.on)
        THEN /\ agent' = [agent EXCEPT ![a].status = "disabled"]
             /\ req' = [req EXCEPT ![p] = [r EXCEPT !.step = "revokeAgent", !.cur = a]]
        ELSE /\ req' = [req EXCEPT ![p] = Loop(r)]
             /\ UNCHANGED agent
  /\ UNCHANGED <<user, epoch, recorded, usage, announced, clock, asked, faults, history>>

\* React to AgentDisabled, AgentKilled and AgentDeleted.
RevokeAgent(p) ==
  /\ Busy(p) /\ req[p].step = "revokeAgent"
  /\ epoch' = Advance(req[p].cur, req[p].at)
  /\ IF req[p].kind \in AgentKinds THEN Step(p, "answer")
     ELSE LET r == [req[p] EXCEPT !.step = "disableOwned"]
          IN req' = [req EXCEPT ![p] = Loop(r)]
  /\ UNCHANGED <<user, agent, recorded, usage, announced, clock, asked, faults, history>>

--------------------------------------------------------------------------------
(* DeleteUser, asked by an administrator or by PurgeExpiredSoftDeleted, which *)
(* lists its candidates first and lets DeleteUser read the row again.         *)

AskPurge(p, u) == Ask /\ Begin(p, "purge", u, u, "purgeRead", NoRow)

\* Mutant: the sweep forgets the tombstones whose purge broke off.
PurgeCandidatePending(u) == user[u].status = "pending" /\ softDeleteExpired(user[u], clock)
PurgeCandidate(u) ==
  \/ user[u].status = "deleted" /\ user[u].purge # "none"
  \/ user[u].status = "pending" /\ softDeleteExpired(user[u], clock)
PurgeExpiredSoftDeleted(p, u) ==
  /\ PurgeCandidate(u)
  /\ Begin(p, "purge", u, u, "purgeRead", NoRow)
  /\ UNCHANGED asked

\* Mutant: a resumed purge takes the saved step for a step already done.
ResumeAfterSaved(row) ==
  IF row.status # "deleted" THEN "list"
  ELSE CASE row.purge = "release" -> "release"
         [] row.purge = "announce" -> "close"
         [] row.purge = "none" -> "answer"
\* Where a purge resumes: at the first step PendingPurge still names.
ResumeAt(row) ==
  IF row.status # "deleted" THEN "list"
  ELSE CASE row.purge = "release" -> "release"
         [] row.purge = "announce" -> "announce"
         [] row.purge = "none" -> "answer"
Tombstoned(purge, since) == [status |-> "deleted", since |-> since, purge |-> purge]
PurgeRead(p) ==
  /\ Serving(p, {"purge"}, "purgeRead")
  /\ LET row == user[req[p].on]
     IN req' = [req EXCEPT ![p].step = ResumeAt(row),
                           ![p].row = IF row.status = "deleted" THEN row
                                      ELSE Tombstoned("release", req[p].at)]
  /\ UNCHANGED <<store, clock, asked, faults, history>>

\* The tombstone is saved at each stage with the steps that remain.
SaveTombstone(p, purge) ==
  user' = [user EXCEPT ![req[p].on] = [req[p].row EXCEPT !.purge = purge]]

Tombstone(p) ==
  /\ Serving(p, {"purge"}, "tombstone")
  /\ SaveTombstone(p, "release")
  /\ Step(p, "release")
  /\ UNCHANGED <<agent, epoch, recorded, usage, announced, clock, asked, faults, history>>

\* Mutant: the decrement does not stop at zero.
ReleaseUsageUnbounded(p) ==
  /\ Serving(p, {"purge"}, "release")
  /\ usage' = usage - 1
  /\ Step(p, "saveAnnounce")
  /\ UNCHANGED <<user, agent, epoch, recorded, announced, clock, asked, faults, history>>
\* cascadeDeleteForSub, then Decrement, which stops at zero.
ReleaseUsage(p) ==
  /\ Serving(p, {"purge"}, "release")
  /\ usage' = IF usage = 0 THEN 0 ELSE usage - 1
  /\ Step(p, "saveAnnounce")
  /\ UNCHANGED <<user, agent, epoch, recorded, announced, clock, asked, faults, history>>

SaveAnnounce(p) ==
  /\ Serving(p, {"purge"}, "saveAnnounce")
  /\ SaveTombstone(p, "announce")
  /\ Step(p, "announce")
  /\ UNCHANGED <<agent, epoch, recorded, usage, announced, clock, asked, faults, history>>

\* UserDeleted is recorded; its reaction leaves the user's epoch alone.
Announce(p) ==
  /\ Serving(p, {"purge"}, "announce")
  /\ announced' = announced \union {req[p].on}
  /\ Step(p, "notifyOwner")
  /\ UNCHANGED <<user, agent, epoch, recorded, usage, clock, asked, faults, history>>

ClosePurge(p) ==
  /\ Serving(p, {"purge"}, "close")
  /\ SaveTombstone(p, "none")
  /\ Return(p)
  /\ UNCHANGED <<agent, epoch, recorded, usage, announced, clock, asked, faults, history>>

\* recountUserUsages, at the end of every retention sweep.
RecountUsage ==
  /\ usage # CountOccupying
  /\ usage' = CountOccupying
  /\ UNCHANGED <<user, agent, epoch, recorded, announced, req, clock, asked, faults, history>>

--------------------------------------------------------------------------------
(* Agents: read the agent and the owner, then change the latest row.          *)

Administered(a) == agent[a].status \in {"active", "disabled"}

AskRegister(p, a, u) ==
  /\ Ask
  /\ agent[a].status = "unborn"
  /\ \A q \in Requests : Busy(q) => req[q].on # a
  /\ IsActive(u)
  /\ Begin(p, "register", a, u, "commit", NoRow)

AskTransfer(p, a, u) ==
  /\ Ask
  /\ Administered(a) /\ agent[a].owner # u /\ IsActive(u)
  /\ Begin(p, "transfer", a, u, "commit", NoRow)

AskAgent(p, a, kind) ==
  /\ Ask
  /\ Administered(a)
  /\ kind = "agentEnable" => IsActive(agent[a].owner)
  /\ Begin(p, kind, a, a, "commit", NoRow)

\* Mutant: the change is applied without looking at the latest row's status.
ChangedAsRead(kind, row, to) ==
  CASE kind \in {"register", "transfer"} -> [status |-> "active", owner |-> to]
    [] kind = "remove" -> [row EXCEPT !.status = "gone"]
    [] kind = "agentEnable" -> [row EXCEPT !.status = "active"]
    [] kind = "agentDisable" -> [row EXCEPT !.status = "disabled"]
    [] kind = "kill" -> [row EXCEPT !.status = "killed"]
\* applyAgentState and the changes it is given; Delete checks nothing.
Changed(kind, row, to) ==
  IF kind \notin {"register", "remove"} /\ row.status \in {"killed", "gone"} THEN row
  ELSE CASE kind = "register" -> [status |-> "active", owner |-> to]
         [] kind = "remove" -> [row EXCEPT !.status = "gone"]
         [] kind = "transfer" -> [row EXCEPT !.owner = to]
         [] kind = "agentEnable" -> [row EXCEPT !.status = "active"]
         [] kind = "agentDisable" -> [row EXCEPT !.status = "disabled"]
         [] kind = "kill" -> [row EXCEPT !.status = "killed"]

\* The owner is not active, or a request that stops the owner is under way.
Stopping(u) ==
  \E q \in Requests : Busy(q) /\ req[q].on = u /\ req[q].kind \in StopKinds \union {"purge"}

\* A change that finds the agent killed or gone ends in an error.
Commit(p) ==
  /\ Busy(p) /\ req[p].step = "commit"
  /\ LET r == req[p]
         row == Changed(r.kind, agent[r.on], r.to)
     IN /\ agent' = [agent EXCEPT ![r.on] = row]
        /\ loose' = IF row.status = "active" /\ row # agent[r.on]
                      /\ (~IsActive(row.owner) \/ Stopping(row.owner))
                    THEN loose \union {r.on} ELSE loose
        /\ IF /\ r.kind \in {"agentDisable", "kill", "remove"}
              /\ agent[r.on].status \notin {"killed", "gone"} \/ r.kind = "remove"
           THEN Step(p, "revokeAgent")
           ELSE Return(p)
  /\ UNCHANGED <<user, epoch, recorded, usage, announced, clock, asked, faults,
                 stopped, lost, owed>>

--------------------------------------------------------------------------------
(* ReceiveSecurityEvent, for a SET whose signature and claims hold            *)

Resolves(x) == IF x \in Users THEN user[x].status # "deleted"
               ELSE agent[x].status \notin {"unborn", "gone"}

\* A jti already recorded is refused as a replay and changes nothing.
AskReceive(p, x) ==
  /\ Ask
  /\ recorded[x] = "none" /\ Resolves(x)
  /\ Begin(p, "receive", x, x, "record", NoRow)

\* A subject that does not resolve is refused, and the jti recorded.
RejectUnresolved(x) ==
  /\ Ask
  /\ recorded[x] = "none" /\ ~Resolves(x)
  /\ recorded' = [recorded EXCEPT ![x] = "rejected"]
  /\ UNCHANGED <<user, agent, epoch, usage, announced, req, clock, faults, history>>

\* ON CONFLICT (stream_id, set_jti) DO NOTHING.
RecordEvent(p) ==
  /\ Serving(p, {"receive"}, "record")
  /\ recorded' = [recorded EXCEPT ![req[p].on] = IF @ = "none" THEN "accepted" ELSE @]
  /\ Step(p, "reflect")
  /\ UNCHANGED <<user, agent, epoch, usage, announced, clock, asked, faults, history>>

Reflect(p) ==
  /\ Serving(p, {"receive"}, "reflect")
  /\ epoch' = Advance(req[p].on, req[p].at)
  /\ Step(p, "answer")
  /\ UNCHANGED <<user, agent, recorded, usage, announced, clock, asked, faults, history>>

--------------------------------------------------------------------------------
(* Answers, failures and time                                                 *)

\* The request succeeds; only the history remembers it.
Answer(p) ==
  /\ Busy(p) /\ req[p].step = "answer"
  /\ stopped' = IF req[p].kind = "purge" THEN stopped
                ELSE LET since == IF req[p].kind \in StopKinds THEN req[p].row.since ELSE req[p].at
                     IN [stopped EXCEPT ![req[p].on] = IF since > @ THEN since ELSE @]
  /\ owed' = IF req[p].kind \in StopKinds THEN owed \ {req[p].on} ELSE owed
  /\ Return(p)
  /\ UNCHANGED <<store, clock, asked, faults, lost, loose>>

\* A request fails; the history remembers what a stop leaves undone at this step.
Fail(p) ==
  /\ Busy(p) /\ faults < MaxFaults
  /\ faults' = faults + 1
  /\ LET r == req[p]
     IN /\ lost' = IF r.step = "revokeUser" /\ r.at > lost[r.on]
                   THEN [lost EXCEPT ![r.on] = r.at] ELSE lost
        /\ owed' = IF r.kind \in StopKinds /\ r.step \notin {"save", "answer"}
                   THEN owed \union {r.on} ELSE owed
  /\ Return(p)
  /\ UNCHANGED <<store, clock, asked, stopped, loose>>

Tick ==
  /\ clock < MaxClock
  /\ clock' = clock + 1
  /\ UNCHANGED <<store, req, asked, faults, history>>

--------------------------------------------------------------------------------
Init ==
  /\ user = [u \in Users |-> [status |-> "active", since |-> 0, purge |-> "none"]]
  \* agents that are there belong to the users the requests are about
  /\ agent \in [Agents -> [status : {"unborn", "active"}, owner : Asked]]
  /\ epoch = [x \in Principals |-> 0]
  /\ recorded = [x \in Signalled |-> "none"]
  /\ usage = Cardinality(Users)
  /\ announced = {}
  /\ req = [p \in Requests |-> Idle]
  /\ clock = 1 /\ asked = 0 /\ faults = 0
  /\ stopped = [x \in Principals |-> 0]
  /\ lost = [u \in Users |-> 0]
  /\ owed = {}
  /\ loose = {}

Serve(p) ==
  \/ Save(p) \/ RevokeUser(p) \/ ListOwned(p) \/ RevokeAgent(p)
  \/ \E a \in Agents : RevokeOwned(p, a) \/ DisableOwned(p, a)
  \/ PurgeRead(p) \/ Tombstone(p) \/ ReleaseUsage(p) \/ SaveAnnounce(p)
  \/ Announce(p) \/ ClosePurge(p)
  \/ Commit(p) \/ RecordEvent(p) \/ Reflect(p) \/ Answer(p)

AskSomething(p) ==
  \/ \E u \in Asked :
       \/ \E kind \in StopKinds : AskStop(p, u, kind)
       \/ \E kind \in StartKinds : AskStart(p, u, kind)
       \/ AskEdit(p, u)
       \/ AskPurge(p, u)
  \/ \E a \in Agents :
       \/ \E kind \in AgentKinds : AskAgent(p, a, kind)
       \/ \E u \in Users : AskRegister(p, a, u) \/ AskTransfer(p, a, u)
  \/ \E x \in Signalled : AskReceive(p, x)

Next ==
  \/ \E p \in Requests : Serve(p) \/ AskSomething(p) \/ Fail(p)
  \/ \E p \in Requests, u \in Users : PurgeExpiredSoftDeleted(p, u)
  \/ \E x \in Signalled : RejectUnresolved(x)
  \/ RecountUsage \/ Tick

Spec == Init /\ [][Next]_vars

\* A handler goes on unless it fails; the retention sweep runs every hour.
Fairness ==
  /\ \A p \in Requests : WF_vars(Serve(p))
  /\ \A u \in Users : WF_vars(\E p \in Requests : PurgeExpiredSoftDeleted(p, u))
  /\ WF_vars(RecountUsage)
FairSpec == Spec /\ Fairness

--------------------------------------------------------------------------------
\* Rows, epochs and requests keep their types; the usage of users, which purges
\* that resume may release twice, stays within what the tenant has.
TypeOK ==
  /\ user \in [Users -> Rows]
  /\ agent \in [Agents -> [status : {"unborn", "active", "disabled", "killed", "gone"},
                           owner : Users]]
  /\ epoch \in [Principals -> Time]
  /\ recorded \in [Signalled -> {"none", "accepted", "rejected"}]
  /\ usage \in 0 .. Cardinality(Users)
  /\ announced \subseteq Users
  /\ req \in [Requests -> RequestRecords]
  /\ clock \in Time /\ asked \in 0 .. MaxAsked /\ faults \in 0 .. MaxFaults
  /\ stopped \in [Principals -> Time]
  /\ lost \in [Users -> Time]
  /\ owed \subseteq Users
  /\ loose \subseteq Agents

\* A stop, kill or inbound SET that was answered with success keeps dead every
\* token issued before it, whatever is enabled, restored or revoked later and in
\* whatever order the epochs arrive -- unless a stop that would have killed the
\* token failed between the users row and the epoch, or has still to write it.
RevocationHolds ==
  \A x \in Principals : \A iat \in Time :
    (iat < stopped[x] /\ TokenLive(x, iat)) =>
      /\ x \in Users
      /\ \/ iat < lost[x]
         \/ \E p \in Requests : Serving(p, StopKinds, "revokeUser") /\ req[p].on = x /\ iat < req[p].at

\* REQ-IDMANAGEMENT-081: an agent runs while its owner is stopped only if a
\* request stopping the owner is under way, failed and was not repeated, or
\* overlapped the registration, transfer or enabling of that agent, or if an edit
\* that had read the owner's row while it was stopped wrote that row back.
NoOrphanAgents ==
  \A a \in Agents :
    LET u == agent[a].owner
    IN (agent[a].status = "active" /\ ~IsActive(u)) =>
         a \in loose \/ u \in owed \/ Stopping(u)

\* A purge that is closed has announced the deletion, however many requests and
\* sweeps worked on it and wherever they died: PendingPurge is never cleared early.
PurgeNeverForgets ==
  \A u \in Users :
    (user[u].status = "deleted" /\ user[u].purge = "none") => u \in announced

\* Killed is final: a request that read the agent before the kill does not start
\* or stop it again (applyAgentState looks at the latest row).
KilledIsFinal ==
  [][\A a \in Agents : agent[a].status = "killed" =>
       agent'[a].status \in {"killed", "gone"}]_vars

\* Every tombstone is purged to the end by the sweep, and the usage the crashes of
\* a purge spoil is counted again: in the end it is the number of users that occupy it.
PurgeEnds ==
  /\ \A u \in Users :
       (user[u].status = "deleted") ~>
         (user[u].status # "deleted" \/ user[u].purge = "none")
  /\ <>[](usage = CountOccupying)

--------------------------------------------------------------------------------
(* What the documents say and the code does not keep                          *)

\* docs/modules/sharedsignals/features/revocation.md: when a user is enabled
\* again, "以前のトークンを無効のままにさせる" -- the tokens from before an
\* answered stop stay dead.
StoppedTokensStayDead ==
  \A u \in Users : \A iat \in Time :
    (iat < stopped[u] /\ \A p \in Requests : ~Busy(p)) => ~TokenLive(u, iat)

\* docs/modules/sharedsignals/features/receiver.md: a SET is accepted by advancing
\* the epoch of its subject; once nothing is under way a recorded acceptance was
\* reflected.
AcceptedIsReflected ==
  \A x \in Signalled :
    (recorded[x] = "accepted" /\ \A p \in Requests : ~Busy(p)) => epoch[x] > 0

\* docs/modules/identity-management/features/user.md: `Deleted` is a terminal
\* state, "復元できない".
DeletedIsFinal ==
  [][\A u \in Users : user[u].status = "deleted" => user'[u].status = "deleted"]_vars
================================================================================
