-------------------------------- MODULE Grants --------------------------------
(***************************************************************************)
(* Grants that wait for a person: the device authorization grant (RFC      *)
(* 8628) and the approval requests of backchannel authentication (CIBA),   *)
(* over the PostgreSQL stores, up to the single use of an approved         *)
(* operation.  One grant is followed, of either kind.  Every request of a  *)
(* client, of a person or of a resource server is a process: it takes its  *)
(* time when it begins, and each of its statements is a step; one that     *)
(* fails or crashes takes no further step, and what it wrote stays.  The   *)
(* codes, scopes, sender constraints and details are left out.             *)
(***************************************************************************)
EXTENDS Integers, FiniteSets

CONSTANTS
  Users,               \* people who may decide
  Agent, Owner,        \* the agent the client is bound to, if it is, and the agent's owner
  Polls,               \* token requests
  Decisions,           \* requests that approve or deny
  Evaluations,         \* resource access requests that need the approved operation
  OperationKeys,       \* operation_key of a resource server
  None,                \* no user, no use, no time
  TTL,                 \* DeviceCodeTTL, ResolveTTL
  Interval, Increment, \* DeviceCodePolling
  MaxClock,            \* bound: time
  MaxStops             \* bound: people and agents that are stopped

ASSUME GrantsAssumption ==
  /\ {TTL, Interval, Increment} \subseteq Nat \ {0}
  /\ {MaxClock, MaxStops} \subseteq Nat
  /\ None \notin Users \union OperationKeys
  /\ Agent \notin Users \union {Owner}
  /\ IsFiniteSet(Polls \union Decisions)

VARIABLES
  clock,   \* the time
  kind,    \* "device" or "approval"; "none" before the grant is asked for
  row,     \* oauth2_device_codes or oauth2_approval_requests; state "none": no row
  status,  \* of the users, the agent and its owner
  req      \* per request: its step, and its answer when it is done

vars == <<clock, kind, row, status, req>>

People == Users \union {Agent, Owner}
Requests == Polls \union Decisions \union Evaluations
NoRow == [state |-> "none", user |-> None, bound |-> FALSE, expires |-> 0,
          interval |-> Interval, polled |-> None, use |-> None]
NoReq == [step |-> "idle", now |-> 0, user |-> None, wish |-> None, barred |-> {},
          row |-> NoRow, answer |-> "none"]

Init ==
  /\ clock = 0 /\ kind = "none" /\ row = NoRow
  /\ status = [p \in People |-> "active"]
  /\ req = [r \in Requests |-> NoReq]

Active(p) == status[p] = "active"
(* IsDeviceExpired, IsExpired *)
Expired(w, now) == w.state = "expired" \/ now >= w.expires
(* IsPollTooFast *)
TooFast(w, now) == w.polled # None /\ now - w.polled < w.interval

To(r, step) == req' = [req EXCEPT ![r].step = step]
With(r, step, w) == req' = [req EXCEPT ![r].step = step, ![r].row = w]
(* An answer that grants nothing: which error it is makes no difference here. *)
Refused == [NoReq EXCEPT !.step = "done", !.answer = "refused"]
Refuse(r) == req' = [req EXCEPT ![r] = Refused]
Answer(r, answer) ==
  req' = [req EXCEPT ![r].step = "done", ![r].answer = answer, ![r].row = NoRow,
                     ![r].barred = {}]

-------------------------------------------------------------------------------
(* RequestDeviceAuthorization: the client may be bound to an agent, of any status. *)
StartDevice(bound) ==
  /\ kind = "none" /\ kind' = "device"
  /\ row' = [NoRow EXCEPT !.state = "issued", !.bound = bound, !.expires = clock + TTL]
  /\ UNCHANGED <<clock, status, req>>

(* StartApproval: for an active user, from a client that may be bound to an active agent. *)
StartApproval(u, bound) ==
  /\ kind = "none" /\ kind' = "approval"
  /\ Active(u) /\ (bound => Active(Agent) /\ Active(Owner))
  /\ row' = [NoRow EXCEPT !.state = "pending", !.user = u, !.bound = bound,
                          !.expires = clock + TTL]
  /\ UNCHANGED <<clock, status, req>>

(* A request comes in and reads the row: its time is taken here.  Later statements of it
   compare with this time, and who was stopped before it is remembered for a property. *)
Begin(r, q) == req[r].step = "idle" /\ req' = [req EXCEPT ![r] = q]
Stopped == {p \in DOMAIN status : ~ Active(p)}
Asks(step, w) == [NoReq EXCEPT !.step = step, !.now = clock, !.barred = Stopped, !.row = w]
Decides(step, u, wish, w) ==
  [NoReq EXCEPT !.step = step, !.now = clock, !.user = u, !.wish = wish, !.row = w]

-------------------------------------------------------------------------------
(* ApproveUserCode, DenyUserCode: the record is read, passed through user_code_entered ... *)
ReadDevice(d, u, wish) ==
  /\ kind = "device" /\ Active(u)
  /\ Begin(d, IF row.state # "issued" \/ Expired(row, clock) THEN Refused
              ELSE Decides("save", u, wish,
                           [row EXCEPT !.state = wish, !.user = IF wish = "approved" THEN u ELSE @]))
  /\ UNCHANGED <<clock, kind, row, status>>

(* ... and saved over whatever is there by then, or is there no more. *)
SaveDevice(d) ==
  /\ req[d].step = "save"
  /\ row' = req[d].row
  /\ Answer(d, "ok")
  /\ UNCHANGED <<clock, kind, status>>

(* DecideApproval *)
ReadApproval(d, u, wish) ==
  /\ kind = "approval" /\ Active(u)
  /\ Begin(d, IF row.state # "pending" \/ row.user # u \/ Expired(row, clock) THEN Refused
              ELSE Decides("decide", u, wish, NoRow))
  /\ UNCHANGED <<clock, kind, row, status>>

(* DecideApprovalRequest *)
Decidable(d) == row.user = req[d].user /\ row.state = "pending" /\ req[d].now < row.expires

Decide(d) ==
  /\ req[d].step = "decide"
  /\ IF Decidable(d)
       THEN row' = [row EXCEPT !.state = req[d].wish] /\ Answer(d, "ok")
       ELSE Refuse(d) /\ UNCHANGED row
  /\ UNCHANGED <<clock, kind, status>>

-------------------------------------------------------------------------------
(* ExchangeDeviceCode *)
PollDevice(p) ==
  LET fast == TooFast(row, clock)
  IN  /\ kind = "device"
      /\ Begin(p, CASE Expired(row, clock) \/ row.state \in {"none", "denied", "exchanged"} -> Refused
                    [] row.state = "approved" -> Asks("exchange", NoRow)
                    [] OTHER -> Asks(IF fast THEN "slow" ELSE "wait",
                                     [row EXCEPT !.interval = IF fast THEN @ + Increment ELSE @,
                                                 !.polled = clock]))
      /\ UNCHANGED <<clock, kind, row, status>>

(* The poll is recorded by saving the whole record that was read. *)
SavePoll(p) ==
  /\ req[p].step \in {"slow", "wait"}
  /\ row' = req[p].row
  /\ IF req[p].step = "slow" THEN Answer(p, "slow_down") ELSE Refuse(p)
  /\ UNCHANGED <<clock, kind, status>>

\* Mutant: the code is exchanged whatever its state is by now.
ExchangeableStill == row.state # "none"
(* ExchangeDeviceCode, the statement *)
Exchangeable == row.state = "approved"

Exchange(p) ==
  /\ req[p].step = "exchange"
  /\ IF Exchangeable
       THEN /\ row' = [row EXCEPT !.state = "exchanged"]
            /\ With(p, "user", row')
       ELSE Refuse(p) /\ UNCHANGED row
  /\ UNCHANGED <<clock, kind, status>>

-------------------------------------------------------------------------------
(* ExchangeApproval: which way a row sends the request *)
PollApproval(p) ==
  /\ kind = "approval"
  /\ Begin(p, CASE row.state = "none" -> Refused
                [] row.state # "none" /\ Expired(row, clock) -> Asks("expire", NoRow)
                [] row.state = "pending" /\ ~ Expired(row, clock) -> Asks("poll", row)
                [] row.state = "approved" /\ ~ Expired(row, clock) -> Asks("user", row)
                [] OTHER -> Refused)
  /\ UNCHANGED <<clock, kind, row, status>>

(* ExpireApprovalRequest *)
Expirable(now) == row.state \in {"pending", "approved"} /\ row.expires <= now

Expire(p) ==
  /\ req[p].step = "expire"
  /\ row' = IF Expirable(req[p].now) THEN [row EXCEPT !.state = "expired"] ELSE row
  /\ Refuse(p)
  /\ UNCHANGED <<clock, kind, status>>

\* Mutant: the poll is recorded from the row as it was read.
PolledAsRead(p) ==
  LET w == req[p].row  now == req[p].now
  IN  [row EXCEPT !.interval = IF TooFast(w, now) THEN w.interval + Increment ELSE w.interval,
                  !.polled = now]
(* RecordApprovalRequestPoll, on a pending row *)
Polled(p) ==
  [row EXCEPT !.interval = IF TooFast(row, req[p].now) THEN @ + Increment ELSE @,
              !.polled = req[p].now]

RecordPoll(p) ==
  /\ req[p].step = "poll"
  /\ IF row.state = "pending"
       THEN /\ row' = Polled(p)
            /\ IF TooFast(row, req[p].now) THEN Answer(p, "slow_down") ELSE Refuse(p)
       ELSE /\ IF row.state = "approved" THEN With(p, "user", row) ELSE Refuse(p)
            /\ UNCHANGED row
  /\ UNCHANGED <<clock, kind, status>>

(* Who is read at which step. *)
LookedAt(p) == [user |-> req[p].row.user, agent |-> Agent, owner |-> Owner][req[p].step]

\* Mutant: an approval looks at the user only.
OnwardFromUser(p) == IF kind = "device" THEN "sign" ELSE "consume"
(* A device code, which is spent by now, needs its user; an approval the agent, too, and its
   owner. *)
Onward(p) ==
  CASE kind = "device" -> "sign"
    [] kind = "approval" /\ req[p].step = "user" /\ req[p].row.bound -> "agent"
    [] kind = "approval" /\ req[p].step = "agent" -> "owner"
    [] OTHER -> "consume"

Check(p) ==
  /\ req[p].step \in {"user", "agent", "owner"}
  /\ IF Active(LookedAt(p)) THEN To(p, Onward(p)) ELSE Refuse(p)
  /\ UNCHANGED <<clock, kind, row, status>>

\* Mutant: whoever found it approved consumes it.
ConsumableAsRead(p) == row.state \in {"approved", "consumed"} /\ req[p].now < row.expires
(* ConsumeApprovalRequest *)
Consumable(p) == row.state = "approved" /\ req[p].now < row.expires

Consume(p) ==
  /\ req[p].step = "consume"
  /\ IF Consumable(p)
       THEN row' = [row EXCEPT !.state = "consumed"] /\ To(p, "sign")
       ELSE Refuse(p) /\ UNCHANGED row
  /\ UNCHANGED <<clock, kind, status>>

(* The tokens are signed; with a refresh token, a device code is saved once more, from
   what Exchange returned and with its error ignored. *)
Sign(p) ==
  /\ req[p].step = "sign"
  /\ row' \in IF kind = "device" THEN {row, req[p].row} ELSE {row}
  /\ req' = [req EXCEPT ![p].step = "done", ![p].answer = "token"]
  /\ UNCHANGED <<clock, kind, status>>

-------------------------------------------------------------------------------
(* matchApprovedOperation, for a token that came from the approval; the operation may
   differ from the approved one, and a limit may be used up. *)
Match(e, k) ==
  /\ kind = "approval" /\ \E p \in Polls : req[p].answer = "token"
  /\ \E q \in {Refused, [NoReq EXCEPT !.step = "claim", !.now = clock, !.wish = k]} :
       /\ row.state = "none" \/ clock >= row.expires \/ row.use \notin {None, k} => q = Refused
       /\ Begin(e, q)
  /\ UNCHANGED <<clock, kind, row, status>>

\* Mutant: a recorded use is replaced.
ClaimableAgain(now) == row.state = "consumed" /\ now < row.expires
(* ClaimApprovalRequestUse *)
Claimable(now) == row.state = "consumed" /\ now < row.expires /\ row.use = None

(* claimApprovedOperation, ClaimUse, and the permit *)
Claim(e) ==
  /\ req[e].step = "claim"
  /\ IF Claimable(req[e].now)
       THEN row' = [row EXCEPT !.use = req[e].wish] /\ Answer(e, "permitted")
       ELSE To(e, "reread") /\ UNCHANGED row
  /\ UNCHANGED <<clock, kind, status>>

(* Who loses finds the use recorded, perhaps as its own, or no row. *)
Reread(e) ==
  /\ req[e].step = "reread"
  /\ IF row.state = "consumed" /\ req[e].now < row.expires /\ row.use = req[e].wish
       THEN Answer(e, "permitted") ELSE Refuse(e)
  /\ UNCHANGED <<clock, kind, row, status>>

-------------------------------------------------------------------------------
(* A user, the agent or its owner is stopped elsewhere. *)
Stop(p) ==
  /\ Active(p) /\ Cardinality(Stopped) < MaxStops
  /\ status' = [status EXCEPT ![p] = "stopped"]
  /\ UNCHANGED <<clock, kind, row, req>>

(* DeleteAllForSub, of the purge of a user *)
DeleteAllForSub(u) ==
  /\ ~ Active(u) /\ row.user = u
  /\ row' = NoRow
  /\ UNCHANGED <<clock, kind, status, req>>

(* DeleteExpiredBatch, of the sweep *)
Sweep ==
  /\ row.state # "none" /\ row.expires < clock
  /\ row' = NoRow
  /\ UNCHANGED <<clock, kind, status, req>>

(* Time passes; the grant is asked for at 0. *)
Tick ==
  /\ kind # "none"
  /\ clock < MaxClock /\ clock' = clock + 1
  /\ UNCHANGED <<kind, row, status, req>>

Next ==
  \/ \E b \in BOOLEAN : StartDevice(b)
  \/ \E u \in Users, b \in BOOLEAN : StartApproval(u, b)
  \/ \E d \in Decisions :
       \/ \E u \in Users, wish \in {"approved", "denied"} : ReadDevice(d, u, wish) \/ ReadApproval(d, u, wish)
       \/ SaveDevice(d) \/ Decide(d)
  \/ \E p \in Polls :
       \/ PollDevice(p) \/ SavePoll(p) \/ Exchange(p)
       \/ PollApproval(p) \/ Expire(p) \/ RecordPoll(p) \/ Check(p) \/ Consume(p) \/ Sign(p)
  \/ \E e \in Evaluations : Claim(e) \/ Reread(e) \/ \E k \in OperationKeys : Match(e, k)
  \/ \E p \in People : Stop(p)
  \/ \E u \in Users : DeleteAllForSub(u)
  \/ Sweep \/ Tick

Spec == Init /\ [][Next]_vars

-------------------------------------------------------------------------------
Answered(rs, answer) == {r \in rs : req[r].answer = answer}
Decided(u, wish) == {d \in Answered(Decisions, "ok") : req[d].user = u /\ req[d].wish = wish}

(* Types of the variables. *)
DeviceStates == {"issued", "approved", "denied", "exchanged"}
ApprovalStates == {"pending", "approved", "denied", "expired", "consumed"}
TypeOK ==
  /\ clock \in 0..MaxClock
  /\ kind \in {"none", "device", "approval"}
  /\ row.state \in {"none"} \union (IF kind = "device" THEN DeviceStates ELSE ApprovalStates)
  /\ row.user \in Users \union {None} /\ row.use \in OperationKeys \union {None}
  /\ row.state \in {"exchanged", "consumed"} => row.user # None
  /\ status \in [People -> {"active", "stopped"}]
  /\ \A r \in Requests : (req[r].step = "done") <=> (req[r].answer # "none")

(* Every token of a user goes back to an approval of that user that no other token goes
   back to, whatever polls, approvals, denials and purges overwrite (device_flow.go,
   approval_flow.go).  An approval request yields tokens once, to a request made before it
   ran out, and never together with a denial. *)
TokensBackedByApproval ==
  LET issued == Answered(Polls, "token")
  IN  /\ \A u \in Users :
           Cardinality({p \in issued : req[p].row.user = u}) <= Cardinality(Decided(u, "approved"))
      /\ kind = "approval" =>
           /\ Cardinality(issued) <= 1
           /\ \A p \in issued : req[p].now < TTL /\ Decided(req[p].row.user, "denied") = {}

(* No token comes from a request that began after its user was stopped, nor, for an
   approval of a client that is bound to an agent, after the agent or its owner was
   (approval_flow.go; device_flow.go looks at the user alone, see below). *)
NoTokenForBarred ==
  \A p \in Answered(Polls, "token") :
    /\ req[p].row.user \notin req[p].barred
    /\ kind = "approval" /\ req[p].row.bound => {Agent, Owner} \intersect req[p].barred = {}

(* Of several resource servers and operation keys one key is permitted, with its own
   repetitions, and only on requests made within the time the person approved. *)
UsedOnce ==
  \A e, f \in Answered(Evaluations, "permitted") :
    req[e].wish = req[f].wish /\ req[e].now < TTL

(* Every slow_down raised the interval of an approval request by one increment, whatever
   polls were made at once. *)
SlowDownsCounted ==
  kind = "approval" /\ row.state # "none" =>
    row.interval = Interval + Increment * Cardinality(Answered(Polls, "slow_down"))

-------------------------------------------------------------------------------
(* A device code is exchanged for tokens once.  (device.md: a code that was exchanged is
   refused as invalid_grant; Exchanged is terminal.) *)
DeviceExchangedOnce ==
  kind = "device" => Cardinality(Answered(Polls, "token")) <= 1

(* The client of a stopped agent gets no token from a request that begins after the stop,
   of either grant.  (agent.md: no new token is issued to an agent that is not active.) *)
StoppedAgentGetsNothing ==
  \A p \in Answered(Polls, "token") : req[p].row.bound => Agent \notin req[p].barred
===============================================================================
