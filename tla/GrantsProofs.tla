----------------------------- MODULE GrantsProofs -----------------------------
(***************************************************************************)
(* Proofs about Grants, for any sets of people, requests and operation     *)
(* keys, any lifetime and any polling interval.                            *)
(***************************************************************************)
EXTENDS Grants, FiniteSetTheorems, TLAPS

Wishes == {"approved", "denied"}
Row ==
  [state : {"none"} \union DeviceStates \union ApprovalStates, user : Users \union {None},
   bound : BOOLEAN, expires : Nat, interval : Nat, polled : Nat \union {None},
   use : OperationKeys \union {None}]
Steps ==
  {"idle", "save", "decide", "slow", "wait", "exchange", "expire", "poll", "user", "agent",
   "owner", "consume", "sign", "claim", "reread", "done"}
Answers == {"none", "refused", "ok", "slow_down", "token", "permitted"}
Request ==
  [step : Steps, now : Nat, user : Users \union {None}, wish : Wishes \union OperationKeys \union {None},
   barred : SUBSET People, row : Row, answer : Answers]

\* What a row of a grant of kind k is like, in the table and in the hands of a request.
RowOK(k, w) ==
  /\ w.state \in {"none"} \union (IF k = "device" THEN DeviceStates ELSE ApprovalStates)
  /\ w.state \in {"approved", "exchanged", "consumed"} => w.user \in Users
  /\ k = "approval" /\ w.state # "none" => w.user \in Users /\ w.expires = TTL

\* A request that spent a device code, or found an approval.
Holds(q) == q.step \in {"user", "agent", "owner", "consume", "sign"} \/ q.answer = "token"
\* A request whose user, whose agent, whose agent's owner has been looked at.
UserSeen(q) == q.step \in {"agent", "owner", "consume", "sign"} \/ q.answer = "token"
AgentSeen(q) == q.step \in {"owner", "consume", "sign"} \/ q.answer = "token"
OwnerSeen(q) == q.step \in {"consume", "sign"} \/ q.answer = "token"
\* Nobody who was looked at was stopped when the request began.
Checked(k, q) ==
  /\ UserSeen(q) => q.row.user \notin q.barred
  /\ k = "approval" /\ q.row.bound => /\ AgentSeen(q) => Agent \notin q.barred
                                      /\ OwnerSeen(q) => Owner \notin q.barred
\* A request that consumed an approval.
Consumed(q) == q.step = "sign" \/ q.answer = "token"

\* What a request to a grant of kind k holds at each of its steps.
RequestOK(k, q) ==
  /\ q.step = "done" <=> q.answer # "none"
  /\ q.step \in {"save", "slow", "wait", "exchange"} => k = "device"
  /\ \/ q.step \in {"decide", "expire", "poll", "agent", "owner", "consume", "claim", "reread"}
     \/ q.answer = "permitted"
     => k = "approval"
  /\ q.step = "save" => /\ q.wish \in Wishes /\ q.row.state = q.wish
                        /\ q.wish = "approved" => q.row.user = q.user
  /\ q.step = "decide" => q.wish \in Wishes
  /\ q.step \in {"slow", "wait"} => q.row.state = "issued"
  /\ q.step \in {"claim", "reread"} \/ q.answer = "permitted" => q.wish \in OperationKeys
  /\ q.answer = "permitted" => q.now < TTL
  /\ Holds(q) => q.row.user \in Users /\ q.row.state = IF k = "device" THEN "exchanged" ELSE "approved"
  /\ Checked(k, q)

\* Types, and what rows and requests hold; who was barred stays stopped.
GrantInv ==
  /\ clock \in 0..MaxClock /\ kind \in {"none", "device", "approval"}
  /\ row \in Row /\ RowOK(kind, row)
  /\ status \in [People -> {"active", "stopped"}]
  /\ req \in [Requests -> Request]
  /\ \A r \in Requests : /\ RowOK(kind, req[r].row) /\ RequestOK(kind, req[r])
                         /\ req[r].barred \subseteq Stopped
  /\ kind = "none" => clock = 0 /\ row = NoRow /\ \A r \in Requests : req[r] = NoReq

\* Device codes: each approval that was saved is spent by one exchange at most.
Spent(u) == {p \in Polls : Holds(req[p]) /\ req[p].row.user = u}
DeviceInv ==
  kind = "device" =>
    \A u \in Users :
      Cardinality(Spent(u)) + (IF row.state = "approved" /\ row.user = u THEN 1 ELSE 0)
        <= Cardinality(Decided(u, "approved"))

\* Approval requests: they are decided once, and consumed once.
ApprovedBy(u) == \E d \in Decisions : req[d].answer = "ok" /\ req[d].user = u /\ req[d].wish = "approved"
ApprovalInv ==
  kind = "approval" =>
    /\ row.state = "pending" => Answered(Decisions, "ok") = {}
    /\ \A d, e \in Answered(Decisions, "ok") : d = e
    /\ row.state \in {"approved", "consumed"} => ApprovedBy(row.user)
    /\ \A p \in Polls : Holds(req[p]) => ApprovedBy(req[p].row.user)
    /\ \A p \in Polls : Consumed(req[p]) => row.state \in {"consumed", "none"} /\ req[p].now < TTL
    /\ \A p, q \in Polls : Consumed(req[p]) /\ Consumed(req[q]) => p = q

\* The permits of one approval bear the key its row has recorded.
UseInv ==
  \A e \in Answered(Evaluations, "permitted") :
    /\ row.state \in {"none", "consumed"}
    /\ row.state = "consumed" => row.use = req[e].wish
    /\ \A f \in Answered(Evaluations, "permitted") : req[f].wish = req[e].wish

-------------------------------------------------------------------------------
(* Types. *)

\* The records that requests are built from are of the right type, and hold nothing.
LEMMA Blank ==
  ASSUME NEW k
  PROVE  /\ NoRow \in Row /\ RowOK(k, NoRow) /\ NoRow.state = "none"
         /\ NoReq \in Request /\ RequestOK(k, NoReq) /\ NoReq.barred = {} /\ NoReq.row = NoRow
         /\ Refused \in Request /\ RequestOK(k, Refused) /\ Refused.barred = {} /\ Refused.row = NoRow
         /\ Refused.answer = "refused" /\ Refused.step = "done" /\ ~ Holds(Refused)
BY GrantsAssumption DEF NoRow, NoReq, Refused, Row, Request, RowOK, RequestOK, Holds, Checked, UserSeen,
                        AgentSeen, OwnerSeen, Steps, Answers

\* The initial state is of the right type.
LEMMA InitGrant == Init => GrantInv
BY Blank, GrantsAssumption DEF Init, GrantInv, Stopped

\* A request that moves on to hold what its new step needs, and leaves a row behind that
\* is in order, keeps the types.
LEMMA Moves ==
  ASSUME GrantInv, kind # "none", NEW r \in Requests, NEW new \in Request,
         req' = [req EXCEPT ![r] = new], RowOK(kind, new.row), RequestOK(kind, new),
         new.barred \subseteq Stopped, row' \in Row, RowOK(kind, row'),
         UNCHANGED <<clock, kind, status>>
  PROVE  GrantInv'
<1>1. Stopped' = Stopped
  BY DEF Stopped, Active
<1>2. req' \in [Requests -> Request] /\ \A q \in Requests : req'[q] = IF q = r THEN new ELSE req[q]
  BY DEF GrantInv
<1>. HIDE DEF Stopped
<1>. QED BY <1>1, <1>2 DEF GrantInv

\* The request that read the row, at the time it was made.
LEMMA Asking ==
  ASSUME GrantInv, NEW step \in Steps, NEW w \in Row
  PROVE  LET q == Asks(step, w)
         IN  /\ q \in Request /\ q.step = step /\ q.row = w /\ q.now = clock
             /\ q.barred = Stopped /\ q.answer = "none"
<1>1. Stopped \subseteq People /\ clock \in Nat
  BY GrantsAssumption DEF Stopped, GrantInv
<1>2. NoReq \in Request /\ NoReq.answer = "none"
  BY Blank DEF NoReq
<1>. QED BY <1>1, <1>2 DEF Asks, Request

\* The request that read the row for a decision of u.
LEMMA Deciding ==
  ASSUME GrantInv, NEW step \in Steps, NEW u \in Users, NEW wish \in Wishes, NEW w \in Row
  PROVE  LET q == Decides(step, u, wish, w)
         IN  /\ q \in Request /\ q.step = step /\ q.row = w /\ q.user = u /\ q.wish = wish
             /\ q.barred = {} /\ q.answer = "none"
<1>1. clock \in Nat
  BY GrantsAssumption DEF GrantInv
<1>2. NoReq \in Request /\ NoReq.answer = "none" /\ NoReq.barred = {}
  BY Blank DEF NoReq
<1>. QED BY <1>1, <1>2 DEF Decides, Request

\* The request that has its answer.
LEMMA Answering ==
  ASSUME GrantInv, NEW r \in Requests, NEW a \in Answers \ {"none"}, Answer(r, a)
  PROVE  \E new \in Request :
           /\ req' = [req EXCEPT ![r] = new]
           /\ new.step = "done" /\ new.answer = a /\ new.row = NoRow /\ new.barred = {}
           /\ new.user = req[r].user /\ new.wish = req[r].wish /\ new.now = req[r].now
<1>1. req \in [Requests -> Request] /\ req[r] \in Request /\ NoRow \in Row
  BY Blank DEF GrantInv
<1>. DEFINE new == [req[r] EXCEPT !.step = "done", !.answer = a, !.row = NoRow, !.barred = {}]
<1>2. new \in Request
  BY <1>1 DEF Request, Steps
<1>3. req' = [req EXCEPT ![r] = new]
  BY <1>1 DEF Answer
<1>4. /\ new.step = "done" /\ new.answer = a /\ new.row = NoRow /\ new.barred = {}
      /\ new.user = req[r].user /\ new.wish = req[r].wish /\ new.now = req[r].now
  BY <1>1 DEF Request
<1>. HIDE DEF new
<1>. QED BY <1>2, <1>3, <1>4

\* A request that had no answer yet goes on.
Moved(r, new) ==
  /\ req[r].answer = "none" /\ kind # "none"
  /\ req' = [req EXCEPT ![r] = new]
  /\ UNCHANGED <<clock, kind, status>>

\* A request at a step that only requests to a grant reach.
LEMMA Underway ==
  ASSUME GrantInv, NEW r \in Requests, req[r].step \notin {"idle", "done"}
  PROVE  req[r].answer = "none" /\ kind # "none"
BY DEF GrantInv, RequestOK, NoReq

\* A request that is refused, or answered without a grant, keeps the types.
LEMMA Refusing ==
  ASSUME GrantInv, NEW r \in Requests, Refuse(r), kind # "none", req[r].answer = "none",
         row' \in Row, RowOK(kind, row'), UNCHANGED <<clock, kind, status>>
  PROVE  GrantInv' /\ Moved(r, Refused)
BY Blank, Moves DEF Refuse, Moved

\* Reading for a decision changes nothing but the request.
LEMMA ReadDecision ==
  ASSUME GrantInv, NEW d \in Decisions, NEW u \in Users, NEW wish \in Wishes,
         ReadDevice(d, u, wish) \/ ReadApproval(d, u, wish)
  PROVE  /\ GrantInv' /\ UNCHANGED row
         /\ \E new \in Request : Moved(d, new) /\ new.answer \in {"none", "refused"} /\ ~ Holds(new)
<1>1. d \in Requests /\ row \in Row /\ RowOK(kind, row) /\ UNCHANGED <<clock, kind, status, row>>
  BY DEF Requests, GrantInv, ReadDevice, ReadApproval
<1>2. req[d].step = "idle" => req[d].answer = "none"
  BY <1>1 DEF GrantInv, RequestOK
<1>3. CASE ReadDevice(d, u, wish)
  <2>. DEFINE w == [row EXCEPT !.state = wish, !.user = IF wish = "approved" THEN u ELSE @]
  <2>1. w \in Row /\ w.state = wish /\ (wish = "approved" => w.user = u)
    BY <1>1 DEF Row, Wishes, DeviceStates
  <2>2. PICK new \in {Refused, Decides("save", u, wish, w)} : Begin(d, new)
    BY <1>3 DEF ReadDevice
  <2>3. kind = "device"
    BY <1>3 DEF ReadDevice
  <2>4. RowOK(kind, w)
    BY <2>1, <2>3 DEF RowOK, Wishes, DeviceStates
  <2>. HIDE DEF w
  <2>5. CASE new = Refused
    BY <1>1, <1>2, <2>2, <2>3, <2>5, Refusing, Blank DEF Begin, Refuse
  <2>6. CASE new = Decides("save", u, wish, w)
    <3>1. /\ new \in Request /\ new.step = "save" /\ new.row = w /\ new.user = u /\ new.wish = wish
          /\ new.barred = {} /\ new.answer = "none"
      BY <2>1, <2>6, Deciding DEF Steps
    <3>2. RequestOK(kind, new) /\ ~ Holds(new)
      BY <2>1, <2>3, <3>1 DEF RequestOK, Holds, Checked, UserSeen, AgentSeen, OwnerSeen
    <3>. QED BY <1>1, <1>2, <2>2, <2>3, <2>4, <3>1, <3>2, Moves DEF Begin, Moved
  <2>. QED BY <2>2, <2>5, <2>6
<1>4. CASE ReadApproval(d, u, wish)
  <2>1. PICK new \in {Refused, Decides("decide", u, wish, NoRow)} : Begin(d, new)
    BY <1>4 DEF ReadApproval
  <2>2. kind = "approval"
    BY <1>4 DEF ReadApproval
  <2>3. CASE new = Refused
    BY <1>1, <1>2, <2>1, <2>2, <2>3, Refusing, Blank DEF Begin, Refuse
  <2>4. CASE new = Decides("decide", u, wish, NoRow)
    <3>1. /\ new \in Request /\ new.step = "decide" /\ new.row = NoRow /\ new.user = u /\ new.wish = wish
          /\ new.barred = {} /\ new.answer = "none" /\ RowOK(kind, NoRow)
      BY <2>4, Deciding, Blank DEF Steps
    <3>2. RequestOK(kind, new) /\ ~ Holds(new)
      BY <2>2, <3>1 DEF RequestOK, Holds, Checked, UserSeen, AgentSeen, OwnerSeen
    <3>. QED BY <1>1, <1>2, <2>1, <2>2, <3>1, <3>2, Moves DEF Begin, Moved
  <2>. QED BY <2>1, <2>3, <2>4
<1>. QED BY <1>3, <1>4

\* Saving a decision about a device code puts the record that was read in the table.
LEMMA SaveDecision ==
  ASSUME GrantInv, NEW d \in Decisions, SaveDevice(d)
  PROVE  /\ GrantInv' /\ kind = "device"
         /\ row'.state \in Wishes /\ (row'.state = "approved" => row'.user = req[d].user)
         /\ \E new \in Request :
              /\ Moved(d, new) /\ new.answer = "ok" /\ ~ Holds(new)
              /\ new.user = req[d].user /\ new.wish = row'.state
<1>1. /\ d \in Requests /\ req[d] \in Request /\ req[d].answer = "none" /\ kind = "device"
      /\ row' = req[d].row /\ row' \in Row /\ RowOK(kind, row') /\ RequestOK(kind, req[d])
      /\ req[d].step = "save" /\ UNCHANGED <<clock, kind, status>>
  BY Underway DEF Requests, GrantInv, SaveDevice, RequestOK, Request
<1>2. PICK new \in Request :
           /\ req' = [req EXCEPT ![d] = new]
           /\ new.step = "done" /\ new.answer = "ok" /\ new.row = NoRow /\ new.barred = {}
           /\ new.user = req[d].user /\ new.wish = req[d].wish
  BY <1>1, Answering DEF SaveDevice, Answers
<1>3. RequestOK(kind, new) /\ ~ Holds(new) /\ RowOK(kind, new.row)
  BY <1>2, Blank DEF RequestOK, Holds, Checked, UserSeen, AgentSeen, OwnerSeen
<1>4. /\ row'.state \in Wishes /\ (row'.state = "approved" => row'.user = req[d].user)
      /\ new.wish = row'.state
  BY <1>1, <1>2 DEF RequestOK
<1>. QED BY <1>1, <1>2, <1>3, <1>4, Moves DEF Moved

\* Deciding an approval request moves it from pending to what the person wished, or refuses.
LEMMA DecideMoves ==
  ASSUME GrantInv, NEW d \in Decisions, Decide(d)
  PROVE  /\ GrantInv' /\ kind = "approval"
         /\ \E new \in Request :
              /\ Moved(d, new) /\ ~ Holds(new)
              /\ \/ /\ row.state = "pending" /\ row'.state \in Wishes /\ row'.user = row.user
                    /\ row'.interval = row.interval
                    /\ new.answer = "ok" /\ new.user = row.user /\ new.wish = row'.state
                 \/ new = Refused /\ row' = row
<1>1. /\ d \in Requests /\ req[d] \in Request /\ req[d].answer = "none" /\ kind = "approval"
      /\ row \in Row /\ RowOK(kind, row) /\ RequestOK(kind, req[d])
      /\ req[d].wish \in Wishes /\ UNCHANGED <<clock, kind, status>>
  BY Underway DEF Requests, GrantInv, Decide, RequestOK
<1>2. CASE Refuse(d) /\ row' = row
  BY <1>1, <1>2, Refusing, Blank
<1>3. CASE Decidable(d) /\ row' = [row EXCEPT !.state = req[d].wish] /\ Answer(d, "ok")
  <2>1. PICK new \in Request :
             /\ req' = [req EXCEPT ![d] = new]
             /\ new.step = "done" /\ new.answer = "ok" /\ new.row = NoRow /\ new.barred = {}
             /\ new.user = req[d].user /\ new.wish = req[d].wish
    BY <1>1, <1>3, Answering DEF Answers
  <2>2. RequestOK(kind, new) /\ ~ Holds(new) /\ RowOK(kind, new.row)
    BY <2>1, Blank DEF RequestOK, Holds, Checked, UserSeen, AgentSeen, OwnerSeen
  <2>3. /\ row' \in Row /\ row'.state = req[d].wish /\ row'.user = row.user
        /\ row'.interval = row.interval /\ row'.expires = row.expires
    BY <1>1, <1>3 DEF Row, Wishes, ApprovalStates
  <2>4. RowOK(kind, row')
    BY <1>1, <1>3, <2>3 DEF RowOK, Decidable, Wishes, ApprovalStates
  <2>. QED BY <1>1, <1>3, <2>1, <2>2, <2>3, <2>4, Moves DEF Moved, Decidable
<1>. QED BY <1>2, <1>3 DEF Decide

\* Polling a device code changes nothing but the request, which holds nothing yet.
LEMMA PollDeviceMoves ==
  ASSUME GrantInv, NEW p \in Polls, PollDevice(p)
  PROVE  /\ GrantInv' /\ UNCHANGED row /\ kind = "device"
         /\ \E new \in Request : Moved(p, new) /\ new.answer \in {"none", "refused"} /\ ~ Holds(new)
<1>1. /\ p \in Requests /\ row \in Row /\ RowOK(kind, row) /\ UNCHANGED <<clock, kind, status, row>>
      /\ kind = "device" /\ clock \in Nat
  BY GrantsAssumption DEF Requests, GrantInv, PollDevice
<1>2. req[p].step = "idle" => req[p].answer = "none"
  BY <1>1 DEF GrantInv, RequestOK
<1>. DEFINE fast == TooFast(row, clock)
            w == [row EXCEPT !.interval = IF fast THEN @ + Increment ELSE @, !.polled = clock]
<1>3. w \in Row /\ w.state = row.state /\ w.user = row.user /\ w.expires = row.expires
  <2>1. row.interval \in Nat /\ row.interval + Increment \in Nat
    BY <1>1, GrantsAssumption DEF Row
  <2>. DEFINE i == IF fast THEN row.interval + Increment ELSE row.interval
  <2>2. i \in Nat /\ w = [row EXCEPT !.interval = i, !.polled = clock]
    BY <2>1
  <2>. HIDE DEF i, w
  <2>. QED BY <1>1, <2>2 DEF Row
<1>4. PICK new : /\ Begin(p, new)
                 /\ \/ new = Refused
                    \/ new = Asks("exchange", NoRow)
                    \/ row.state = "issued" /\ \E s \in {"slow", "wait"} : new = Asks(s, w)
  <2>. DEFINE n == CASE Expired(row, clock) \/ row.state \in {"none", "denied", "exchanged"} -> Refused
                     [] row.state = "approved" -> Asks("exchange", NoRow)
                     [] OTHER -> Asks(IF fast THEN "slow" ELSE "wait", w)
  <2>1. Begin(p, n)
    BY DEF PollDevice
  <2>2. \/ n = Refused
        \/ n = Asks("exchange", NoRow)
        \/ row.state = "issued" /\ \E s \in {"slow", "wait"} : n = Asks(s, w)
    <3>. HIDE DEF w, fast
    <3>1. row.state \in {"none", "issued", "approved", "denied", "exchanged"}
      BY <1>1 DEF RowOK, DeviceStates
    <3>. QED BY <3>1
  <2>. HIDE DEF n
  <2>. QED BY <2>1, <2>2
<1>. HIDE DEF w, fast
<1>5. RowOK(kind, w)
  BY <1>1, <1>3 DEF RowOK
<1>6. CASE new = Refused
  BY <1>1, <1>2, <1>4, <1>6, Refusing, Blank DEF Begin, Refuse
<1>7. CASE new = Asks("exchange", NoRow)
  <2>1. /\ new \in Request /\ new.step = "exchange" /\ new.row = NoRow /\ new.barred = Stopped
        /\ new.answer = "none" /\ RowOK(kind, NoRow)
    BY <1>7, Asking, Blank DEF Steps
  <2>2. RequestOK(kind, new) /\ ~ Holds(new)
    BY <1>1, <2>1 DEF RequestOK, Holds, Checked, UserSeen, AgentSeen, OwnerSeen
  <2>. QED BY <1>1, <1>2, <1>4, <2>1, <2>2, Moves DEF Begin, Moved
<1>8. ASSUME NEW s \in {"slow", "wait"}, new = Asks(s, w), row.state = "issued"
      PROVE  GrantInv' /\ Moved(p, new) /\ new \in Request /\ new.answer = "none" /\ ~ Holds(new)
  <2>1. /\ new \in Request /\ new.step = s /\ new.row = w /\ new.barred = Stopped /\ new.answer = "none"
    BY <1>3, <1>8, Asking DEF Steps
  <2>2. RequestOK(kind, new) /\ ~ Holds(new)
    BY <1>1, <1>3, <1>8, <2>1 DEF RequestOK, Holds, Checked, UserSeen, AgentSeen, OwnerSeen
  <2>. QED BY <1>1, <1>2, <1>4, <1>5, <2>1, <2>2, Moves DEF Begin, Moved
<1>. QED BY <1>1, <1>4, <1>6, <1>7, <1>8

\* Recording a poll of a device code puts an issued record back in the table.
LEMMA SavePollMoves ==
  ASSUME GrantInv, NEW p \in Polls, SavePoll(p)
  PROVE  /\ GrantInv' /\ kind = "device" /\ row'.state = "issued"
         /\ \E new \in Request : Moved(p, new) /\ new.answer \in {"slow_down", "refused"} /\ ~ Holds(new)
<1>1. /\ p \in Requests /\ req[p] \in Request /\ req[p].answer = "none" /\ kind = "device"
      /\ row' = req[p].row /\ row' \in Row /\ RowOK(kind, row') /\ row'.state = "issued"
      /\ UNCHANGED <<clock, kind, status>>
  BY Underway DEF Requests, GrantInv, SavePoll, RequestOK, Request
<1>2. CASE Refuse(p)
  BY <1>1, <1>2, Refusing, Blank
<1>3. CASE Answer(p, "slow_down")
  <2>1. PICK new \in Request :
             /\ req' = [req EXCEPT ![p] = new]
             /\ new.step = "done" /\ new.answer = "slow_down" /\ new.row = NoRow /\ new.barred = {}
    BY <1>1, <1>3, Answering DEF Answers
  <2>2. RequestOK(kind, new) /\ ~ Holds(new) /\ RowOK(kind, new.row)
    BY <2>1, Blank DEF RequestOK, Holds, Checked, UserSeen, AgentSeen, OwnerSeen
  <2>. QED BY <1>1, <2>1, <2>2, Moves DEF Moved
<1>. QED BY <1>2, <1>3 DEF SavePoll

\* The exchange takes an approved device code, which is approved no longer, or refuses.
LEMMA ExchangeMoves ==
  ASSUME GrantInv, NEW p \in Polls, Exchange(p)
  PROVE  /\ GrantInv' /\ kind = "device" /\ ~ Holds(req[p])
         /\ \E new \in Request :
              /\ Moved(p, new) /\ new.answer \in {"none", "refused"}
              /\ \/ /\ row.state = "approved" /\ row'.state = "exchanged"
                    /\ Holds(new) /\ new.row.user = row.user
                 \/ new = Refused /\ row' = row
<1>1. /\ p \in Requests /\ req[p] \in Request /\ req[p].answer = "none" /\ kind = "device"
      /\ row \in Row /\ RowOK(kind, row) /\ req[p].barred \subseteq Stopped
      /\ req[p].step = "exchange" /\ UNCHANGED <<clock, kind, status>>
  BY Underway DEF Requests, GrantInv, Exchange, RequestOK
<1>2. ~ Holds(req[p])
  BY <1>1 DEF Holds
<1>3. CASE Refuse(p) /\ row' = row
  BY <1>1, <1>2, <1>3, Refusing, Blank
<1>4. CASE Exchangeable /\ row' = [row EXCEPT !.state = "exchanged"] /\ With(p, "user", row')
  <2>1. /\ row' \in Row /\ row'.state = "exchanged" /\ row'.user = row.user /\ row.user \in Users
        /\ row.state = "approved"
    BY <1>1, <1>4 DEF Row, RowOK, Exchangeable, DeviceStates
  <2>2. RowOK(kind, row')
    BY <1>1, <2>1 DEF RowOK, DeviceStates
  <2>. DEFINE new == [req[p] EXCEPT !.step = "user", !.row = row']
  <2>3. /\ new \in Request /\ new.step = "user" /\ new.row = row' /\ new.barred = req[p].barred
        /\ new.answer = "none"
    BY <1>1, <2>1 DEF Request, Steps
  <2>4. req' = [req EXCEPT ![p] = new]
    BY <1>1, <1>4 DEF With, GrantInv
  <2>. HIDE DEF new
  <2>5. RequestOK(kind, new) /\ Holds(new)
    BY <1>1, <2>1, <2>3 DEF RequestOK, Holds, Checked, UserSeen, AgentSeen, OwnerSeen
  <2>. QED BY <1>1, <1>2, <2>1, <2>2, <2>3, <2>4, <2>5, Moves DEF Moved
<1>. QED BY <1>3, <1>4 DEF Exchange

\* Polling an approval request changes nothing but the request, which holds the row if it
\* was approved.
LEMMA PollApprovalMoves ==
  ASSUME GrantInv, NEW p \in Polls, PollApproval(p)
  PROVE  /\ GrantInv' /\ UNCHANGED row /\ kind = "approval"
         /\ \E new \in Request :
              /\ Moved(p, new) /\ new.answer \in {"none", "refused"} /\ ~ Consumed(new)
              /\ Holds(new) => row.state = "approved" /\ new.row.user = row.user
<1>1. /\ p \in Requests /\ row \in Row /\ RowOK(kind, row) /\ UNCHANGED <<clock, kind, status, row>>
      /\ kind = "approval"
  BY DEF Requests, GrantInv, PollApproval
<1>2. req[p].step = "idle" => req[p].answer = "none"
  BY <1>1 DEF GrantInv, RequestOK
<1>3. PICK new : /\ Begin(p, new)
                 /\ \/ new = Refused
                    \/ \E s \in {"expire", "poll"}, w \in {NoRow, row} : new = Asks(s, w)
                    \/ row.state = "approved" /\ new = Asks("user", row)
  BY DEF PollApproval
<1>4. CASE new = Refused
  BY <1>1, <1>2, <1>3, <1>4, Refusing, Blank DEF Begin, Refuse, Consumed
<1>5. ASSUME NEW s \in {"expire", "poll"}, NEW w \in {NoRow, row}, new = Asks(s, w)
      PROVE  GrantInv' /\ Moved(p, new) /\ new \in Request /\ new.answer = "none" /\ ~ Holds(new) /\ ~ Consumed(new)
  <2>1. /\ new \in Request /\ new.step = s /\ new.row = w /\ new.barred = Stopped /\ new.answer = "none"
        /\ RowOK(kind, w)
    BY <1>1, <1>5, Asking, Blank DEF Steps
  <2>2. RequestOK(kind, new) /\ ~ Holds(new) /\ ~ Consumed(new)
    BY <1>1, <2>1 DEF RequestOK, Holds, Checked, UserSeen, AgentSeen, OwnerSeen, Consumed
  <2>. QED BY <1>1, <1>2, <1>3, <2>1, <2>2, Moves DEF Begin, Moved
<1>6. CASE row.state = "approved" /\ new = Asks("user", row)
  <2>1. /\ new \in Request /\ new.step = "user" /\ new.row = row /\ new.barred = Stopped /\ new.answer = "none"
    BY <1>1, <1>6, Asking DEF Steps
  <2>2. RequestOK(kind, new) /\ ~ Consumed(new)
    BY <1>1, <1>6, <2>1 DEF RequestOK, RowOK, Holds, Checked, UserSeen, AgentSeen, OwnerSeen, Consumed
  <2>. QED BY <1>1, <1>2, <1>3, <1>6, <2>1, <2>2, Moves DEF Begin, Moved
<1>. QED BY <1>1, <1>3, <1>4, <1>5, <1>6

\* Expiry refuses the request, and ends a row that is pending or approved.
LEMMA ExpireMoves ==
  ASSUME GrantInv, NEW p \in Polls, Expire(p)
  PROVE  /\ GrantInv' /\ kind = "approval" /\ Moved(p, Refused)
         /\ \/ row' = row
            \/ /\ row.state \in {"pending", "approved"} /\ row'.state = "expired"
               /\ row'.interval = row.interval
<1>1. /\ p \in Requests /\ req[p].answer = "none" /\ kind = "approval" /\ row \in Row /\ RowOK(kind, row)
      /\ Refuse(p) /\ UNCHANGED <<clock, kind, status>>
  BY Underway DEF Requests, GrantInv, Expire, RequestOK
<1>2. CASE row' = row
  BY <1>1, <1>2, Refusing
<1>3. CASE Expirable(req[p].now) /\ row' = [row EXCEPT !.state = "expired"]
  <2>1. /\ row' \in Row /\ row'.state = "expired" /\ row'.user = row.user /\ row'.expires = row.expires
        /\ row'.interval = row.interval /\ row.state \in {"pending", "approved"}
    BY <1>1, <1>3 DEF Row, ApprovalStates, Expirable
  <2>2. RowOK(kind, row')
    BY <1>1, <2>1 DEF RowOK, ApprovalStates
  <2>. QED BY <1>1, <2>1, <2>2, Refusing
<1>. QED BY <1>2, <1>3 DEF Expire

\* A poll is recorded on a pending row, whose interval grows with each slow_down; on an
\* approved one the request goes on, and on any other it is refused.
LEMMA RecordPollMoves ==
  ASSUME GrantInv, NEW p \in Polls, RecordPoll(p)
  PROVE  /\ GrantInv' /\ kind = "approval" /\ ~ Holds(req[p])
         /\ \E new \in Request :
              /\ Moved(p, new) /\ ~ Consumed(new)
              /\ \/ /\ row.state = "pending" /\ row'.state = "pending" /\ ~ Holds(new)
                    /\ row'.user = row.user
                    /\ \/ new.answer = "slow_down" /\ row'.interval = row.interval + Increment
                       \/ new.answer = "refused" /\ row'.interval = row.interval
                 \/ /\ row.state = "approved" /\ row' = row
                    /\ Holds(new) /\ new.row.user = row.user /\ new.answer = "none"
                 \/ new = Refused /\ row' = row
<1>1. /\ p \in Requests /\ req[p] \in Request /\ req[p].answer = "none" /\ kind = "approval"
      /\ row \in Row /\ RowOK(kind, row) /\ req[p].barred \subseteq Stopped /\ ~ Holds(req[p])
      /\ UNCHANGED <<clock, kind, status>>
  BY Underway DEF Requests, GrantInv, RecordPoll, RequestOK, Holds
<1>2. ~ Consumed(Refused) /\ ~ Holds(Refused) /\ Refused \in Request /\ Refused.answer = "refused"
  BY Blank DEF Consumed
<1>3. CASE row.state = "pending"
  <2>. DEFINE fast == TooFast(row, req[p].now)
              i == IF fast THEN row.interval + Increment ELSE row.interval
  <2>1. row' = [row EXCEPT !.interval = i, !.polled = req[p].now]
    BY <1>3 DEF RecordPoll, Polled
  <2>2. i \in Nat
    BY <1>1, GrantsAssumption DEF Row
  <2>3. (IF fast THEN Answer(p, "slow_down") ELSE Refuse(p))
    BY <1>3 DEF RecordPoll
  <2>4. /\ row' \in Row /\ row'.state = "pending" /\ row'.user = row.user /\ row'.expires = row.expires
        /\ row'.interval = i
    <3>. HIDE DEF i
    <3>. QED BY <1>1, <1>3, <2>1, <2>2 DEF Row, Request
  <2>5. RowOK(kind, row')
    BY <1>1, <1>3, <2>4 DEF RowOK
  <2>6. CASE fast
    <3>1. PICK new \in Request :
             /\ req' = [req EXCEPT ![p] = new]
             /\ new.step = "done" /\ new.answer = "slow_down" /\ new.row = NoRow /\ new.barred = {}
      BY <1>1, <2>3, <2>6, Answering DEF Answers
    <3>2. RequestOK(kind, new) /\ ~ Holds(new) /\ ~ Consumed(new) /\ RowOK(kind, new.row)
      BY <3>1, Blank DEF RequestOK, Holds, Checked, UserSeen, AgentSeen, OwnerSeen, Consumed
    <3>. QED BY <1>1, <1>3, <2>4, <2>5, <2>6, <3>1, <3>2, Moves DEF Moved
  <2>7. CASE ~ fast
    BY <1>1, <1>2, <1>3, <2>3, <2>4, <2>5, <2>7, Refusing
  <2>. QED BY <2>6, <2>7
<1>4. CASE row.state # "pending" /\ Refuse(p) /\ row' = row
  BY <1>1, <1>2, <1>4, Refusing
<1>5. CASE row.state = "approved" /\ With(p, "user", row) /\ row' = row
  <2>. DEFINE new == [req[p] EXCEPT !.step = "user", !.row = row]
  <2>1. /\ new \in Request /\ new.step = "user" /\ new.row = row /\ new.barred = req[p].barred
        /\ new.answer = "none"
    BY <1>1 DEF Request, Steps
  <2>2. req' = [req EXCEPT ![p] = new]
    BY <1>1, <1>5 DEF With, GrantInv
  <2>. HIDE DEF new
  <2>3. RequestOK(kind, new) /\ Holds(new) /\ ~ Consumed(new)
    BY <1>1, <1>5, <2>1 DEF RequestOK, RowOK, Holds, Checked, UserSeen, AgentSeen, OwnerSeen, Consumed
  <2>. QED BY <1>1, <1>5, <2>1, <2>2, <2>3, Moves DEF Moved
<1>. QED BY <1>3, <1>4, <1>5 DEF RecordPoll

\* Whoever a request looks at is active, or it is refused.
LEMMA CheckMoves ==
  ASSUME GrantInv, NEW p \in Polls, Check(p)
  PROVE  /\ GrantInv' /\ UNCHANGED row /\ Holds(req[p])
         /\ \E new \in Request :
              /\ Moved(p, new) /\ new.answer \in {"none", "refused"}
              /\ Holds(new) => new.row = req[p].row
              /\ kind = "approval" => ~ Consumed(new)
<1>1. /\ p \in Requests /\ req[p] \in Request /\ req[p].answer = "none" /\ kind # "none"
      /\ row \in Row /\ RowOK(kind, row) /\ req[p].barred \subseteq Stopped /\ Holds(req[p])
      /\ RowOK(kind, req[p].row) /\ RequestOK(kind, req[p])
      /\ req[p].step \in {"user", "agent", "owner"} /\ UNCHANGED <<clock, kind, status, row>>
  BY Underway DEF Requests, GrantInv, Check, Holds
<1>2. CASE Refuse(p)
  BY <1>1, <1>2, Refusing, Blank DEF Consumed
<1>3. CASE Active(LookedAt(p)) /\ To(p, Onward(p))
  <2>. DEFINE s == Onward(p)
              new == [req[p] EXCEPT !.step = s]
  <2>0. \/ kind = "device" /\ s = "sign" /\ req[p].step = "user"
        \/ kind = "approval" /\ req[p].step = "user" /\ req[p].row.bound /\ s = "agent"
        \/ kind = "approval" /\ req[p].step = "user" /\ ~ req[p].row.bound /\ s = "consume"
        \/ kind = "approval" /\ req[p].step = "agent" /\ s = "owner"
        \/ kind = "approval" /\ req[p].step = "owner" /\ s = "consume"
    <3>1. kind \in {"device", "approval"}
      BY <1>1 DEF GrantInv
    <3>2. kind = "device" => req[p].step = "user"
      BY <1>1 DEF RequestOK
    <3>. QED BY <1>1, <3>1, <3>2 DEF Onward
  <2>1. LookedAt(p) \notin req[p].barred
    BY <1>1, <1>3 DEF Stopped
  <2>2. /\ req[p].step = "user" => LookedAt(p) = req[p].row.user
        /\ req[p].step = "agent" => LookedAt(p) = Agent
        /\ req[p].step = "owner" => LookedAt(p) = Owner
    BY DEF LookedAt
  <2>. HIDE DEF s
  <2>3. /\ new \in Request /\ new.step = s /\ new.row = req[p].row /\ new.barred = req[p].barred
        /\ new.answer = "none"
    BY <1>1, <2>0 DEF Request, Steps
  <2>4. req' = [req EXCEPT ![p] = new]
    BY <1>1, <1>3 DEF To, GrantInv, s
  <2>. HIDE DEF new
  <2>5. Checked(kind, req[p])
    BY <1>1 DEF RequestOK
  <2>6. Checked(kind, new)
    BY <2>0, <2>1, <2>2, <2>3, <2>5 DEF Checked, UserSeen, AgentSeen, OwnerSeen
  <2>7. RequestOK(kind, new) /\ Holds(new)
    BY <1>1, <2>0, <2>3, <2>6 DEF RequestOK, Holds
  <2>8. kind = "approval" => ~ Consumed(new)
    BY <2>0, <2>3 DEF Consumed
  <2>. QED BY <1>1, <2>3, <2>4, <2>7, <2>8, Moves DEF Moved
<1>. QED BY <1>2, <1>3 DEF Check

\* An approved row is consumed by a request made in time, or the request is refused.
LEMMA ConsumeMoves ==
  ASSUME GrantInv, NEW p \in Polls, Consume(p)
  PROVE  /\ GrantInv' /\ kind = "approval" /\ Holds(req[p])
         /\ \E new \in Request :
              /\ Moved(p, new) /\ new.answer \in {"none", "refused"}
              /\ \/ /\ row.state = "approved" /\ row'.state = "consumed" /\ row'.user = row.user
                    /\ row'.interval = row.interval
                    /\ Holds(new) /\ new.row = req[p].row /\ new.now < TTL
                 \/ new = Refused /\ row' = row
<1>1. /\ p \in Requests /\ req[p] \in Request /\ req[p].answer = "none" /\ kind = "approval"
      /\ row \in Row /\ RowOK(kind, row) /\ req[p].barred \subseteq Stopped /\ Holds(req[p])
      /\ RowOK(kind, req[p].row) /\ RequestOK(kind, req[p])
      /\ req[p].step = "consume" /\ UNCHANGED <<clock, kind, status>>
  BY Underway DEF Requests, GrantInv, Consume, RequestOK, Holds
<1>2. CASE Refuse(p) /\ row' = row
  BY <1>1, <1>2, Refusing, Blank
<1>3. CASE Consumable(p) /\ row' = [row EXCEPT !.state = "consumed"] /\ To(p, "sign")
  <2>1. /\ row' \in Row /\ row'.state = "consumed" /\ row'.user = row.user /\ row'.expires = row.expires
        /\ row'.interval = row.interval /\ row.state = "approved" /\ req[p].now < row.expires
    BY <1>1, <1>3 DEF Row, ApprovalStates, Consumable
  <2>2. RowOK(kind, row') /\ row.expires = TTL
    BY <1>1, <2>1 DEF RowOK, ApprovalStates
  <2>. DEFINE new == [req[p] EXCEPT !.step = "sign"]
  <2>3. /\ new \in Request /\ new.step = "sign" /\ new.row = req[p].row /\ new.barred = req[p].barred
        /\ new.answer = "none" /\ new.now = req[p].now
    BY <1>1 DEF Request, Steps
  <2>4. req' = [req EXCEPT ![p] = new]
    BY <1>1, <1>3 DEF To, GrantInv
  <2>. HIDE DEF new
  <2>5. RequestOK(kind, new) /\ Holds(new)
    BY <1>1, <2>3 DEF RequestOK, Holds, Checked, UserSeen, AgentSeen, OwnerSeen
  <2>. QED BY <1>1, <2>1, <2>2, <2>3, <2>4, <2>5, Moves DEF Moved
<1>. QED BY <1>2, <1>3 DEF Consume

\* Signing answers with the tokens; a device code may be saved once more, as exchanged.
LEMMA SignMoves ==
  ASSUME GrantInv, NEW p \in Polls, Sign(p)
  PROVE  /\ GrantInv' /\ Consumed(req[p]) /\ Holds(req[p])
         /\ row' = row \/ (kind = "device" /\ row'.state = "exchanged")
         /\ \E new \in Request :
              /\ Moved(p, new) /\ new.answer = "token" /\ new.row = req[p].row /\ new.now = req[p].now
<1>1. /\ p \in Requests /\ req[p] \in Request /\ req[p].answer = "none" /\ kind # "none"
      /\ row \in Row /\ RowOK(kind, row) /\ req[p].barred \subseteq Stopped
      /\ Holds(req[p]) /\ Consumed(req[p])
      /\ RowOK(kind, req[p].row) /\ RequestOK(kind, req[p]) /\ req[p].row \in Row
      /\ req[p].step = "sign" /\ UNCHANGED <<clock, kind, status>>
  BY Underway DEF Requests, GrantInv, Sign, Holds, Consumed, Request
<1>2. row' \in Row /\ RowOK(kind, row') /\ (row' = row \/ (kind = "device" /\ row'.state = "exchanged"))
  BY <1>1 DEF Sign, RequestOK
<1>. DEFINE new == [req[p] EXCEPT !.step = "done", !.answer = "token"]
<1>3. /\ new \in Request /\ new.step = "done" /\ new.row = req[p].row /\ new.barred = req[p].barred
      /\ new.answer = "token" /\ new.now = req[p].now
  BY <1>1 DEF Request, Steps, Answers
<1>4. req' = [req EXCEPT ![p] = new]
  BY <1>1 DEF Sign, GrantInv
<1>. HIDE DEF new
<1>5. RequestOK(kind, new)
  BY <1>1, <1>3 DEF RequestOK, Holds, Checked, UserSeen, AgentSeen, OwnerSeen
<1>. QED BY <1>1, <1>2, <1>3, <1>4, <1>5, Moves DEF Moved

\* Matching an operation changes nothing but the request.
LEMMA MatchMoves ==
  ASSUME GrantInv, NEW e \in Evaluations, NEW k \in OperationKeys, Match(e, k)
  PROVE  /\ GrantInv' /\ UNCHANGED row /\ kind = "approval"
         /\ \E new \in Request : Moved(e, new) /\ new.answer \in {"none", "refused"} /\ ~ Holds(new)
<1>1. /\ e \in Requests /\ row \in Row /\ RowOK(kind, row) /\ UNCHANGED <<clock, kind, status, row>>
      /\ kind = "approval" /\ clock \in Nat
  BY GrantsAssumption DEF Requests, GrantInv, Match
<1>2. req[e].step = "idle" => req[e].answer = "none"
  BY <1>1 DEF GrantInv, RequestOK
<1>3. PICK new \in {Refused, [NoReq EXCEPT !.step = "claim", !.now = clock, !.wish = k]} : Begin(e, new)
  BY DEF Match
<1>4. CASE new = Refused
  BY <1>1, <1>2, <1>3, <1>4, Refusing, Blank DEF Begin, Refuse
<1>5. CASE new = [NoReq EXCEPT !.step = "claim", !.now = clock, !.wish = k]
  <2>1. NoReq \in Request /\ NoReq.answer = "none" /\ NoReq.barred = {} /\ NoReq.row = NoRow
    BY Blank DEF NoReq
  <2>2. /\ new \in Request /\ new.step = "claim" /\ new.wish = k /\ new.answer = "none"
        /\ new.barred = {} /\ new.row = NoRow /\ RowOK(kind, NoRow)
    BY <1>1, <1>5, <2>1, Blank DEF Request, Steps
  <2>3. RequestOK(kind, new) /\ ~ Holds(new)
    BY <1>1, <2>2 DEF RequestOK, Holds, Checked, UserSeen, AgentSeen, OwnerSeen
  <2>. QED BY <1>1, <1>2, <1>3, <2>2, <2>3, Moves DEF Begin, Moved
<1>. QED BY <1>3, <1>4, <1>5

\* A permit bears the key that the row has recorded, from now on or from before.
LEMMA ClaimMoves ==
  ASSUME GrantInv, NEW e \in Evaluations, Claim(e) \/ Reread(e)
  PROVE  /\ GrantInv' /\ kind = "approval"
         /\ row'.state = row.state /\ row'.user = row.user /\ row'.interval = row.interval
         /\ row' = row \/ (row.use = None /\ row.state = "consumed")
         /\ \E new \in Request :
              /\ Moved(e, new) /\ new.answer \in {"none", "permitted", "refused"} /\ ~ Holds(new)
              /\ new.answer = "permitted" => row'.state = "consumed" /\ row'.use = new.wish
<1>1. /\ e \in Requests /\ req[e] \in Request /\ req[e].answer = "none" /\ kind = "approval"
      /\ row \in Row /\ RowOK(kind, row) /\ req[e].wish \in OperationKeys
      /\ RowOK(kind, req[e].row) /\ req[e].barred \subseteq Stopped
      /\ UNCHANGED <<clock, kind, status>>
  BY Underway DEF Requests, GrantInv, Claim, Reread, RequestOK
<1>2. \/ row' = row
      \/ row' = [row EXCEPT !.use = req[e].wish] /\ row.use = None /\ row.state = "consumed"
  BY DEF Claim, Reread, Claimable
<1>3. /\ row' \in Row /\ row'.state = row.state /\ row'.user = row.user /\ row'.interval = row.interval
      /\ row'.expires = row.expires
  BY <1>1, <1>2 DEF Row
<1>4. RowOK(kind, row')
  BY <1>1, <1>3 DEF RowOK
<1>5. CASE Refuse(e)
  BY <1>1, <1>2, <1>3, <1>4, <1>5, Refusing, Blank
<1>6. CASE To(e, "reread") /\ row' = row
  <2>. DEFINE new == [req[e] EXCEPT !.step = "reread"]
  <2>1. /\ new \in Request /\ new.step = "reread" /\ new.row = req[e].row /\ new.barred = req[e].barred
        /\ new.answer = "none" /\ new.wish = req[e].wish
    BY <1>1 DEF Request, Steps
  <2>2. req' = [req EXCEPT ![e] = new]
    BY <1>1, <1>6 DEF To, GrantInv
  <2>. HIDE DEF new
  <2>3. RequestOK(kind, new) /\ ~ Holds(new)
    BY <1>1, <2>1 DEF RequestOK, Holds, Checked, UserSeen, AgentSeen, OwnerSeen
  <2>. QED BY <1>1, <1>4, <1>6, <2>1, <2>2, <2>3, Moves DEF Moved
<1>7. CASE /\ row'.state = "consumed" /\ req[e].now < row'.expires /\ row'.use = req[e].wish
           /\ Answer(e, "permitted")
  <2>1. PICK new \in Request :
           /\ req' = [req EXCEPT ![e] = new]
           /\ new.step = "done" /\ new.answer = "permitted" /\ new.row = NoRow /\ new.barred = {}
           /\ new.wish = req[e].wish /\ new.now = req[e].now
    BY <1>1, <1>7, Answering DEF Answers
  <2>2. row'.expires = TTL
    BY <1>1, <1>4, <1>7 DEF RowOK
  <2>3. RequestOK(kind, new) /\ ~ Holds(new) /\ RowOK(kind, new.row)
    BY <1>1, <1>7, <2>1, <2>2, Blank DEF RequestOK, Holds, Checked, UserSeen, AgentSeen, OwnerSeen
  <2>. QED BY <1>1, <1>2, <1>3, <1>4, <1>7, <2>1, <2>3, Moves DEF Moved
<1>8. CASE Claimable(req[e].now) /\ row' = [row EXCEPT !.use = req[e].wish] /\ Answer(e, "permitted")
  <2>1. row'.state = "consumed" /\ req[e].now < row'.expires /\ row'.use = req[e].wish
    BY <1>1, <1>3, <1>8 DEF Claimable, Row
  <2>. QED BY <1>7, <1>8, <2>1
<1>. QED BY <1>5, <1>6, <1>7, <1>8 DEF Claim, Reread

\* A grant starts with every request still to come.
LEMMA Starts ==
  ASSUME GrantInv, \E b \in BOOLEAN : StartDevice(b) \/ \E u \in Users : StartApproval(u, b)
  PROVE  /\ GrantInv' /\ kind' \in {"device", "approval"} /\ UNCHANGED req
         /\ \A r \in Requests : req[r] = NoReq
         /\ row'.state = IF kind' = "device" THEN "issued" ELSE "pending"
         /\ row'.interval = Interval
<1>1. /\ kind = "none" /\ clock = 0 /\ (\A r \in Requests : req[r] = NoReq)
      /\ UNCHANGED <<clock, status, req>>
  BY DEF StartDevice, StartApproval, GrantInv
<1>2. clock + TTL = TTL /\ NoRow \in Row /\ NoRow.interval = Interval /\ TTL \in Nat
  <2>1. NoRow \in Row
    BY Blank
  <2>2. NoRow.interval = Interval
    BY DEF NoRow
  <2>3. clock + TTL = TTL /\ TTL \in Nat
    BY <1>1, GrantsAssumption
  <2>. QED BY <2>1, <2>2, <2>3
<1>3. ASSUME NEW b \in BOOLEAN, StartDevice(b)
      PROVE  kind' = "device" /\ row' \in Row /\ RowOK(kind', row') /\ row'.state = "issued" /\ row'.interval = Interval
  <2>1. kind' = "device" /\ row' = [NoRow EXCEPT !.state = "issued", !.bound = b, !.expires = TTL]
    BY <1>2, <1>3 DEF StartDevice
  <2>2. row' \in Row /\ row'.state = "issued" /\ row'.interval = Interval
    BY <1>2, <2>1 DEF Row, DeviceStates
  <2>3. RowOK(kind', row')
    BY <2>1, <2>2 DEF RowOK, DeviceStates
  <2>. QED BY <2>1, <2>2, <2>3
<1>4. ASSUME NEW u \in Users, NEW b \in BOOLEAN, StartApproval(u, b)
      PROVE  kind' = "approval" /\ row' \in Row /\ RowOK(kind', row') /\ row'.state = "pending" /\ row'.interval = Interval
  <2>1. /\ kind' = "approval"
        /\ row' = [NoRow EXCEPT !.state = "pending", !.user = u, !.bound = b, !.expires = TTL]
    BY <1>2, <1>4 DEF StartApproval
  <2>2. row' \in Row /\ row'.state = "pending" /\ row'.user = u /\ row'.expires = TTL /\ row'.interval = Interval
    BY <1>2, <2>1 DEF Row, ApprovalStates
  <2>3. RowOK(kind', row')
    BY <2>1, <2>2 DEF RowOK, ApprovalStates
  <2>. QED BY <2>1, <2>2, <2>3
<1>5. /\ kind' \in {"device", "approval"} /\ row' \in Row /\ RowOK(kind', row')
      /\ row'.state = (IF kind' = "device" THEN "issued" ELSE "pending") /\ row'.interval = Interval
  BY <1>3, <1>4
<1>6. \A r \in Requests : /\ RowOK(kind', req[r].row) /\ RequestOK(kind', req[r])
                          /\ req[r].barred = {}
  BY <1>1, Blank
<1>7. GrantInv'
  BY <1>1, <1>5, <1>6 DEF GrantInv
<1>. QED BY <1>1, <1>5, <1>7

\* What happens around the requests leaves them alone, and the row too or deletes it.
LEMMA Surroundings ==
  ASSUME GrantInv,
         \/ \E p \in People : Stop(p)
         \/ \E u \in Users : DeleteAllForSub(u)
         \/ Sweep \/ Tick \/ UNCHANGED vars
  PROVE  GrantInv' /\ UNCHANGED <<kind, req>> /\ row' \in {row, NoRow}
<1>1. ASSUME NEW p \in People, Stop(p) PROVE GrantInv'
  <2>1. status' \in [People -> {"active", "stopped"}] /\ Stopped \subseteq Stopped'
    BY <1>1 DEF Stop, Stopped, Active, GrantInv
  <2>. HIDE DEF Stopped
  <2>. QED BY <1>1, <2>1 DEF GrantInv, Stop
<1>2. CASE (\E u \in Users : DeleteAllForSub(u)) \/ Sweep
  <2>1. row' = NoRow /\ UNCHANGED <<clock, kind, status, req>> /\ Stopped' = Stopped
    BY <1>2 DEF DeleteAllForSub, Sweep, Stopped, Active
  <2>. HIDE DEF Stopped
  <2>. QED BY <2>1, Blank DEF GrantInv
<1>3. CASE Tick \/ UNCHANGED vars
  <2>1. /\ UNCHANGED <<row, kind, status, req>> /\ Stopped' = Stopped
        /\ clock' \in 0..MaxClock /\ (kind = "none" => clock' = clock)
    BY <1>3, GrantsAssumption DEF Tick, vars, Stopped, Active, GrantInv
  <2>. HIDE DEF Stopped
  <2>. QED BY <2>1 DEF GrantInv
<1>4. UNCHANGED <<kind, req>> /\ row' \in {row, NoRow}
  BY DEF Stop, DeleteAllForSub, Sweep, Tick, vars
<1>. QED BY <1>1, <1>2, <1>3, <1>4

\* The steps of Next, each with what it is a step of.
LEMMA Cases ==
  ASSUME [Next]_vars
  PROVE  \/ \E b \in BOOLEAN : StartDevice(b) \/ \E u \in Users : StartApproval(u, b)
         \/ \E d \in Decisions, u \in Users, wish \in Wishes :
              ReadDevice(d, u, wish) \/ ReadApproval(d, u, wish)
         \/ \E d \in Decisions : SaveDevice(d) \/ Decide(d)
         \/ \E p \in Polls : PollDevice(p) \/ SavePoll(p) \/ Exchange(p)
         \/ \E p \in Polls : PollApproval(p) \/ Expire(p) \/ RecordPoll(p) \/ Check(p) \/ Consume(p) \/ Sign(p)
         \/ \E e \in Evaluations : Claim(e) \/ Reread(e) \/ \E k \in OperationKeys : Match(e, k)
         \/ \E p \in People : Stop(p)
         \/ \E u \in Users : DeleteAllForSub(u)
         \/ Sweep \/ Tick \/ UNCHANGED vars
BY Zenon DEF Next, Wishes

\* Every step keeps the types and what requests hold.
LEMMA NextGrant == GrantInv /\ [Next]_vars => GrantInv'
<1>. SUFFICES ASSUME GrantInv, [Next]_vars PROVE GrantInv'
  OBVIOUS
<1>. QED BY Cases, Starts, ReadDecision, SaveDecision, DecideMoves, PollDeviceMoves, SavePollMoves,
            ExchangeMoves, PollApprovalMoves, ExpireMoves, RecordPollMoves, CheckMoves, ConsumeMoves,
            SignMoves, MatchMoves, ClaimMoves, Surroundings

\* The type invariant of the grants, for every instance.
THEOREM GrantTypes == Spec => []TypeOK
<1>1. GrantInv => TypeOK
  BY GrantsAssumption DEF GrantInv, TypeOK, RowOK, RequestOK, Row
<1>. QED BY <1>1, InitGrant, NextGrant, PTL DEF Spec

\* A request that began after its user was stopped gets no token, nor does one for an
\* approval that began after the agent of its client, or the agent's owner, was: they are
\* looked at after it began (approval_flow.go, device_flow.go), and who is stopped stays so.
THEOREM BarredGetNothing == Spec => []NoTokenForBarred
<1>1. GrantInv => NoTokenForBarred
  BY DEF GrantInv, NoTokenForBarred, Answered, RequestOK, Checked, UserSeen, AgentSeen, OwnerSeen, Requests
<1>. QED BY <1>1, InitGrant, NextGrant, PTL DEF Spec

-------------------------------------------------------------------------------
(* Approval requests. *)

\* The other requests are where they were.
LEMMA Others ==
  ASSUME GrantInv, NEW r \in Requests, NEW new \in Request, Moved(r, new)
  PROVE  /\ \A q \in Requests : req'[q] = IF q = r THEN new ELSE req[q]
         /\ Polls \subseteq Requests /\ Decisions \subseteq Requests /\ Evaluations \subseteq Requests
BY DEF GrantInv, Moved, Requests

\* A request that decides nothing, holds only what it finds approved or held before, and
\* consumes only what nobody has consumed, keeps the decision and the consumption single.
LEMMA ApprovalMove ==
  ASSUME GrantInv, ApprovalInv, NEW r \in Requests, NEW new \in Request, Moved(r, new),
         new.answer # "ok",
         row'.state = "pending" => row.state = "pending",
         row'.state \in {"approved", "consumed"} => row.state \in {"approved", "consumed"} /\ row'.user = row.user,
         row.state \in {"consumed", "none"} => row'.state \in {"consumed", "none"},
         Holds(new) => \/ row.state = "approved" /\ new.row.user = row.user
                       \/ r \in Polls /\ Holds(req[r]) /\ new.row.user = req[r].row.user,
         Consumed(new) => /\ row'.state \in {"consumed", "none"} /\ new.now < TTL
                          /\ \A p \in Polls : Consumed(req[p]) => p = r
  PROVE  ApprovalInv'
<1>1. SUFFICES ASSUME kind = "approval" PROVE ApprovalInv'
  BY DEF ApprovalInv, Moved
<1>2. \A q \in Requests : req'[q] = IF q = r THEN new ELSE req[q]
  BY Others
<1>3. Polls \subseteq Requests /\ Decisions \subseteq Requests /\ req[r].answer = "none"
  BY Others DEF Moved
<1>4. Answered(Decisions, "ok")' = Answered(Decisions, "ok")
  BY <1>2, <1>3 DEF Answered
<1>5. \A u : ApprovedBy(u) => ApprovedBy(u)'
  BY <1>2, <1>3 DEF ApprovedBy
<1>6. \A u : \A p \in Polls : Holds(req'[p]) /\ u = req'[p].row.user => ApprovedBy(u)'
  BY <1>1, <1>2, <1>3, <1>5 DEF ApprovalInv
<1>7. \A p \in Polls : Consumed(req'[p]) => row'.state \in {"consumed", "none"} /\ req'[p].now < TTL
  BY <1>1, <1>2, <1>3 DEF ApprovalInv
<1>8. \A p, q \in Polls : Consumed(req'[p]) /\ Consumed(req'[q]) => p = q
  BY <1>1, <1>2, <1>3 DEF ApprovalInv
<1>9. \A u : row'.state \in {"approved", "consumed"} /\ u = row'.user => ApprovedBy(u)'
  BY <1>1, <1>5 DEF ApprovalInv
<1>10. /\ row'.state = "pending" => Answered(Decisions, "ok")' = {}
       /\ \A d, e \in Answered(Decisions, "ok")' : d = e
  BY <1>1, <1>4 DEF ApprovalInv
<1>. QED BY <1>6, <1>7, <1>8, <1>9, <1>10 DEF ApprovalInv, Holds, Consumed, ApprovedBy

\* Every step keeps the decision of an approval request and its consumption single.
LEMMA NextApproval == GrantInv /\ ApprovalInv /\ [Next]_vars => ApprovalInv'
<1>. SUFFICES ASSUME GrantInv, ApprovalInv, [Next]_vars PROVE ApprovalInv'
  OBVIOUS
<1>0. \A q : Consumed(q) => Holds(q)
  BY DEF Consumed, Holds
<1>00. Polls \subseteq Requests /\ Decisions \subseteq Requests /\ Evaluations \subseteq Requests
  BY DEF Requests
<1>1. CASE \E b \in BOOLEAN : StartDevice(b) \/ \E u \in Users : StartApproval(u, b)
  <2>1. \A r \in Requests : req'[r].answer = "none" /\ ~ Holds(req'[r])
    BY <1>1, Starts DEF Holds, NoReq
  <2>2. Answered(Decisions, "ok")' = {}
    BY <1>00, <2>1 DEF Answered
  <2>3. kind' = "approval" => row'.state = "pending"
    BY <1>1, Starts
  <2>. QED BY <1>0, <1>00, <2>1, <2>2, <2>3 DEF ApprovalInv
<1>2. ASSUME NEW d \in Decisions, NEW u \in Users, NEW wish \in Wishes,
             ReadDevice(d, u, wish) \/ ReadApproval(d, u, wish)
      PROVE  ApprovalInv'
  BY <1>0, <1>00, <1>2, ReadDecision, ApprovalMove
<1>3. ASSUME NEW d \in Decisions, SaveDevice(d) PROVE ApprovalInv'
  BY <1>3, SaveDecision DEF ApprovalInv, Moved
<1>4. ASSUME NEW d \in Decisions, Decide(d) PROVE ApprovalInv'
  <2>1. PICK new \in Request :
              /\ Moved(d, new) /\ ~ Holds(new)
              /\ \/ /\ row.state = "pending" /\ row'.state \in Wishes /\ row'.user = row.user
                    /\ new.answer = "ok" /\ new.user = row.user /\ new.wish = row'.state
                 \/ new = Refused /\ row' = row
    BY <1>4, DecideMoves
  <2>2. CASE new = Refused /\ row' = row
    BY <1>0, <1>00, <2>1, <2>2, Blank, ApprovalMove
  <2>3. CASE /\ row.state = "pending" /\ row'.state \in Wishes /\ row'.user = row.user
             /\ new.answer = "ok" /\ new.user = row.user /\ new.wish = row'.state
    <3>0. kind = "approval" /\ kind' = kind
      BY <1>4, <2>1, DecideMoves DEF Moved
    <3>1. /\ kind = "approval" /\ kind' = kind
          /\ \A q \in Requests : req'[q] = IF q = d THEN new ELSE req[q]
      BY <1>00, <2>1, <3>0, Others
    <3>2. Answered(Decisions, "ok") = {}
      BY <2>3, <3>1 DEF ApprovalInv
    <3>3. Answered(Decisions, "ok")' = {d}
      BY <1>00, <2>3, <3>1, <3>2 DEF Answered
    <3>4. \A u : row'.state = "approved" /\ u = row'.user => ApprovedBy(u)'
      BY <1>00, <2>3, <3>1 DEF ApprovedBy
    <3>5. \A p \in Polls : ~ Holds(req'[p])
      <4>1. \A p \in Polls : Holds(req[p]) => ApprovedBy(req[p].row.user)
        BY <3>1 DEF ApprovalInv
      <4>2. \A u : ~ ApprovedBy(u)
        BY <3>2 DEF ApprovedBy, Answered
      <4>. QED BY <1>00, <2>1, <3>1, <4>1, <4>2
    <3>. QED BY <1>0, <2>3, <3>1, <3>3, <3>4, <3>5 DEF ApprovalInv, Wishes, Holds, Consumed, ApprovedBy
  <2>. QED BY <2>1, <2>2, <2>3
<1>5. ASSUME NEW p \in Polls, PollDevice(p) \/ SavePoll(p) \/ Exchange(p) PROVE ApprovalInv'
  <2>1. kind = "device" /\ kind' = kind
    BY <1>5, PollDeviceMoves, SavePollMoves, ExchangeMoves DEF Moved
  <2>. QED BY <2>1 DEF ApprovalInv
<1>6. ASSUME NEW p \in Polls, PollApproval(p) PROVE ApprovalInv'
  BY <1>00, <1>6, PollApprovalMoves, ApprovalMove
<1>7. ASSUME NEW p \in Polls, Expire(p) PROVE ApprovalInv'
  BY <1>0, <1>00, <1>7, ExpireMoves, Blank, ApprovalMove
<1>8. ASSUME NEW p \in Polls, RecordPoll(p) PROVE ApprovalInv'
  <2>1. PICK new \in Request :
              /\ Moved(p, new) /\ ~ Consumed(new) /\ new.answer # "ok"
              /\ \/ row.state = "pending" /\ row'.state = "pending" /\ ~ Holds(new) /\ row'.user = row.user
                 \/ row.state = "approved" /\ row' = row /\ Holds(new) /\ new.row.user = row.user
                 \/ ~ Holds(new) /\ row' = row
    BY <1>8, RecordPollMoves, Blank
  <2>. QED BY <1>00, <2>1, ApprovalMove
<1>9. ASSUME NEW p \in Polls, Check(p) PROVE ApprovalInv'
  <2>1. CASE kind = "approval"
    BY <1>00, <1>9, <2>1, CheckMoves, ApprovalMove
  <2>2. CASE kind # "approval"
    BY <1>9, <2>2 DEF Check, ApprovalInv
  <2>. QED BY <2>1, <2>2
<1>10. ASSUME NEW p \in Polls, Consume(p) PROVE ApprovalInv'
  <2>1. PICK new \in Request :
              /\ Moved(p, new) /\ new.answer # "ok"
              /\ \/ /\ row.state = "approved" /\ row'.state = "consumed" /\ row'.user = row.user
                    /\ new.row = req[p].row /\ new.now < TTL
                 \/ ~ Holds(new) /\ row' = row
    BY <1>10, ConsumeMoves, Blank
  <2>2. kind = "approval" /\ Holds(req[p])
    BY <1>10, ConsumeMoves
  <2>3. row.state = "approved" => \A q \in Polls : ~ Consumed(req[q])
    BY <2>2 DEF ApprovalInv
  <2>. QED BY <1>0, <1>00, <2>1, <2>2, <2>3, ApprovalMove
<1>11. ASSUME NEW p \in Polls, Sign(p) PROVE ApprovalInv'
  <2>1. CASE kind = "approval"
    <3>1. PICK new \in Request :
            Moved(p, new) /\ new.answer = "token" /\ new.row = req[p].row /\ new.now = req[p].now
      BY <1>11, SignMoves
    <3>2. row' = row /\ Consumed(req[p]) /\ Holds(req[p])
      BY <1>11, <2>1, SignMoves
    <3>3. /\ row.state \in {"consumed", "none"} /\ req[p].now < TTL
          /\ \A q \in Polls : Consumed(req[q]) => q = p
      BY <2>1, <3>2 DEF ApprovalInv
    <3>. QED BY <1>00, <3>1, <3>2, <3>3, ApprovalMove
  <2>2. CASE kind # "approval"
    BY <1>11, <2>2 DEF Sign, ApprovalInv
  <2>. QED BY <2>1, <2>2
<1>12. ASSUME NEW e \in Evaluations, NEW k \in OperationKeys, Match(e, k) PROVE ApprovalInv'
  BY <1>0, <1>00, <1>12, MatchMoves, ApprovalMove
<1>13. ASSUME NEW e \in Evaluations, Claim(e) \/ Reread(e) PROVE ApprovalInv'
  BY <1>0, <1>00, <1>13, ClaimMoves, ApprovalMove
<1>14. CASE \/ \E p \in People : Stop(p)
            \/ \E u \in Users : DeleteAllForSub(u)
            \/ Sweep \/ Tick \/ UNCHANGED vars
  <2>1. UNCHANGED <<kind, req>> /\ row' \in {row, NoRow} /\ NoRow.state = "none"
    BY <1>14, Surroundings, Blank
  <2>. QED BY <2>1 DEF ApprovalInv, Answered, ApprovedBy, Holds, Consumed
<1>. QED BY Cases, <1>1, <1>2, <1>3, <1>4, <1>5, <1>6, <1>7, <1>8, <1>9, <1>10, <1>11, <1>12, <1>13, <1>14

-------------------------------------------------------------------------------
(* The use of an approved operation. *)

\* A step that permits nothing keeps the use, when it leaves the row alone or no permit
\* was given yet.
LEMMA UseMove ==
  ASSUME GrantInv, UseInv, NEW r \in Requests, NEW new \in Request, Moved(r, new),
         new.answer # "permitted",
         \/ row' = row \/ kind = "device" \/ row.state \notin {"none", "consumed"}
         \/ row.state = "consumed" /\ row.use = None
  PROVE  UseInv'
<1>1. /\ \A q \in Requests : req'[q] = IF q = r THEN new ELSE req[q]
      /\ Evaluations \subseteq Requests /\ req[r].answer = "none"
  BY Others DEF Moved
<1>2. Answered(Evaluations, "permitted")' = Answered(Evaluations, "permitted")
  BY <1>1 DEF Answered
<1>3. CASE row' = row
  BY <1>1, <1>2, <1>3 DEF UseInv, Answered
<1>4. CASE \/ kind = "device" \/ row.state \notin {"none", "consumed"}
           \/ row.state = "consumed" /\ row.use = None
  <2>1. \A e \in Answered(Evaluations, "permitted") : req[e].wish \in OperationKeys /\ kind = "approval"
    BY <1>1 DEF GrantInv, RequestOK, Answered
  <2>2. Answered(Evaluations, "permitted") = {}
    BY <1>4, <2>1, GrantsAssumption DEF UseInv
  <2>. QED BY <1>2, <2>2 DEF UseInv
<1>. QED BY <1>3, <1>4

\* Every step keeps the recorded use and the permits in agreement.
LEMMA NextUse == GrantInv /\ UseInv /\ [Next]_vars => UseInv'
<1>. SUFFICES ASSUME GrantInv, UseInv, [Next]_vars PROVE UseInv'
  OBVIOUS
<1>0. Polls \subseteq Requests /\ Decisions \subseteq Requests /\ Evaluations \subseteq Requests
  BY DEF Requests
<1>1. CASE \E b \in BOOLEAN : StartDevice(b) \/ \E u \in Users : StartApproval(u, b)
  <2>1. \A r \in Requests : req'[r].answer = "none"
    BY <1>1, Starts DEF NoReq
  <2>. QED BY <1>0, <2>1 DEF UseInv, Answered
<1>2. ASSUME NEW d \in Decisions, NEW u \in Users, NEW wish \in Wishes,
             ReadDevice(d, u, wish) \/ ReadApproval(d, u, wish)
      PROVE  UseInv'
  BY <1>0, <1>2, ReadDecision, UseMove
<1>3. ASSUME NEW d \in Decisions, SaveDevice(d) PROVE UseInv'
  BY <1>0, <1>3, SaveDecision, UseMove
<1>4. ASSUME NEW d \in Decisions, Decide(d) PROVE UseInv'
  <2>1. PICK new \in Request : /\ Moved(d, new) /\ new.answer # "permitted"
                               /\ row.state = "pending" \/ row' = row
    BY <1>4, DecideMoves, Blank
  <2>. QED BY <1>0, <2>1, UseMove
<1>5. ASSUME NEW p \in Polls, PollDevice(p) \/ SavePoll(p) \/ Exchange(p) PROVE UseInv'
  <2>1. kind = "device" /\ \E new \in Request : Moved(p, new) /\ new.answer # "permitted"
    BY <1>5, PollDeviceMoves, SavePollMoves, ExchangeMoves
  <2>. QED BY <1>0, <2>1, UseMove
<1>6. ASSUME NEW p \in Polls, PollApproval(p) \/ Check(p) PROVE UseInv'
  BY <1>0, <1>6, PollApprovalMoves, CheckMoves, UseMove
<1>7. ASSUME NEW p \in Polls, Expire(p) PROVE UseInv'
  BY <1>0, <1>7, ExpireMoves, Blank, UseMove
<1>8. ASSUME NEW p \in Polls, RecordPoll(p) PROVE UseInv'
  <2>1. PICK new \in Request : /\ Moved(p, new) /\ new.answer # "permitted"
                               /\ row.state = "pending" \/ row' = row
    BY <1>8, RecordPollMoves, Blank
  <2>. QED BY <1>0, <2>1, UseMove
<1>9. ASSUME NEW p \in Polls, Consume(p) PROVE UseInv'
  <2>1. PICK new \in Request : /\ Moved(p, new) /\ new.answer # "permitted"
                               /\ row.state = "approved" \/ row' = row
    BY <1>9, ConsumeMoves
  <2>. QED BY <1>0, <2>1, UseMove
<1>10. ASSUME NEW p \in Polls, Sign(p) PROVE UseInv'
  BY <1>0, <1>10, SignMoves, UseMove
<1>11. ASSUME NEW e \in Evaluations, NEW k \in OperationKeys, Match(e, k) PROVE UseInv'
  BY <1>0, <1>11, MatchMoves, UseMove
<1>12. ASSUME NEW e \in Evaluations, Claim(e) \/ Reread(e) PROVE UseInv'
  <2>1. PICK new \in Request :
           /\ Moved(e, new)
           /\ new.answer = "permitted" => row'.state = "consumed" /\ row'.use = new.wish
    BY <1>12, ClaimMoves
  <2>2. row' = row \/ (row.use = None /\ row.state = "consumed")
    BY <1>12, ClaimMoves
  <2>3. CASE new.answer # "permitted"
    BY <1>0, <2>1, <2>2, <2>3, UseMove
  <2>4. CASE new.answer = "permitted"
    <3>1. \A q \in Requests : req'[q] = IF q = e THEN new ELSE req[q]
      BY <1>0, <2>1, Others
    <3>2. \A f \in Answered(Evaluations, "permitted") : row' = row
      <4>1. \A f \in Answered(Evaluations, "permitted") : req[f].wish \in OperationKeys
        BY <1>0 DEF GrantInv, RequestOK, Answered
      <4>. QED BY <2>2, <4>1, GrantsAssumption DEF UseInv
    <3>3. \A f \in Answered(Evaluations, "permitted") : req[f].wish = new.wish
      BY <2>1, <2>4, <3>2 DEF UseInv
    <3>4. \A f \in Answered(Evaluations, "permitted")' : req'[f].wish = new.wish
      BY <1>0, <3>1, <3>3 DEF Answered
    <3>. QED BY <2>1, <2>4, <3>4 DEF UseInv
  <2>. QED BY <2>3, <2>4
<1>13. CASE \/ \E p \in People : Stop(p)
            \/ \E u \in Users : DeleteAllForSub(u)
            \/ Sweep \/ Tick \/ UNCHANGED vars
  <2>1. UNCHANGED <<kind, req>> /\ row' \in {row, NoRow} /\ NoRow.state = "none"
    BY <1>13, Surroundings, Blank
  <2>. QED BY <2>1 DEF UseInv, Answered
<1>. QED BY Cases, <1>1, <1>2, <1>3, <1>4, <1>5, <1>6, <1>7, <1>8, <1>9, <1>10, <1>11, <1>12, <1>13

\* An approved operation is used under one key, however many resource servers claim it at
\* once, and only by requests made before the approval ran out (ClaimUse).
THEOREM OneUse == Spec => []UsedOnce
<1>1. Init => UseInv
  BY DEF Init, UseInv, Answered, NoReq, Requests
<1>2. GrantInv /\ UseInv => UsedOnce
  BY DEF GrantInv, UseInv, UsedOnce, RequestOK, Answered, Requests
<1>. QED BY <1>1, <1>2, InitGrant, NextGrant, NextUse, PTL DEF Spec

-------------------------------------------------------------------------------
(* The polling interval. *)

\* Sets of requests are finite, and grow by one when a request joins them.
LEMMA Counting ==
  ASSUME NEW S \in SUBSET (Polls \union Decisions), NEW x \in Polls \union Decisions, x \notin S
  PROVE  /\ Cardinality(S) \in Nat
         /\ Cardinality(S \union {x}) = Cardinality(S) + 1
BY GrantsAssumption, FS_Subset, FS_CardinalityType, FS_AddElement

\* A subset counts no more than the set.
LEMMA CountingLess ==
  ASSUME NEW S \in SUBSET (Polls \union Decisions), NEW T \in SUBSET S
  PROVE  /\ Cardinality(S) \in Nat /\ Cardinality(T) \in Nat
         /\ Cardinality(T) <= Cardinality(S)
<1>1. IsFiniteSet(S)
  BY GrantsAssumption, FS_Subset
<1>2. IsFiniteSet(T) /\ Cardinality(T) <= Cardinality(S)
  BY <1>1, FS_Subset
<1>. QED BY <1>1, <1>2, FS_CardinalityType

\* A step that answers no slow_down and keeps the interval, or deletes the row, keeps the
\* count.
LEMMA SlowMove ==
  ASSUME GrantInv, SlowDownsCounted, NEW r \in Requests, NEW new \in Request, Moved(r, new),
         new.answer # "slow_down",
         kind = "approval" /\ row'.state # "none" => row.state # "none" /\ row'.interval = row.interval
  PROVE  SlowDownsCounted'
<1>1. /\ \A q \in Requests : req'[q] = IF q = r THEN new ELSE req[q]
      /\ Polls \subseteq Requests /\ req[r].answer = "none" /\ kind' = kind
  BY Others DEF Moved
<1>2. Answered(Polls, "slow_down")' = Answered(Polls, "slow_down")
  BY <1>1 DEF Answered
<1>. HIDE DEF Answered
<1>. QED BY <1>1, <1>2 DEF SlowDownsCounted

\* Every step keeps the interval of an approval request and its slow_downs in agreement.
LEMMA NextSlow == GrantInv /\ SlowDownsCounted /\ [Next]_vars => SlowDownsCounted'
<1>. SUFFICES ASSUME GrantInv, SlowDownsCounted, [Next]_vars PROVE SlowDownsCounted'
  OBVIOUS
<1>0. Polls \subseteq Requests /\ Decisions \subseteq Requests /\ Evaluations \subseteq Requests
  BY DEF Requests
<1>1. CASE \E b \in BOOLEAN : StartDevice(b) \/ \E u \in Users : StartApproval(u, b)
  <2>1. /\ \A r \in Requests : req'[r].answer = "none"
        /\ row'.interval = Interval
    BY <1>1, Starts DEF NoReq
  <2>2. Answered(Polls, "slow_down")' = {}
    BY <1>0, <2>1 DEF Answered
  <2>3. Cardinality({}) = 0 /\ Interval + Increment * 0 = Interval
    BY FS_EmptySet, GrantsAssumption
  <2>. QED BY <2>1, <2>2, <2>3 DEF SlowDownsCounted
<1>2. ASSUME NEW d \in Decisions, NEW u \in Users, NEW wish \in Wishes,
             ReadDevice(d, u, wish) \/ ReadApproval(d, u, wish)
      PROVE  SlowDownsCounted'
  BY <1>0, <1>2, ReadDecision, SlowMove
<1>3. ASSUME NEW d \in Decisions, SaveDevice(d) PROVE SlowDownsCounted'
  BY <1>0, <1>3, SaveDecision, SlowMove
<1>4. ASSUME NEW d \in Decisions, Decide(d) PROVE SlowDownsCounted'
  <2>1. PICK new \in Request : /\ Moved(d, new) /\ new.answer # "slow_down"
                               /\ (row.state = "pending" /\ row'.interval = row.interval) \/ row' = row
    BY <1>4, DecideMoves, Blank
  <2>. QED BY <1>0, <2>1, SlowMove
<1>5. ASSUME NEW p \in Polls, PollDevice(p) \/ SavePoll(p) \/ Exchange(p) PROVE SlowDownsCounted'
  <2>1. kind = "device" /\ kind' = kind
    BY <1>5, PollDeviceMoves, SavePollMoves, ExchangeMoves DEF Moved
  <2>. QED BY <2>1 DEF SlowDownsCounted
<1>6. ASSUME NEW p \in Polls, PollApproval(p) \/ Check(p) PROVE SlowDownsCounted'
  BY <1>0, <1>6, PollApprovalMoves, CheckMoves, SlowMove
<1>7. ASSUME NEW p \in Polls, Expire(p) PROVE SlowDownsCounted'
  BY <1>0, <1>7, ExpireMoves, Blank, SlowMove
<1>8. ASSUME NEW p \in Polls, RecordPoll(p) PROVE SlowDownsCounted'
  <2>1. PICK new \in Request :
           /\ Moved(p, new)
           /\ \/ /\ row.state = "pending"
                 /\ new.answer = "slow_down" /\ row'.interval = row.interval + Increment
              \/ /\ new.answer # "slow_down" /\ row'.interval = row.interval
                 /\ row' = row \/ row.state = "pending"
    BY <1>8, RecordPollMoves, Blank
  <2>2. CASE new.answer # "slow_down"
    BY <1>0, <2>1, <2>2, SlowMove
  <2>3. CASE new.answer = "slow_down"
    <3>1. kind = "approval" /\ req[p].answer = "none" /\ row.interval \in Nat
      BY <1>8, <2>1, RecordPollMoves DEF Moved, GrantInv, Row
    <3>2. \A q \in Requests : req'[q] = IF q = p THEN new ELSE req[q]
      BY <1>0, <2>1, Others
    <3>. DEFINE slow == Answered(Polls, "slow_down")
    <3>3. slow \in SUBSET (Polls \union Decisions) /\ p \notin slow /\ slow' = slow \union {p}
      BY <1>0, <2>3, <3>1, <3>2 DEF Answered
    <3>. HIDE DEF slow
    <3>4. Cardinality(slow) \in Nat /\ Cardinality(slow \union {p}) = Cardinality(slow) + 1
      BY <3>3, Counting
    <3>5. \A n \in Nat : Increment * (n + 1) = Increment * n + Increment /\ Increment * n \in Nat
      BY GrantsAssumption
    <3>6. row.interval = Interval + Increment * Cardinality(slow)
      BY <2>1, <2>3, <3>1 DEF SlowDownsCounted, slow
    <3>7. row'.interval = Interval + Increment * (Cardinality(slow) + 1)
      BY <2>1, <2>3, <3>4, <3>5, <3>6, GrantsAssumption
    <3>8. row'.interval = Interval + Increment * Cardinality(slow')
      BY <3>3, <3>4, <3>7
    <3>. QED BY <3>8 DEF SlowDownsCounted, slow
  <2>. QED BY <2>2, <2>3
<1>9. ASSUME NEW p \in Polls, Consume(p) PROVE SlowDownsCounted'
  <2>1. PICK new \in Request : /\ Moved(p, new) /\ new.answer # "slow_down"
                               /\ (row.state = "approved" /\ row'.interval = row.interval) \/ row' = row
    BY <1>9, ConsumeMoves
  <2>. QED BY <1>0, <2>1, SlowMove
<1>10. ASSUME NEW p \in Polls, Sign(p) PROVE SlowDownsCounted'
  BY <1>0, <1>10, SignMoves, SlowMove
<1>11. ASSUME NEW e \in Evaluations, NEW k \in OperationKeys, Match(e, k) PROVE SlowDownsCounted'
  BY <1>0, <1>11, MatchMoves, SlowMove
<1>12. ASSUME NEW e \in Evaluations, Claim(e) \/ Reread(e) PROVE SlowDownsCounted'
  BY <1>0, <1>12, ClaimMoves, SlowMove
<1>13. CASE \/ \E p \in People : Stop(p)
            \/ \E u \in Users : DeleteAllForSub(u)
            \/ Sweep \/ Tick \/ UNCHANGED vars
  <2>1. UNCHANGED <<kind, req>> /\ row' \in {row, NoRow} /\ NoRow.state = "none"
    BY <1>13, Surroundings, Blank
  <2>. QED BY <2>1 DEF SlowDownsCounted, Answered
<1>. QED BY Cases, <1>1, <1>2, <1>3, <1>4, <1>5, <1>6, <1>7, <1>8, <1>9, <1>10, <1>11, <1>12, <1>13

\* No slow_down of an approval request is lost: the interval has grown by one increment for
\* each, whatever polls were under way at once (RecordApprovalRequestPoll).
THEOREM NoSlowDownLost == Spec => []SlowDownsCounted
<1>1. Init => SlowDownsCounted
  BY DEF Init, SlowDownsCounted
<1>. QED BY <1>1, InitGrant, NextGrant, NextSlow, PTL DEF Spec

-------------------------------------------------------------------------------
(* Device codes, and the tokens of both grants. *)

\* One unit for a device code that waits for its exchange.
Waiting(u) == IF row.state = "approved" /\ row.user = u THEN 1 ELSE 0

\* A request that decides nothing and spends nothing, and leaves no approved code that was
\* not there, keeps the approvals sufficient.
LEMMA DeviceMove ==
  ASSUME GrantInv, DeviceInv, NEW r \in Requests, NEW new \in Request, Moved(r, new),
         Holds(new) => Holds(req[r]) /\ new.row.user = req[r].row.user,
         row'.state = "approved" => row.state = "approved" /\ row'.user = row.user
  PROVE  DeviceInv'
<1>. SUFFICES ASSUME kind = "device", NEW u \in Users
              PROVE  Cardinality(Spent(u)') + Waiting(u)' <= Cardinality(Decided(u, "approved")')
  BY DEF DeviceInv, Moved, Waiting
<1>1. /\ \A q \in Requests : req'[q] = IF q = r THEN new ELSE req[q]
      /\ Polls \subseteq Requests /\ Decisions \subseteq Requests /\ req[r].answer = "none"
  BY Others DEF Moved
<1>2. Spent(u)' \subseteq Spent(u) /\ Spent(u) \subseteq Polls
  BY <1>1 DEF Spent
<1>3. Decided(u, "approved") \subseteq Decided(u, "approved")' /\ Decided(u, "approved")' \subseteq Decisions
  BY <1>1 DEF Decided, Answered
<1>4. /\ Cardinality(Spent(u)') \in Nat /\ Cardinality(Spent(u)) \in Nat
      /\ Cardinality(Spent(u)') <= Cardinality(Spent(u))
  BY <1>2, CountingLess
<1>5. /\ Cardinality(Decided(u, "approved")') \in Nat /\ Cardinality(Decided(u, "approved")) \in Nat
      /\ Cardinality(Decided(u, "approved")) <= Cardinality(Decided(u, "approved")')
  BY <1>3, CountingLess
<1>6. Waiting(u) \in Nat /\ Waiting(u)' \in Nat /\ Waiting(u)' <= Waiting(u)
  BY DEF Waiting
<1>7. Cardinality(Spent(u)) + Waiting(u) <= Cardinality(Decided(u, "approved"))
  BY DEF DeviceInv, Waiting
<1>. HIDE DEF Spent, Decided, Waiting
<1>. QED BY <1>4, <1>5, <1>6, <1>7

\* Every step keeps the approvals of a device code sufficient.
LEMMA NextDevice == GrantInv /\ DeviceInv /\ [Next]_vars => DeviceInv'
<1>. SUFFICES ASSUME GrantInv, DeviceInv, [Next]_vars PROVE DeviceInv'
  OBVIOUS
<1>0. Polls \subseteq Requests /\ Decisions \subseteq Requests /\ Evaluations \subseteq Requests
  BY DEF Requests
<1>1. CASE \E b \in BOOLEAN : StartDevice(b) \/ \E u \in Users : StartApproval(u, b)
  <2>1. \A r \in Requests : req'[r].answer = "none" /\ ~ Holds(req'[r])
    BY <1>1, Starts DEF Holds, NoReq
  <2>2. \A u \in Users : Spent(u)' = {} /\ Decided(u, "approved")' = {}
    BY <1>0, <2>1 DEF Spent, Decided, Answered
  <2>3. kind' = "device" => row'.state = "issued"
    BY <1>1, Starts
  <2>4. Cardinality({}) = 0
    BY FS_EmptySet
  <2>. HIDE DEF Spent, Decided
  <2>. QED BY <2>2, <2>3, <2>4 DEF DeviceInv
<1>2. ASSUME NEW d \in Decisions, NEW u \in Users, NEW wish \in Wishes,
             ReadDevice(d, u, wish) \/ ReadApproval(d, u, wish)
      PROVE  DeviceInv'
  BY <1>0, <1>2, ReadDecision, DeviceMove
<1>3. ASSUME NEW d \in Decisions, SaveDevice(d) PROVE DeviceInv'
  <2>1. PICK new \in Request :
          Moved(d, new) /\ new.answer = "ok" /\ ~ Holds(new) /\ new.user = req[d].user /\ new.wish = row'.state
    BY <1>3, SaveDecision
  <2>2. row'.state \in Wishes /\ (row'.state = "approved" => row'.user = new.user)
    BY <1>3, <2>1, SaveDecision
  <2>3. CASE row'.state = "denied"
    BY <1>0, <2>1, <2>3, DeviceMove
  <2>4. CASE row'.state = "approved"
    <3>. SUFFICES ASSUME kind = "device", NEW u \in Users
                  PROVE  Cardinality(Spent(u)') + Waiting(u)' <= Cardinality(Decided(u, "approved")')
      BY <2>1 DEF DeviceInv, Moved, Waiting
    <3>1. /\ \A q \in Requests : req'[q] = IF q = d THEN new ELSE req[q]
          /\ req[d].answer = "none"
      BY <1>0, <2>1, Others DEF Moved
    <3>2. Spent(u)' \subseteq Spent(u) /\ Spent(u) \subseteq Polls
      BY <1>0, <2>1, <3>1 DEF Spent
    <3>3. /\ Cardinality(Spent(u)') \in Nat /\ Cardinality(Spent(u)) \in Nat
          /\ Cardinality(Spent(u)') <= Cardinality(Spent(u))
      BY <3>2, CountingLess
    <3>4. Cardinality(Spent(u)) + Waiting(u) <= Cardinality(Decided(u, "approved"))
      BY DEF DeviceInv, Waiting
    <3>. DEFINE D == Decided(u, "approved")
    <3>5. /\ D \subseteq Decisions /\ d \notin D
          /\ D' = IF u = new.user THEN D \union {d} ELSE D
      BY <1>0, <2>1, <2>4, <3>1 DEF Decided, Answered
    <3>6. Waiting(u) \in Nat /\ Waiting(u)' = IF u = new.user THEN 1 ELSE 0
      BY <2>2, <2>4 DEF Waiting
    <3>. HIDE DEF D
    <3>7. Cardinality(D) \in Nat /\ Cardinality(D \union {d}) = Cardinality(D) + 1
      BY <3>5, Counting
    <3>8. Cardinality(Spent(u)) <= Cardinality(D)
      <4>. HIDE DEF Spent, Waiting
      <4>. QED BY <3>3, <3>4, <3>6, <3>7 DEF D
    <3>9. Cardinality(Spent(u)') + Waiting(u)' <= Cardinality(D')
      <4>1. CASE u = new.user
        BY <3>3, <3>5, <3>6, <3>7, <3>8, <4>1
      <4>2. CASE u # new.user
        BY <3>3, <3>5, <3>6, <3>7, <3>8, <4>2
      <4>. QED BY <4>1, <4>2
    <3>. QED BY <3>9 DEF D
  <2>. QED BY <2>2, <2>3, <2>4 DEF Wishes
<1>4. ASSUME NEW p \in Polls, PollDevice(p) PROVE DeviceInv'
  BY <1>0, <1>4, PollDeviceMoves, DeviceMove
<1>5. ASSUME NEW p \in Polls, SavePoll(p) PROVE DeviceInv'
  BY <1>0, <1>5, SavePollMoves, DeviceMove
<1>6. ASSUME NEW p \in Polls, Exchange(p) PROVE DeviceInv'
  <2>1. PICK new \in Request :
              /\ Moved(p, new) /\ new.answer \in {"none", "refused"}
              /\ \/ /\ row.state = "approved" /\ row'.state = "exchanged"
                    /\ Holds(new) /\ new.row.user = row.user
                 \/ new = Refused /\ row' = row
    BY <1>6, ExchangeMoves
  <2>2. CASE new = Refused /\ row' = row
    BY <1>0, <2>1, <2>2, Blank, DeviceMove
  <2>3. CASE /\ row.state = "approved" /\ row'.state = "exchanged"
             /\ Holds(new) /\ new.row.user = row.user
    <3>. SUFFICES ASSUME kind = "device", NEW u \in Users
                  PROVE  Cardinality(Spent(u)') + Waiting(u)' <= Cardinality(Decided(u, "approved")')
      BY <2>1 DEF DeviceInv, Moved, Waiting
    <3>1. /\ \A q \in Requests : req'[q] = IF q = p THEN new ELSE req[q]
          /\ req[p].answer = "none" /\ ~ Holds(req[p])
      <4>1. \A q \in Requests : req'[q] = IF q = p THEN new ELSE req[q]
        BY <1>0, <2>1, Others
      <4>2. req[p].answer = "none"
        BY <2>1 DEF Moved
      <4>. QED BY <1>6, <4>1, <4>2, ExchangeMoves
    <3>2. Decided(u, "approved")' = Decided(u, "approved") /\ Decided(u, "approved") \subseteq Decisions
      BY <1>0, <2>1, <3>1 DEF Decided, Answered
    <3>. DEFINE S == Spent(u)
    <3>3. S \subseteq Polls /\ p \notin S /\ S' = IF u = row.user THEN S \union {p} ELSE S
      BY <1>0, <2>3, <3>1 DEF Spent
    <3>4. Waiting(u)' = 0 /\ Waiting(u) = IF u = row.user THEN 1 ELSE 0
      BY <2>3 DEF Waiting
    <3>5. Cardinality(S) + Waiting(u) <= Cardinality(Decided(u, "approved"))
      BY DEF DeviceInv, Waiting
    <3>. HIDE DEF S
    <3>6. Cardinality(S) \in Nat /\ Cardinality(S \union {p}) = Cardinality(S) + 1
      BY <3>3, Counting
    <3>7. Cardinality(S') + Waiting(u)' <= Cardinality(Decided(u, "approved"))
      <4>. HIDE DEF Decided, Waiting
      <4>1. CASE u = row.user
        BY <3>3, <3>4, <3>5, <3>6, <4>1
      <4>2. CASE u # row.user
        BY <3>3, <3>4, <3>5, <3>6, <4>2
      <4>. QED BY <4>1, <4>2
    <3>. QED BY <3>2, <3>7 DEF S
  <2>. QED BY <2>1, <2>2, <2>3
<1>7. ASSUME NEW p \in Polls, Check(p) PROVE DeviceInv'
  BY <1>0, <1>7, CheckMoves, DeviceMove
<1>8. ASSUME NEW p \in Polls, Sign(p) PROVE DeviceInv'
  BY <1>0, <1>8, SignMoves, DeviceMove
<1>9. ASSUME kind = "approval", kind' = kind PROVE DeviceInv'
  BY <1>9 DEF DeviceInv
<1>10. ASSUME NEW d \in Decisions, Decide(d) PROVE DeviceInv'
  BY <1>9, <1>10, DecideMoves DEF Moved
<1>11. ASSUME NEW p \in Polls, PollApproval(p) \/ Expire(p) \/ RecordPoll(p) \/ Consume(p) PROVE DeviceInv'
  <2>1. kind = "approval" /\ kind' = kind
    BY <1>11, PollApprovalMoves, ExpireMoves, RecordPollMoves, ConsumeMoves DEF Moved
  <2>. QED BY <1>9, <2>1
<1>12. ASSUME NEW e \in Evaluations, Claim(e) \/ Reread(e) \/ \E k \in OperationKeys : Match(e, k) PROVE DeviceInv'
  <2>1. kind = "approval" /\ kind' = kind
    BY <1>12, ClaimMoves, MatchMoves DEF Moved
  <2>. QED BY <1>9, <2>1
<1>13. CASE \/ \E p \in People : Stop(p)
            \/ \E u \in Users : DeleteAllForSub(u)
            \/ Sweep \/ Tick \/ UNCHANGED vars
  <2>1. UNCHANGED <<kind, req>> /\ row' \in {row, NoRow} /\ NoRow.state = "none"
    BY <1>13, Surroundings, Blank
  <2>. SUFFICES ASSUME kind = "device", NEW u \in Users
                PROVE  Cardinality(Spent(u)') + Waiting(u)' <= Cardinality(Decided(u, "approved")')
    BY <2>1 DEF DeviceInv, Waiting
  <2>2. Spent(u)' = Spent(u) /\ Decided(u, "approved")' = Decided(u, "approved")
    BY <2>1 DEF Spent, Holds, Decided, Answered
  <2>3. Spent(u) \subseteq Polls /\ Decided(u, "approved") \subseteq Decisions
    BY DEF Spent, Decided, Answered
  <2>4. Cardinality(Spent(u)) \in Nat /\ Cardinality(Decided(u, "approved")) \in Nat
    BY <2>3, CountingLess
  <2>5. Waiting(u) \in Nat /\ Waiting(u)' \in Nat /\ Waiting(u)' <= Waiting(u)
    BY <2>1 DEF Waiting
  <2>6. Cardinality(Spent(u)) + Waiting(u) <= Cardinality(Decided(u, "approved"))
    BY DEF DeviceInv, Waiting
  <2>. HIDE DEF Spent, Decided, Waiting
  <2>. QED BY <2>2, <2>4, <2>5, <2>6
<1>. QED BY Cases, <1>1, <1>2, <1>3, <1>4, <1>5, <1>6, <1>7, <1>8, <1>10, <1>11, <1>12, <1>13

\* The two invariants give every token its approval.
LEMMA Backed == GrantInv /\ ApprovalInv /\ DeviceInv => TokensBackedByApproval
<1>. SUFFICES ASSUME GrantInv, ApprovalInv, DeviceInv PROVE TokensBackedByApproval
  OBVIOUS
<1>. DEFINE issued == Answered(Polls, "token")
            of(u) == {p \in issued : req[p].row.user = u}
<1>0. /\ issued \subseteq Polls /\ \A u \in Users : Decided(u, "approved") \subseteq Decisions
      /\ \A p \in issued : Holds(req[p]) /\ Consumed(req[p])
  BY DEF Answered, Decided, Holds, Consumed
<1>1. CASE kind = "none"
  <2>1. issued = {} /\ \A u \in Users : of(u) = {}
    BY <1>1 DEF GrantInv, Answered, NoReq, Requests
  <2>2. \A u \in Users : Cardinality(of(u)) <= Cardinality(Decided(u, "approved"))
    BY <1>0, <2>1, FS_EmptySet, CountingLess
  <2>. QED BY <1>1, <2>2 DEF TokensBackedByApproval
<1>2. CASE kind = "device"
  <2>1. ASSUME NEW u \in Users PROVE Cardinality(of(u)) <= Cardinality(Decided(u, "approved"))
    <3>1. of(u) \subseteq Spent(u) /\ Spent(u) \subseteq Polls
      BY <1>0 DEF Spent
    <3>2. /\ Cardinality(of(u)) \in Nat /\ Cardinality(Spent(u)) \in Nat
          /\ Cardinality(of(u)) <= Cardinality(Spent(u)) /\ Cardinality(Decided(u, "approved")) \in Nat
      BY <1>0, <3>1, CountingLess
    <3>3. Cardinality(Spent(u)) + Waiting(u) <= Cardinality(Decided(u, "approved")) /\ Waiting(u) \in Nat
      BY <1>2 DEF DeviceInv, Waiting
    <3>. HIDE DEF of, issued, Spent, Decided, Waiting
    <3>. QED BY <3>2, <3>3
  <2>. QED BY <1>2, <2>1 DEF TokensBackedByApproval
<1>3. CASE kind = "approval"
  <2>1. \A p, q \in issued : p = q
    BY <1>0, <1>3 DEF ApprovalInv
  <2>2. Cardinality(issued) <= 1
    <3>1. CASE issued = {}
      BY <3>1, FS_EmptySet
    <3>2. ASSUME NEW p \in issued PROVE Cardinality(issued) = 1
      <4>1. issued = {p}
        BY <2>1, <3>2
      <4>. HIDE DEF issued
      <4>. QED BY <4>1, FS_Singleton
    <3>. QED BY <3>1, <3>2
  <2>3. ASSUME NEW u \in Users PROVE Cardinality(of(u)) <= Cardinality(Decided(u, "approved"))
    <3>1. CASE of(u) = {}
      BY <1>0, <3>1, FS_EmptySet, CountingLess
    <3>2. ASSUME NEW p \in of(u) PROVE Cardinality(of(u)) <= Cardinality(Decided(u, "approved"))
      <4>1. of(u) = {p}
        BY <2>1, <3>2
      <4>2. PICK d \in Decisions : req[d].answer = "ok" /\ req[d].user = u /\ req[d].wish = "approved"
        BY <1>0, <1>3, <3>2 DEF ApprovalInv, ApprovedBy
      <4>3. {d} \subseteq Decided(u, "approved")
        BY <4>2 DEF Decided, Answered
      <4>4. Cardinality({d}) <= Cardinality(Decided(u, "approved"))
        BY <1>0, <4>3, CountingLess
      <4>. HIDE DEF of, Decided
      <4>. QED BY <4>1, <4>4, FS_Singleton
    <3>. QED BY <3>1, <3>2
  <2>4. ASSUME NEW p \in issued PROVE req[p].now < TTL /\ Decided(req[p].row.user, "denied") = {}
    <3>1. req[p].now < TTL
      BY <1>0, <1>3 DEF ApprovalInv
    <3>2. PICK d \in Decisions : req[d].answer = "ok" /\ req[d].wish = "approved"
      BY <1>0, <1>3 DEF ApprovalInv, ApprovedBy
    <3>3. \A e \in Answered(Decisions, "ok") : e = d
      BY <1>3, <3>2 DEF ApprovalInv, Answered
    <3>. QED BY <3>1, <3>2, <3>3 DEF Decided
  <2>. QED BY <1>3, <2>2, <2>3, <2>4 DEF TokensBackedByApproval
<1>. QED BY <1>1, <1>2, <1>3 DEF GrantInv

\* Every token of a user goes back to an approval of that user that no other token goes
\* back to, under every interleaving of polls, decisions, purges and sweeps; an approval
\* request gives tokens once, in time and never after a denial.
THEOREM TokensAreBacked == Spec => []TokensBackedByApproval
<1>1. Init => ApprovalInv /\ DeviceInv
  BY DEF Init, ApprovalInv, DeviceInv
<1>. QED BY <1>1, Backed, InitGrant, NextGrant, NextApproval, NextDevice, PTL DEF Spec
===============================================================================
