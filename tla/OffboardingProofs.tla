-------------------------- MODULE OffboardingProofs ---------------------------
(***************************************************************************)
(* Proofs about Offboarding, for any sets of users, agents and request     *)
(* slots, any grace period, any clock and any number of failures.          *)
(***************************************************************************)
EXTENDS Offboarding, FiniteSetTheorems, TLAPS

Underway ==
  [step : Steps \ {"idle"}, kind : Kinds, on : Principals, to : Principals, at : Time,
   row : Rows, todo : SUBSET Agents, cur : Principals]

AgentRows == [status : {"unborn", "active", "disabled", "killed", "gone"}, owner : Users]

\* Which requests reach which step, and what they hold there.
KindAt(r) ==
  /\ r.step = "save" => r.kind \in SaveKinds
  /\ r.step = "revokeUser" => r.kind \in StopKinds
  /\ r.step \in {"notifyOwner", "revokeOwned", "list", "disableOwned"} => r.kind \in StopKinds \union {"purge"}
  /\ r.step = "revokeAgent" => r.kind \in StopKinds \union {"purge"} \union AgentKinds
  /\ r.step \in {"purgeRead", "tombstone", "release", "saveAnnounce", "announce", "close"} => r.kind = "purge"
  /\ r.step = "commit" => r.kind \in AgentKinds \union {"register", "transfer"}
  /\ r.step \in {"record", "reflect"} => r.kind = "receive"
  /\ r.step = "answer" => r.kind \in StopKinds \union {"purge"} \union AgentKinds \union {"receive"}
HoldsAt(r) ==
  /\ r.kind \in SaveKinds \union {"purge"} => r.on \in Users
  /\ r.kind \in AgentKinds \union {"register", "transfer"} => r.on \in Agents
  /\ r.kind \in {"register", "transfer"} => r.to \in Users /\ r.step = "commit"
  /\ r.kind = "receive" => r.on \in Signalled
  /\ r.kind \in AgentKinds => r.cur = r.on
  /\ r.kind \in SaveKinds => r.row.status # "deleted"
  /\ r.kind \in StopKinds => r.row.status \in {"disabled", "pending"}
  /\ r.kind \in StartKinds => r.row.status = "active"
  /\ r.kind \in StopKinds /\ r.step \in {"save", "revokeUser"} => r.row.since = r.at
  /\ r.kind = "purge" /\ r.step # "purgeRead" => r.row.status = "deleted"

\* Types, and what a request holds.
OffInv == TypeOK /\ \A p \in Requests : Busy(p) => KindAt(req[p]) /\ HoldsAt(req[p])

\* Who registers an agent is alone with it.
BirthInv ==
  \A p \in Requests : Busy(p) /\ req[p].kind = "register" =>
    /\ agent[req[p].on].status = "unborn"
    /\ \A q \in Requests : Busy(q) /\ req[q].on = req[p].on => q = p

\* A purge past its announcement has made it.
PurgeInv ==
  /\ PurgeNeverForgets
  /\ \A p \in Requests :
       Busy(p) /\ req[p].kind = "purge" /\ req[p].step \in {"notifyOwner", "revokeOwned", "close"}
         => req[p].on \in announced

\* The tokens of u issued before t are revoked, or the stop that should have was lost, or
\* is about to.
Covered(u, t) ==
  \/ t <= epoch[u] \/ t <= lost[u]
  \/ \E p \in Requests : Busy(p) /\ req[p].step = "revokeUser" /\ req[p].on = u /\ t <= req[p].at
\* Every row that says a user is stopped, in the table or in the hands of a request, is
\* covered from the time it bears, and so is every stop that was answered.
EpochInv ==
  /\ \A u \in Users : \A t \in Time :
       /\ user[u].status \in {"disabled", "pending"} /\ user[u].since = t => Covered(u, t)
       /\ \A p \in Requests :
            /\ Busy(p) /\ req[p].on = u /\ req[p].row.since = t
            /\ \/ req[p].kind = "edit" /\ req[p].row.status \in {"disabled", "pending"}
               \/ req[p].kind \in StopKinds /\ req[p].step # "save"
            => Covered(u, t)
       /\ stopped[u] = t => Covered(u, t)
  /\ \A a \in Agents : stopped[a] <= epoch[a]
  /\ \A p \in Requests :
       Busy(p) /\ req[p].kind \in AgentKinds \union {"receive"} /\ req[p].step = "answer"
         => req[p].at <= epoch[req[p].on]

\* The agents of u that run although no request set them running while u was stopping.
Running(u) == {a \in Agents : agent[a].status = "active" /\ agent[a].owner = u /\ a \notin loose}
\* A stop past its save that has agents to go through.
Handling(u) ==
  \E q \in Requests : /\ Busy(q) /\ req[q].on = u /\ req[q].kind \in StopKinds
                      /\ req[q].step \notin {"save", "answer"}
AgentInv ==
  \A u \in Users :
    /\ ~ IsActive(u) => Running(u) = {} \/ u \in owed \/ Handling(u)
    /\ user[u].status = "deleted" => Running(u) = {}
    /\ \A p \in Requests :
         Busy(p) /\ req[p].on = u /\ req[p].kind \in StopKinds \union {"purge"} =>
           /\ req[p].step \in {"disableOwned", "revokeAgent"} => Running(u) \subseteq req[p].todo
           /\ req[p].kind \in StopKinds /\ req[p].step = "answer" => Running(u) = {}
           /\ /\ req[p].kind = "purge"
              /\ req[p].step \notin {"purgeRead", "list", "disableOwned", "revokeAgent", "answer"}
              => Running(u) = {}

-------------------------------------------------------------------------------
(* Types. *)

\* The initial state is of the right type.
LEMMA InitOff == Init => OffInv
<1>. SUFFICES ASSUME Init PROVE OffInv
  OBVIOUS
<1>1. Cardinality(Users) \in Nat
  BY OffboardingAssumption, FS_CardinalityType
<1>2. user \in [Users -> Rows] /\ clock \in Time /\ 0 \in Time
  BY OffboardingAssumption DEF Init, Rows, Time
<1>3. agent \in [Agents -> AgentRows]
  BY OffboardingAssumption DEF Init, AgentRows
<1>4. req \in [Requests -> RequestRecords] /\ \A p \in Requests : ~ Busy(p)
  BY DEF Init, RequestRecords, Busy
<1>. QED BY <1>1, <1>2, <1>3, <1>4, OffboardingAssumption DEF OffInv, TypeOK, Init, AgentRows

\* A request that is under way is a full record, and a full record is under way.
LEMMA BusyIs ==
  ASSUME OffInv, NEW p \in Requests
  PROVE  /\ Busy(p) => req[p] \in Underway /\ KindAt(req[p]) /\ HoldsAt(req[p])
         /\ \A r \in Underway : r # Idle
BY DEF OffInv, TypeOK, RequestRecords, Underway, Busy, Idle

\* Request p goes on as new.
Goes(p, new) ==
  /\ req' = [req EXCEPT ![p] = new]
  /\ new \in Underway \union {Idle}
  /\ new # Idle => KindAt(new) /\ HoldsAt(new)

\* The other requests are where they were.
LEMMA GoesOn ==
  ASSUME OffInv, NEW p \in Requests, NEW new, Goes(p, new)
  PROVE  /\ req' \in [Requests -> RequestRecords]
         /\ \A q \in Requests : req'[q] = IF q = p THEN new ELSE req[q]
         /\ \A q \in Requests : Busy(q)' <=> IF q = p THEN new # Idle ELSE Busy(q)
         /\ \A q \in Requests : Busy(q)' => KindAt(req'[q]) /\ HoldsAt(req'[q])
<1>1. req \in [Requests -> RequestRecords] /\ RequestRecords = {Idle} \union Underway
  BY DEF OffInv, TypeOK, RequestRecords, Underway
<1>2. \A q \in Requests : req'[q] = IF q = p THEN new ELSE req[q]
  BY <1>1 DEF Goes
<1>3. \A q \in Requests : Busy(q)' <=> IF q = p THEN new # Idle ELSE Busy(q)
  BY <1>2 DEF Busy
<1>4. \A q \in Requests : Busy(q) => KindAt(req[q]) /\ HoldsAt(req[q])
  BY DEF OffInv
<1>5. req' \in [Requests -> RequestRecords]
  BY <1>1 DEF Goes
<1>6. new # Idle => KindAt(new) /\ HoldsAt(new)
  BY DEF Goes
<1>. QED BY <1>2, <1>3, <1>4, <1>5, <1>6

\* Kinds and rows.
LEMMA Sets ==
  /\ SaveKinds \subseteq Kinds /\ AgentKinds \subseteq Kinds /\ StopKinds \subseteq SaveKinds
  /\ {"purge", "register", "transfer", "receive"} \subseteq Kinds
  /\ Users \subseteq Principals /\ Agents \subseteq Principals /\ Asked \subseteq Users /\ Signalled \subseteq Principals
  /\ NoRow \in Rows
BY OffboardingAssumption DEF SaveKinds, StopKinds, StartKinds, AgentKinds, Kinds, Principals, NoRow, Rows, Time

\* A row that a stop or a start will save.
LEMMA MovedIs ==
  ASSUME OffInv, NEW kind \in StopKinds \union StartKinds
  PROVE  /\ Moved(kind) \in Rows /\ Moved(kind).since = clock /\ Moved(kind).status # "deleted"
         /\ kind \in StopKinds => Moved(kind).status \in {"disabled", "pending"}
         /\ kind \in StartKinds => Moved(kind).status = "active"
         /\ kind \in StopKinds => SavedStatus[kind] \in {"disabled", "pending"}
BY DEF OffInv, TypeOK, Moved, SavedStatus, StopKinds, StartKinds, Rows

\* A request begins.
LEMMA BeginIs ==
  ASSUME OffInv, NEW p \in Requests, NEW kind \in Kinds, NEW on \in Principals, NEW to \in Principals,
         NEW step \in Steps \ {"idle"}, NEW row \in Rows, Begin(p, kind, on, to, step, row)
  PROVE  \E new \in Underway :
           /\ req' = [req EXCEPT ![p] = new] /\ ~ Busy(p) /\ UNCHANGED <<store, clock, faults, history>>
           /\ new.kind = kind /\ new.on = on /\ new.to = to /\ new.step = step /\ new.row = row
           /\ new.cur = on /\ new.at = clock
<1>. DEFINE new == [step |-> step, kind |-> kind, on |-> on, to |-> to, at |-> clock,
                    row |-> row, todo |-> {}, cur |-> on]
<1>1. new \in Underway
  BY DEF Underway, OffInv, TypeOK
<1>2. req' = [req EXCEPT ![p] = new] /\ ~ Busy(p) /\ UNCHANGED <<store, clock, faults, history>>
  BY DEF Begin
<1>3. /\ new.kind = kind /\ new.on = on /\ new.to = to /\ new.step = step /\ new.row = row
      /\ new.cur = on /\ new.at = clock
  OBVIOUS
<1>. HIDE DEF new
<1>. QED BY <1>1, <1>2, <1>3

\* A step of the request slots that leaves everything else alone keeps the types.
LEMMA OnlyRequests ==
  ASSUME OffInv, NEW p \in Requests, NEW new, Goes(p, new), UNCHANGED <<store, clock, faults, history>>,
         asked' \in 0 .. MaxAsked
  PROVE  OffInv'
BY GoesOn DEF OffInv, TypeOK, store, history

\* What a request that begins holds.
Begun(p, new) ==
  /\ Goes(p, new) /\ new \in Underway /\ ~ Busy(p) /\ UNCHANGED <<store, clock, faults, history>>
  /\ asked' \in 0 .. MaxAsked
  /\ new.step \in {"save", "list", "purgeRead", "commit", "record"}
  /\ new.kind = "edit" => new.row = user[new.on]
  /\ new.kind \in StopKinds /\ new.step # "save"
       => new.row = user[new.on] /\ user[new.on].status \in {"disabled", "pending"}
  /\ new.kind = "purge" => new.step = "purgeRead"
  /\ new.kind = "register" => /\ agent[new.on].status = "unborn"
                              /\ \A q \in Requests : Busy(q) => req[q].on # new.on
  /\ new.kind # "register" => new.on \in Users \/ agent[new.on].status # "unborn"

\* Requests about users begin.
LEMMA AskUser ==
  ASSUME OffInv, NEW p \in Requests, NEW u \in Users,
         \/ \E kind \in StopKinds : AskStop(p, u, kind)
         \/ \E kind \in StartKinds : AskStart(p, u, kind)
         \/ AskEdit(p, u) \/ AskPurge(p, u) \/ PurgeExpiredSoftDeleted(p, u)
  PROVE  \E new : Begun(p, new)
<1>. USE Sets
<1>1. user[u] \in Rows /\ u \in Principals
  BY DEF OffInv, TypeOK
<1>2. asked' \in 0 .. MaxAsked
  BY OffboardingAssumption DEF OffInv, TypeOK, AskStop, AskStart, AskEdit, AskPurge, PurgeExpiredSoftDeleted, Ask
<1>3. ASSUME NEW kind \in StopKinds, AskStop(p, u, kind) PROVE \E new : Begun(p, new)
  <2>1. PICK step \in {"list", "save"}, row \in Rows :
          /\ Begin(p, kind, u, u, step, row) /\ row.status \in {"disabled", "pending"}
          /\ step = "list" => row = user[u]
          /\ step = "save" => row.since = clock
    <3>1. CASE user[u].status = SavedStatus[kind]
      BY <1>1, <1>3, <3>1, MovedIs DEF AskStop
    <3>2. CASE user[u].status # SavedStatus[kind]
      BY <1>3, <3>2, MovedIs DEF AskStop
    <3>. QED BY <3>1, <3>2
  <2>2. PICK new \in Underway :
           /\ req' = [req EXCEPT ![p] = new] /\ ~ Busy(p) /\ UNCHANGED <<store, clock, faults, history>>
           /\ new.kind = kind /\ new.on = u /\ new.step = step /\ new.row = row /\ new.at = clock
    BY <1>1, <2>1, BeginIs DEF Steps
  <2>3. KindAt(new) /\ HoldsAt(new)
    BY <2>1, <2>2 DEF KindAt, HoldsAt, SaveKinds, StopKinds, StartKinds, AgentKinds
  <2>4. new.kind # "purge" /\ new.kind # "edit" /\ new.kind # "register"
    BY <2>2 DEF StopKinds
  <2>. QED BY <1>2, <2>1, <2>2, <2>3, <2>4 DEF Begun, Goes
<1>4. ASSUME NEW kind \in StartKinds, AskStart(p, u, kind) PROVE \E new : Begun(p, new)
  <2>1. PICK new \in Underway :
           /\ req' = [req EXCEPT ![p] = new] /\ ~ Busy(p) /\ UNCHANGED <<store, clock, faults, history>>
           /\ new.kind = kind /\ new.on = u /\ new.step = "save" /\ new.row = Moved(kind)
    BY <1>1, <1>4, BeginIs, MovedIs DEF AskStart, Steps, SaveKinds
  <2>2. KindAt(new) /\ HoldsAt(new)
    BY <2>1, MovedIs DEF KindAt, HoldsAt, SaveKinds, StopKinds, StartKinds, AgentKinds
  <2>3. new.kind \notin {"purge", "edit", "register"}
    BY <2>1 DEF StartKinds
  <2>. QED BY <1>2, <2>1, <2>2, <2>3 DEF Begun, Goes
<1>5. CASE AskEdit(p, u)
  <2>1. "edit" \in SaveKinds /\ "save" \in Steps \ {"idle"}
    BY DEF SaveKinds, Steps
  <2>2. PICK new \in Underway :
           /\ req' = [req EXCEPT ![p] = new] /\ ~ Busy(p) /\ UNCHANGED <<store, clock, faults, history>>
           /\ new.kind = "edit" /\ new.on = u /\ new.step = "save" /\ new.row = user[u]
    BY <1>1, <1>5, <2>1, BeginIs DEF AskEdit
  <2>3. KindAt(new) /\ HoldsAt(new)
    BY <1>5, <2>2 DEF KindAt, HoldsAt, SaveKinds, StopKinds, StartKinds, AgentKinds, AskEdit
  <2>. QED BY <1>2, <2>2, <2>3 DEF Begun, Goes, StopKinds
<1>6. CASE AskPurge(p, u) \/ PurgeExpiredSoftDeleted(p, u)
  <2>1. PICK new \in Underway :
           /\ req' = [req EXCEPT ![p] = new] /\ ~ Busy(p) /\ UNCHANGED <<store, clock, faults, history>>
           /\ new.kind = "purge" /\ new.on = u /\ new.step = "purgeRead"
    <3>1. Begin(p, "purge", u, u, "purgeRead", NoRow) /\ "purgeRead" \in Steps \ {"idle"}
      BY <1>6 DEF AskPurge, PurgeExpiredSoftDeleted, Steps
    <3>. QED BY <1>1, <3>1, BeginIs
  <2>2. KindAt(new) /\ HoldsAt(new)
    BY <2>1 DEF KindAt, HoldsAt, SaveKinds, StopKinds, StartKinds, AgentKinds
  <2>. QED BY <1>2, <2>1, <2>2 DEF Begun, Goes, StopKinds
<1>. QED BY <1>3, <1>4, <1>5, <1>6

\* Requests about agents, and security events, begin.
LEMMA AskOther ==
  ASSUME OffInv, NEW p \in Requests,
         \/ \E a \in Agents : \/ \E kind \in AgentKinds : AskAgent(p, a, kind)
                              \/ \E u \in Users : AskRegister(p, a, u) \/ AskTransfer(p, a, u)
         \/ \E x \in Signalled : AskReceive(p, x)
  PROVE  \E new : Begun(p, new)
<1>. USE Sets
<1>1. asked' \in 0 .. MaxAsked
  BY OffboardingAssumption DEF OffInv, TypeOK, AskAgent, AskRegister, AskTransfer, AskReceive, Ask
<1>2. {"commit", "record"} \subseteq Steps \ {"idle"}
  BY DEF Steps
<1>3. ASSUME NEW a \in Agents, NEW kind \in AgentKinds, AskAgent(p, a, kind) PROVE \E new : Begun(p, new)
  <2>1. PICK new \in Underway :
           /\ req' = [req EXCEPT ![p] = new] /\ ~ Busy(p) /\ UNCHANGED <<store, clock, faults, history>>
           /\ new.kind = kind /\ new.on = a /\ new.cur = a /\ new.step = "commit"
    BY <1>2, <1>3, BeginIs DEF AskAgent
  <2>2. KindAt(new) /\ HoldsAt(new)
    BY <2>1 DEF KindAt, HoldsAt, SaveKinds, StopKinds, StartKinds, AgentKinds
  <2>3. agent[a].status # "unborn" /\ kind \notin {"edit", "purge", "register"} \union StopKinds
    BY <1>3 DEF AskAgent, Administered, AgentKinds, StopKinds
  <2>. QED BY <1>1, <2>1, <2>2, <2>3 DEF Begun, Goes
<1>4. ASSUME NEW a \in Agents, NEW u \in Users, NEW kind \in {"register", "transfer"},
             Begin(p, kind, a, u, "commit", NoRow),
             kind = "register" => agent[a].status = "unborn" /\ \A q \in Requests : Busy(q) => req[q].on # a,
             kind = "transfer" => agent[a].status # "unborn"
      PROVE \E new : Begun(p, new)
  <2>1. PICK new \in Underway :
           /\ req' = [req EXCEPT ![p] = new] /\ ~ Busy(p) /\ UNCHANGED <<store, clock, faults, history>>
           /\ new.kind = kind /\ new.on = a /\ new.to = u /\ new.step = "commit"
    BY <1>2, <1>4, BeginIs
  <2>2. KindAt(new) /\ HoldsAt(new)
    BY <1>4, <2>1 DEF KindAt, HoldsAt, SaveKinds, StopKinds, StartKinds, AgentKinds
  <2>. QED BY <1>1, <1>4, <2>1, <2>2 DEF Begun, Goes, StopKinds
<1>5. ASSUME NEW a \in Agents, NEW u \in Users, AskRegister(p, a, u) \/ AskTransfer(p, a, u)
      PROVE \E new : Begun(p, new)
  BY <1>4, <1>5 DEF AskRegister, AskTransfer, Administered
<1>6. ASSUME NEW x \in Signalled, AskReceive(p, x) PROVE \E new : Begun(p, new)
  <2>1. PICK new \in Underway :
           /\ req' = [req EXCEPT ![p] = new] /\ ~ Busy(p) /\ UNCHANGED <<store, clock, faults, history>>
           /\ new.kind = "receive" /\ new.on = x /\ new.step = "record"
    BY <1>2, <1>6, BeginIs DEF AskReceive
  <2>2. KindAt(new) /\ HoldsAt(new)
    BY <2>1 DEF KindAt, HoldsAt, SaveKinds, StopKinds, StartKinds, AgentKinds
  <2>3. x \in Users \/ agent[x].status # "unborn"
    BY <1>6 DEF AskReceive, Resolves
  <2>. QED BY <1>1, <2>1, <2>2, <2>3 DEF Begun, Goes, StopKinds
<1>. QED BY <1>3, <1>5, <1>6

\* Every request that begins.
LEMMA AskIs ==
  ASSUME OffInv, NEW p \in Requests, AskSomething(p) \/ \E u \in Users : PurgeExpiredSoftDeleted(p, u)
  PROVE  OffInv' /\ \E new : Begun(p, new)
<1>1. Asked \subseteq Users
  BY Sets
<1>2. PICK new : Begun(p, new)
  BY <1>1, AskUser, AskOther DEF AskSomething
<1>. QED BY <1>2, OnlyRequests DEF Begun

-------------------------------------------------------------------------------
(* The steps of a request. *)

\* Request p goes on as new, about the same matter.
Onward(p, new) ==
  /\ Busy(p) /\ Goes(p, new)
  /\ new # Idle => /\ new \in Underway
                   /\ new.kind = req[p].kind /\ new.on = req[p].on /\ new.at = req[p].at
                   /\ req[p].step # "purgeRead" => new.row = req[p].row

\* A request that only moves to another step keeps the rest.
LEMMA StepIs ==
  ASSUME OffInv, NEW p \in Requests, Busy(p), NEW s \in Steps \ {"idle"}, Step(p, s)
  PROVE  \E new \in Underway :
           /\ req' = [req EXCEPT ![p] = new] /\ new.step = s /\ new.kind = req[p].kind /\ new.on = req[p].on
           /\ new.to = req[p].to /\ new.at = req[p].at /\ new.row = req[p].row
           /\ new.todo = req[p].todo /\ new.cur = req[p].cur
<1>. DEFINE new == [req[p] EXCEPT !.step = s]
<1>1. req[p] \in Underway
  BY BusyIs
<1>2. /\ new \in Underway /\ new.step = s /\ new.kind = req[p].kind /\ new.on = req[p].on
      /\ new.to = req[p].to /\ new.at = req[p].at /\ new.row = req[p].row
      /\ new.todo = req[p].todo /\ new.cur = req[p].cur
  BY <1>1 DEF Underway
<1>3. req' = [req EXCEPT ![p] = new]
  BY DEF Step
<1>. HIDE DEF new
<1>. QED BY <1>2, <1>3

\* A request that goes round its loop, or leaves it.
LEMMA LoopIs ==
  ASSUME NEW r \in Underway, r.step \in {"revokeOwned", "disableOwned"},
         r.kind \in StopKinds \union {"purge"}, HoldsAt(r)
  PROVE  /\ Loop(r) \in Underway /\ KindAt(Loop(r)) /\ HoldsAt(Loop(r))
         /\ Loop(r).kind = r.kind /\ Loop(r).on = r.on /\ Loop(r).at = r.at /\ Loop(r).row = r.row
         /\ Loop(r).todo = r.todo
         /\ r.todo # {} => Loop(r).step = r.step
         /\ r.todo = {} => Loop(r).step =
              IF r.step = "revokeOwned" THEN IF r.kind = "purge" THEN "close" ELSE "list"
              ELSE IF r.kind = "purge" THEN "tombstone" ELSE "answer"
<1>. DEFINE s == IF r.step = "revokeOwned" THEN IF r.kind = "purge" THEN "close" ELSE "list"
                 ELSE IF r.kind = "purge" THEN "tombstone" ELSE "answer"
            new == [r EXCEPT !.step = s]
<1>1. CASE r.todo # {}
  <2>1. Loop(r) = r
    BY <1>1 DEF Loop
  <2>2. KindAt(r)
    BY DEF KindAt
  <2>. QED BY <1>1, <2>1, <2>2
<1>2. CASE r.todo = {}
  <2>1. AfterLoop(r) = s
    BY DEF AfterLoop
  <2>2. Loop(r) = new
    BY <1>2, <2>1 DEF Loop
  <2>3. s \in {"close", "list", "tombstone", "answer"} /\ s \in Steps \ {"idle"}
    BY DEF Steps
  <2>4. /\ new \in Underway /\ new.step = s /\ new.kind = r.kind /\ new.on = r.on /\ new.to = r.to
        /\ new.at = r.at /\ new.row = r.row /\ new.todo = r.todo /\ new.cur = r.cur
    BY <2>3 DEF Underway
  <2>5. s \in {"close", "tombstone"} => r.kind = "purge"
    OBVIOUS
  <2>. HIDE DEF new, s
  <2>6. KindAt(new)
    BY <2>3, <2>4, <2>5 DEF KindAt
  <2>7. HoldsAt(new)
    BY <2>3, <2>4, <2>5 DEF HoldsAt, StopKinds, SaveKinds, StartKinds, AgentKinds
  <2>. QED BY <1>2, <2>2, <2>4, <2>6, <2>7 DEF s
<1>. QED BY <1>1, <1>2

\* An epoch that is advanced stays a time and never goes back.
LEMMA AdvanceIs ==
  ASSUME OffInv, NEW x \in Principals, NEW at \in Time
  PROVE  /\ Advance(x, at) \in [Principals -> Time]
         /\ at <= Advance(x, at)[x]
         /\ \A y \in Principals : epoch[y] <= Advance(x, at)[y]
BY OffboardingAssumption DEF OffInv, TypeOK, Advance, Time

\* Save.
LEMMA SaveIs ==
  ASSUME OffInv, NEW p \in Requests, Save(p)
  PROVE  /\ OffInv'
         /\ \E new : /\ Onward(p, new)
                     /\ IF req[p].kind \in StopKinds THEN new # Idle /\ new.step = "revokeUser" ELSE new = Idle
<1>1. /\ Busy(p) /\ req[p] \in Underway /\ KindAt(req[p]) /\ HoldsAt(req[p])
      /\ req[p].kind \in SaveKinds /\ req[p].step = "save" /\ req[p].on \in Users /\ req[p].row \in Rows
  BY BusyIs DEF Save, Serving, HoldsAt, Underway
<1>2. PICK new : /\ Onward(p, new)
                 /\ IF req[p].kind \in StopKinds THEN new # Idle /\ new.step = "revokeUser" ELSE new = Idle
  <2>1. CASE req[p].kind \in StopKinds
    <3>1. "revokeUser" \in Steps \ {"idle"} /\ Step(p, "revokeUser")
      BY <2>1 DEF Steps, Save
    <3>2. PICK new \in Underway :
           /\ req' = [req EXCEPT ![p] = new] /\ new.step = "revokeUser" /\ new.kind = req[p].kind /\ new.on = req[p].on
           /\ new.at = req[p].at /\ new.row = req[p].row
      BY <1>1, <3>1, StepIs
    <3>3. KindAt(new) /\ HoldsAt(new)
      BY <1>1, <2>1, <3>2 DEF KindAt, HoldsAt, StopKinds, AgentKinds
    <3>. QED BY <1>1, <2>1, <3>2, <3>3, BusyIs DEF Onward, Goes
  <2>2. CASE req[p].kind \notin StopKinds
    BY <1>1, <2>2 DEF Save, Return, Onward, Goes
  <2>. QED BY <2>1, <2>2
<1>3. user' \in [Users -> Rows] /\ owed' \subseteq Users
  BY <1>1 DEF Save, OffInv, TypeOK
<1>4. UNCHANGED <<agent, epoch, recorded, usage, announced, clock, asked, faults, stopped, lost, loose>>
  BY DEF Save
<1>5. OffInv'
  BY <1>2, <1>3, <1>4, GoesOn DEF OffInv, TypeOK, Onward
<1>. QED BY <1>2, <1>5

\* RevokeUser.
LEMMA RevokeUserIs ==
  ASSUME OffInv, NEW p \in Requests, RevokeUser(p)
  PROVE  /\ OffInv' /\ req[p].step = "revokeUser" /\ req[p].kind \in StopKinds /\ req[p].on \in Users
         /\ \A y \in Principals : epoch[y] <= epoch'[y]
         /\ req[p].at <= epoch'[req[p].on]
         /\ \E new : Onward(p, new) /\ new # Idle /\ new.step = "notifyOwner"
<1>1. /\ Busy(p) /\ req[p] \in Underway /\ KindAt(req[p]) /\ HoldsAt(req[p])
      /\ req[p].kind \in StopKinds /\ req[p].step = "revokeUser"
      /\ req[p].on \in Principals /\ req[p].at \in Time
  BY BusyIs DEF RevokeUser, Serving, HoldsAt, Underway
<1>2. "notifyOwner" \in Steps \ {"idle"} /\ Step(p, "notifyOwner")
  BY DEF Steps, RevokeUser
<1>3. PICK new \in Underway :
           /\ req' = [req EXCEPT ![p] = new] /\ new.step = "notifyOwner" /\ new.kind = req[p].kind /\ new.on = req[p].on
           /\ new.at = req[p].at /\ new.row = req[p].row
  BY <1>1, <1>2, StepIs
<1>4. KindAt(new) /\ HoldsAt(new)
  BY <1>1, <1>3 DEF KindAt, HoldsAt, StopKinds, AgentKinds
<1>5. Onward(p, new) /\ new # Idle
  BY <1>1, <1>3, <1>4, BusyIs DEF Onward, Goes
<1>6. epoch' = Advance(req[p].on, req[p].at)
      /\ UNCHANGED <<user, agent, recorded, usage, announced, clock, asked, faults, history>>
  BY DEF RevokeUser
<1>7. /\ epoch' \in [Principals -> Time] /\ req[p].at <= epoch'[req[p].on]
      /\ \A y \in Principals : epoch[y] <= epoch'[y]
  BY <1>1, <1>6, AdvanceIs
<1>8. OffInv'
  BY <1>5, <1>6, <1>7, GoesOn DEF OffInv, TypeOK, Onward, history
<1>9. req[p].on \in Users
  BY <1>1 DEF HoldsAt, SaveKinds
<1>. QED BY <1>1, <1>3, <1>5, <1>7, <1>8, <1>9

\* ListOwned.
LEMMA ListOwnedIs ==
  ASSUME OffInv, NEW p \in Requests, ListOwned(p)
  PROVE  /\ OffInv' /\ req[p].step \in {"notifyOwner", "list"} /\ req[p].kind \in StopKinds \union {"purge"}
         /\ \E new : /\ Onward(p, new) /\ new # Idle
                     /\ req[p].step = "notifyOwner"
                          => new.step = "revokeOwned" \/ new.step = IF new.kind = "purge" THEN "close" ELSE "list"
                     /\ req[p].step = "list"
                          => /\ new.todo = {a \in Owned(new.on) : agent[a].status = "active"}
                             /\ \/ new.step = "disableOwned"
                                \/ new.todo = {} /\ new.step = IF new.kind = "purge" THEN "tombstone" ELSE "answer"
<1>. DEFINE r == req[p]
            mid == IF r.step = "notifyOwner"
                   THEN [r EXCEPT !.step = "revokeOwned", !.todo = Owned(r.on)]
                   ELSE [r EXCEPT !.step = "disableOwned", !.todo = {a \in Owned(r.on) : agent[a].status = "active"}]
            new == Loop(mid)
<1>1. /\ Busy(p) /\ r \in Underway /\ KindAt(r) /\ HoldsAt(r) /\ r.step \in {"notifyOwner", "list"}
      /\ r.kind \in StopKinds \union {"purge"}
  BY BusyIs DEF ListOwned, KindAt
<1>2. Owned(r.on) \subseteq Agents
  BY DEF Owned
<1>3. req' = [req EXCEPT ![p] = new] /\ UNCHANGED <<store, clock, asked, faults, history>>
  BY DEF ListOwned
<1>4. /\ mid \in Underway /\ mid.kind = r.kind /\ mid.on = r.on /\ mid.to = r.to /\ mid.at = r.at /\ mid.row = r.row
      /\ mid.cur = r.cur
      /\ r.step = "notifyOwner" => mid.step = "revokeOwned"
      /\ r.step = "list" => mid.step = "disableOwned" /\ mid.todo = {a \in Owned(r.on) : agent[a].status = "active"}
  <2>1. CASE r.step = "notifyOwner"
    BY <1>1, <1>2, <2>1 DEF Underway, Steps
  <2>2. CASE r.step = "list"
    BY <1>1, <1>2, <2>2 DEF Underway, Steps
  <2>. QED BY <1>1, <2>1, <2>2
<1>. HIDE DEF mid
<1>5. HoldsAt(mid) /\ mid.step \in {"revokeOwned", "disableOwned"}
  BY <1>1, <1>4 DEF HoldsAt, StopKinds, SaveKinds, StartKinds, AgentKinds
<1>6. /\ new \in Underway /\ KindAt(new) /\ HoldsAt(new)
      /\ new.kind = mid.kind /\ new.on = mid.on /\ new.at = mid.at /\ new.row = mid.row
      /\ new.todo = mid.todo
      /\ mid.todo # {} => new.step = mid.step
      /\ mid.todo = {} => new.step =
              IF mid.step = "revokeOwned" THEN IF mid.kind = "purge" THEN "close" ELSE "list"
              ELSE IF mid.kind = "purge" THEN "tombstone" ELSE "answer"
  BY <1>1, <1>4, <1>5, LoopIs
<1>. HIDE DEF new
<1>7. Onward(p, new) /\ new # Idle
  BY <1>1, <1>3, <1>4, <1>6, BusyIs DEF Onward, Goes
<1>8. OffInv'
  BY <1>3, <1>7, OnlyRequests DEF Onward, OffInv, TypeOK
<1>. QED BY <1>1, <1>4, <1>6, <1>7, <1>8

\* RevokeOwned.
LEMMA RevokeOwnedIs ==
  ASSUME OffInv, NEW p \in Requests, NEW a \in Agents, RevokeOwned(p, a)
  PROVE  /\ OffInv' /\ req[p].step = "revokeOwned" /\ req[p].kind \in StopKinds \union {"purge"}
         /\ \A y \in Principals : epoch[y] <= epoch'[y]
         /\ \E new : /\ Onward(p, new) /\ new # Idle
                     /\ new.step = "revokeOwned" \/ new.step = IF new.kind = "purge" THEN "close" ELSE "list"
<1>. DEFINE r == req[p]
            mid == [r EXCEPT !.todo = @ \ {a}]
            new == Loop(mid)
<1>1. /\ Busy(p) /\ r \in Underway /\ KindAt(r) /\ HoldsAt(r) /\ r.step = "revokeOwned"
      /\ r.kind \in StopKinds \union {"purge"} /\ r.at \in Time
  BY BusyIs DEF RevokeOwned, KindAt, Underway
<1>2. /\ req' = [req EXCEPT ![p] = new] /\ epoch' = Advance(a, r.at)
      /\ UNCHANGED <<user, agent, recorded, usage, announced, clock, asked, faults, history>>
  BY DEF RevokeOwned
<1>3. /\ mid \in Underway /\ mid.kind = r.kind /\ mid.on = r.on /\ mid.to = r.to /\ mid.at = r.at /\ mid.row = r.row
      /\ mid.cur = r.cur /\ mid.step = r.step
  BY <1>1 DEF Underway
<1>. HIDE DEF mid
<1>4. HoldsAt(mid)
  BY <1>1, <1>3 DEF HoldsAt
<1>5. /\ new \in Underway /\ KindAt(new) /\ HoldsAt(new)
      /\ new.kind = mid.kind /\ new.on = mid.on /\ new.at = mid.at /\ new.row = mid.row
      /\ new.step = "revokeOwned" \/ new.step = IF new.kind = "purge" THEN "close" ELSE "list"
  BY <1>1, <1>3, <1>4, LoopIs
<1>. HIDE DEF new
<1>6. Onward(p, new) /\ new # Idle
  BY <1>1, <1>2, <1>3, <1>5, BusyIs DEF Onward, Goes
<1>7. epoch' \in [Principals -> Time] /\ \A y \in Principals : epoch[y] <= epoch'[y]
  BY <1>1, <1>2, AdvanceIs, Sets
<1>8. OffInv'
  BY <1>2, <1>6, <1>7, GoesOn DEF OffInv, TypeOK, Onward, history
<1>. QED BY <1>1, <1>5, <1>6, <1>7, <1>8

\* DisableOwned.
LEMMA DisableOwnedIs ==
  ASSUME OffInv, NEW p \in Requests, NEW a \in Agents, DisableOwned(p, a)
  PROVE  /\ OffInv' /\ req[p].step = "disableOwned" /\ req[p].kind \in StopKinds \union {"purge"}
         /\ \E new : /\ Onward(p, new) /\ new # Idle /\ new.todo = req[p].todo \ {a}
                     /\ \/ /\ StillOwned(a, req[p].on) /\ agent' = [agent EXCEPT ![a].status = "disabled"]
                           /\ new.step = "revokeAgent"
                        \/ /\ ~ StillOwned(a, req[p].on) /\ agent' = agent
                           /\ \/ new.step = "disableOwned"
                              \/ new.todo = {} /\ new.step = IF new.kind = "purge" THEN "tombstone" ELSE "answer"
<1>. DEFINE r == req[p]
            mid == [r EXCEPT !.todo = @ \ {a}]
<1>1. /\ Busy(p) /\ r \in Underway /\ KindAt(r) /\ HoldsAt(r) /\ r.step = "disableOwned"
      /\ r.kind \in StopKinds \union {"purge"}
  BY BusyIs DEF DisableOwned, KindAt, Underway
<1>2. UNCHANGED <<user, epoch, recorded, usage, announced, clock, asked, faults, history>>
  BY DEF DisableOwned
<1>3. /\ mid \in Underway /\ mid.kind = r.kind /\ mid.on = r.on /\ mid.to = r.to /\ mid.at = r.at /\ mid.row = r.row
      /\ mid.cur = r.cur /\ mid.step = r.step /\ mid.todo = r.todo \ {a}
  BY <1>1 DEF Underway
<1>4. HoldsAt(mid)
  BY <1>1, <1>3 DEF HoldsAt
<1>5. /\ StillOwned(a, r.on) => /\ agent' = [agent EXCEPT ![a].status = "disabled"]
                                /\ req' = [req EXCEPT ![p] = [mid EXCEPT !.step = "revokeAgent", !.cur = a]]
      /\ ~ StillOwned(a, r.on) => agent' = agent /\ req' = [req EXCEPT ![p] = Loop(mid)]
  <2>1. /\ StillOwned(a, mid.on) => /\ agent' = [agent EXCEPT ![a].status = "disabled"]
                                    /\ req' = [req EXCEPT ![p] = [mid EXCEPT !.step = "revokeAgent", !.cur = a]]
        /\ ~ StillOwned(a, mid.on) => agent' = agent /\ req' = [req EXCEPT ![p] = Loop(mid)]
    BY DEF DisableOwned
  <2>. HIDE DEF mid
  <2>. QED BY <1>3, <2>1
<1>. HIDE DEF mid
<1>6. PICK new : /\ Onward(p, new) /\ new # Idle /\ new.todo = req[p].todo \ {a}
                 /\ \/ /\ StillOwned(a, req[p].on) /\ agent' = [agent EXCEPT ![a].status = "disabled"]
                       /\ new.step = "revokeAgent"
                    \/ /\ ~ StillOwned(a, req[p].on) /\ agent' = agent
                       /\ \/ new.step = "disableOwned"
                          \/ new.todo = {} /\ new.step = IF new.kind = "purge" THEN "tombstone" ELSE "answer"
  <2>1. CASE StillOwned(a, r.on)
    <3>. DEFINE new == [mid EXCEPT !.step = "revokeAgent", !.cur = a]
    <3>1. /\ new \in Underway /\ new.step = "revokeAgent" /\ new.kind = r.kind /\ new.on = r.on /\ new.at = r.at
          /\ new.row = r.row /\ new.todo = r.todo \ {a} /\ new.to = r.to
      BY <1>3, Sets DEF Underway, Steps
    <3>2. req' = [req EXCEPT ![p] = new]
      BY <1>5, <2>1
    <3>. HIDE DEF new
    <3>3. KindAt(new) /\ HoldsAt(new)
      BY <1>1, <3>1 DEF KindAt, HoldsAt, StopKinds, SaveKinds, StartKinds, AgentKinds
    <3>. QED BY <1>1, <1>5, <2>1, <3>1, <3>2, <3>3, BusyIs DEF Onward, Goes
  <2>2. CASE ~ StillOwned(a, r.on)
    <3>. DEFINE new == Loop(mid)
    <3>1. /\ new \in Underway /\ KindAt(new) /\ HoldsAt(new)
          /\ new.kind = mid.kind /\ new.on = mid.on /\ new.at = mid.at /\ new.row = mid.row /\ new.todo = mid.todo
          /\ \/ new.step = "disableOwned"
             \/ new.todo = {} /\ new.step = IF new.kind = "purge" THEN "tombstone" ELSE "answer"
      BY <1>1, <1>3, <1>4, LoopIs
    <3>2. req' = [req EXCEPT ![p] = new]
      BY <1>5, <2>2
    <3>. HIDE DEF new
    <3>. QED BY <1>1, <1>3, <1>5, <2>2, <3>1, <3>2, BusyIs DEF Onward, Goes
  <2>. QED BY <2>1, <2>2
<1>7. agent' \in [Agents -> AgentRows]
  BY <1>6 DEF OffInv, TypeOK, AgentRows
<1>8. OffInv'
  BY <1>2, <1>6, <1>7, GoesOn DEF OffInv, TypeOK, Onward, history, AgentRows
<1>. QED BY <1>1, <1>6, <1>8

\* RevokeAgent.
LEMMA RevokeAgentIs ==
  ASSUME OffInv, NEW p \in Requests, RevokeAgent(p)
  PROVE  /\ OffInv' /\ req[p].step = "revokeAgent"
         /\ \A y \in Principals : epoch[y] <= epoch'[y]
         /\ req[p].kind \in AgentKinds => req[p].at <= epoch'[req[p].on]
         /\ \E new : /\ Onward(p, new) /\ new # Idle /\ new.todo = req[p].todo
                     /\ IF req[p].kind \in AgentKinds THEN new.step = "answer"
                        ELSE /\ req[p].kind \in StopKinds \union {"purge"}
                             /\ \/ new.step = "disableOwned"
                                \/ new.todo = {} /\ new.step = IF new.kind = "purge" THEN "tombstone" ELSE "answer"
<1>. DEFINE r == req[p]
<1>1. /\ Busy(p) /\ r \in Underway /\ KindAt(r) /\ HoldsAt(r) /\ r.step = "revokeAgent"
      /\ r.at \in Time /\ r.cur \in Principals
      /\ r.kind \notin AgentKinds => r.kind \in StopKinds \union {"purge"}
  BY BusyIs DEF RevokeAgent, KindAt, Underway
<1>2. /\ epoch' = Advance(r.cur, r.at)
      /\ UNCHANGED <<user, agent, recorded, usage, announced, clock, asked, faults, history>>
  BY DEF RevokeAgent
<1>3. PICK new : /\ Onward(p, new) /\ new # Idle /\ new.todo = req[p].todo
                 /\ IF req[p].kind \in AgentKinds THEN new.step = "answer"
                    ELSE /\ req[p].kind \in StopKinds \union {"purge"}
                         /\ \/ new.step = "disableOwned"
                            \/ new.todo = {} /\ new.step = IF new.kind = "purge" THEN "tombstone" ELSE "answer"
  <2>1. CASE r.kind \in AgentKinds
    <3>1. Step(p, "answer") /\ "answer" \in Steps \ {"idle"}
      BY <2>1 DEF RevokeAgent, Steps
    <3>2. PICK new \in Underway :
           /\ req' = [req EXCEPT ![p] = new] /\ new.step = "answer" /\ new.kind = req[p].kind /\ new.on = req[p].on
           /\ new.to = req[p].to /\ new.at = req[p].at /\ new.row = req[p].row
           /\ new.todo = req[p].todo /\ new.cur = req[p].cur
      BY <1>1, <3>1, StepIs
    <3>3. KindAt(new) /\ HoldsAt(new)
      BY <1>1, <2>1, <3>2 DEF KindAt, HoldsAt, StopKinds, SaveKinds, StartKinds, AgentKinds
    <3>. QED BY <1>1, <2>1, <3>2, <3>3, BusyIs DEF Onward, Goes
  <2>2. CASE r.kind \notin AgentKinds
    <3>. DEFINE mid == [r EXCEPT !.step = "disableOwned"]
                new == Loop(mid)
    <3>1. req' = [req EXCEPT ![p] = new]
      BY <2>2 DEF RevokeAgent
    <3>2. /\ mid \in Underway /\ mid.kind = r.kind /\ mid.on = r.on /\ mid.to = r.to /\ mid.at = r.at /\ mid.row = r.row
          /\ mid.cur = r.cur /\ mid.step = "disableOwned" /\ mid.todo = r.todo
      BY <1>1 DEF Underway, Steps
    <3>. HIDE DEF mid
    <3>3. HoldsAt(mid)
      BY <1>1, <3>2 DEF HoldsAt, StopKinds, SaveKinds, StartKinds, AgentKinds
    <3>4. /\ new \in Underway /\ KindAt(new) /\ HoldsAt(new)
          /\ new.kind = mid.kind /\ new.on = mid.on /\ new.at = mid.at /\ new.row = mid.row /\ new.todo = mid.todo
          /\ \/ new.step = "disableOwned"
             \/ new.todo = {} /\ new.step = IF new.kind = "purge" THEN "tombstone" ELSE "answer"
      BY <1>1, <2>2, <3>2, <3>3, LoopIs
    <3>. HIDE DEF new
    <3>. QED BY <1>1, <2>2, <3>1, <3>2, <3>4, BusyIs DEF Onward, Goes
  <2>. QED BY <2>1, <2>2
<1>4. /\ epoch' \in [Principals -> Time] /\ r.at <= epoch'[r.cur]
      /\ \A y \in Principals : epoch[y] <= epoch'[y]
  BY <1>1, <1>2, AdvanceIs
<1>5. r.kind \in AgentKinds => r.cur = r.on
  BY <1>1 DEF HoldsAt
<1>6. OffInv'
  BY <1>2, <1>3, <1>4, GoesOn DEF OffInv, TypeOK, Onward, history
<1>. QED BY <1>1, <1>3, <1>4, <1>5, <1>6

\* PurgeRead: what a purge decides to do from the row it reads.
LEMMA PurgeReadIs ==
  ASSUME OffInv, NEW p \in Requests, PurgeRead(p)
  PROVE  /\ OffInv' /\ req[p].kind = "purge" /\ req[p].step = "purgeRead" /\ req[p].on \in Users
         /\ \E new : /\ Onward(p, new) /\ new # Idle
                     /\ \/ user[req[p].on].status # "deleted" /\ new.step = "list"
                        \/ user[req[p].on].status = "deleted" /\ new.step \in {"release", "announce", "answer"}
<1>. DEFINE r == req[p]
            row == user[r.on]
            s == ResumeAt(row)
            w == IF row.status = "deleted" THEN row ELSE Tombstoned("release", r.at)
            new == [[r EXCEPT !.step = s] EXCEPT !.row = w]
<1>1. /\ Busy(p) /\ r \in Underway /\ KindAt(r) /\ HoldsAt(r) /\ r.kind = "purge" /\ r.step = "purgeRead"
      /\ r.on \in Users /\ r.at \in Time
  BY BusyIs DEF PurgeRead, Serving, HoldsAt, Underway
<1>2. row \in Rows
  BY <1>1 DEF OffInv, TypeOK
<1>3. \/ row.status # "deleted" /\ s = "list"
      \/ row.status = "deleted" /\ s \in {"release", "announce", "answer"}
  BY <1>2 DEF ResumeAt, Rows
<1>4. w \in Rows /\ w.status = "deleted"
  BY <1>1, <1>2 DEF Tombstoned, Rows
<1>5. req' = [req EXCEPT ![p] = new] /\ UNCHANGED <<store, clock, asked, faults, history>>
  BY DEF PurgeRead
<1>. HIDE DEF s, w
<1>6. s \in Steps \ {"idle"} /\ s # "purgeRead"
  BY <1>3 DEF Steps
<1>7. /\ new \in Underway /\ new.step = s /\ new.row = w /\ new.kind = r.kind /\ new.on = r.on /\ new.at = r.at
  BY <1>1, <1>4, <1>6 DEF Underway
<1>. HIDE DEF new
<1>8. KindAt(new) /\ HoldsAt(new)
  BY <1>1, <1>3, <1>4, <1>7 DEF KindAt, HoldsAt, StopKinds, SaveKinds, StartKinds, AgentKinds
<1>9. Onward(p, new) /\ new # Idle
  BY <1>1, <1>5, <1>7, <1>8, BusyIs DEF Onward, Goes
<1>10. OffInv'
  BY <1>5, <1>9, OnlyRequests DEF Onward, OffInv, TypeOK
<1>. QED BY <1>1, <1>3, <1>7, <1>9, <1>10

\* A purge moves to its next stage.
LEMMA StageIs ==
  ASSUME OffInv, NEW p \in Requests, Busy(p), req[p].kind = "purge", req[p].step # "purgeRead",
         NEW s \in {"release", "saveAnnounce", "announce", "notifyOwner"}, Step(p, s)
  PROVE  \E new : Onward(p, new) /\ new # Idle /\ new.step = s
<1>1. req[p] \in Underway /\ KindAt(req[p]) /\ HoldsAt(req[p]) /\ s \in Steps \ {"idle"}
  BY BusyIs DEF Steps
<1>2. PICK new \in Underway :
           /\ req' = [req EXCEPT ![p] = new] /\ new.step = s /\ new.kind = req[p].kind /\ new.on = req[p].on
           /\ new.at = req[p].at /\ new.row = req[p].row
  BY <1>1, StepIs
<1>3. KindAt(new) /\ HoldsAt(new)
  BY <1>1, <1>2 DEF KindAt, HoldsAt, StopKinds, SaveKinds, StartKinds, AgentKinds
<1>. QED BY <1>1, <1>2, <1>3, BusyIs DEF Onward, Goes

\* A tombstone that is saved leaves the user deleted.
LEMMA TombstoneSaved ==
  ASSUME OffInv, NEW p \in Requests, Busy(p), req[p].kind = "purge", req[p].step # "purgeRead",
         NEW purge \in {"none", "release", "announce"}, SaveTombstone(p, purge)
  PROVE  /\ user' \in [Users -> Rows] /\ req[p].on \in Users
         /\ user'[req[p].on].status = "deleted" /\ user'[req[p].on].purge = purge
         /\ \A u \in Users : u # req[p].on => user'[u] = user[u]
<1>1. req[p].on \in Users /\ req[p].row \in Rows /\ req[p].row.status = "deleted"
  BY BusyIs DEF HoldsAt, Underway
<1>. DEFINE row == [req[p].row EXCEPT !.purge = purge]
<1>2. row \in Rows /\ row.status = "deleted" /\ row.purge = purge
  BY <1>1 DEF Rows
<1>3. user' = [user EXCEPT ![req[p].on] = row]
  BY DEF SaveTombstone
<1>. HIDE DEF row
<1>. QED BY <1>1, <1>2, <1>3 DEF OffInv, TypeOK

\* Tombstone, SaveAnnounce and ClosePurge.
LEMMA TombstoneIs ==
  ASSUME OffInv, NEW p \in Requests, Tombstone(p) \/ SaveAnnounce(p) \/ ClosePurge(p)
  PROVE  /\ OffInv' /\ req[p].kind = "purge" /\ req[p].step \in {"tombstone", "saveAnnounce", "close"}
         /\ req[p].on \in Users
         /\ UNCHANGED <<agent, epoch, recorded, usage, announced, clock, asked, faults, history>>
         /\ user'[req[p].on].status = "deleted" /\ (user'[req[p].on].purge = "none" => req[p].step = "close")
         /\ \A u \in Users : u # req[p].on => user'[u] = user[u]
         /\ \E new : Onward(p, new) /\ (new # Idle => new.step \in {"release", "announce"})
<1>1. /\ Busy(p) /\ req[p].kind = "purge" /\ req[p].step \in {"tombstone", "saveAnnounce", "close"}
      /\ UNCHANGED <<agent, epoch, recorded, usage, announced, clock, asked, faults, history>>
  BY DEF Tombstone, SaveAnnounce, ClosePurge, Serving
<1>2. PICK purge \in {"none", "release", "announce"} :
        SaveTombstone(p, purge) /\ (purge = "none" => req[p].step = "close")
  BY DEF Tombstone, SaveAnnounce, ClosePurge, Serving
<1>3. /\ user' \in [Users -> Rows] /\ req[p].on \in Users
      /\ user'[req[p].on].status = "deleted" /\ user'[req[p].on].purge = purge
      /\ \A u \in Users : u # req[p].on => user'[u] = user[u]
  BY <1>1, <1>2, TombstoneSaved
<1>4. PICK new : Onward(p, new) /\ (new # Idle => new.step \in {"release", "announce"})
  <2>1. CASE Tombstone(p)
    BY <1>1, <2>1, StageIs DEF Tombstone
  <2>2. CASE SaveAnnounce(p)
    BY <1>1, <2>2, StageIs DEF SaveAnnounce
  <2>3. CASE ClosePurge(p)
    BY <1>1, <2>3 DEF ClosePurge, Return, Onward, Goes
  <2>. QED BY <2>1, <2>2, <2>3
<1>5. OffInv'
  BY <1>1, <1>3, <1>4, GoesOn DEF OffInv, TypeOK, Onward, history
<1>. QED BY <1>1, <1>2, <1>3, <1>4, <1>5

\* ReleaseUsage: the usage stays within what the tenant has.
LEMMA ReleaseIs ==
  ASSUME OffInv, NEW p \in Requests, ReleaseUsage(p)
  PROVE  /\ OffInv' /\ req[p].kind = "purge" /\ req[p].step = "release"
         /\ UNCHANGED <<user, agent, epoch, recorded, announced, clock, asked, faults, history>>
         /\ \E new : Onward(p, new) /\ new # Idle /\ new.step = "saveAnnounce"
<1>1. /\ Busy(p) /\ req[p].kind = "purge" /\ req[p].step = "release" /\ Step(p, "saveAnnounce")
      /\ UNCHANGED <<user, agent, epoch, recorded, announced, clock, asked, faults, history>>
  BY DEF ReleaseUsage, Serving
<1>2. PICK new : Onward(p, new) /\ new # Idle /\ new.step = "saveAnnounce"
  BY <1>1, StageIs
<1>3. Cardinality(Users) \in Nat
  BY OffboardingAssumption, FS_CardinalityType
<1>4. usage' \in 0 .. Cardinality(Users)
  BY <1>3 DEF ReleaseUsage, OffInv, TypeOK
<1>5. OffInv'
  BY <1>1, <1>2, <1>4, GoesOn DEF OffInv, TypeOK, Onward, history
<1>. QED BY <1>1, <1>2, <1>5

\* Announce.
LEMMA AnnounceIs ==
  ASSUME OffInv, NEW p \in Requests, Announce(p)
  PROVE  /\ OffInv' /\ req[p].kind = "purge" /\ req[p].step = "announce"
         /\ announced' = announced \union {req[p].on}
         /\ UNCHANGED <<user, agent, epoch, recorded, usage, clock, asked, faults, history>>
         /\ \E new : Onward(p, new) /\ new # Idle /\ new.step = "notifyOwner"
<1>1. /\ Busy(p) /\ req[p].kind = "purge" /\ req[p].step = "announce" /\ Step(p, "notifyOwner")
      /\ announced' = announced \union {req[p].on}
      /\ UNCHANGED <<user, agent, epoch, recorded, usage, clock, asked, faults, history>>
  BY DEF Announce, Serving
<1>2. PICK new : Onward(p, new) /\ new # Idle /\ new.step = "notifyOwner"
  BY <1>1, StageIs
<1>3. req[p].on \in Users
  BY <1>1, BusyIs DEF HoldsAt
<1>4. OffInv'
  BY <1>1, <1>2, <1>3, GoesOn DEF OffInv, TypeOK, Onward, history
<1>. QED BY <1>1, <1>2, <1>4

\* What a change does to the row of an agent.
LEMMA ChangedIs ==
  ASSUME OffInv, NEW p \in Requests, Busy(p), req[p].step = "commit", NEW row,
         row = Changed(req[p].kind, agent[req[p].on], req[p].to)
  PROVE  /\ row \in AgentRows /\ req[p].on \in Agents
         /\ req[p].kind = "register" \/ agent[req[p].on].status # "killed" \/ row.status \in {"killed", "gone"}
<1>1. /\ req[p].kind \in AgentKinds \union {"register", "transfer"} /\ req[p].on \in Agents
      /\ req[p].kind \in {"register", "transfer"} => req[p].to \in Users
  BY BusyIs DEF KindAt, HoldsAt
<1>2. agent[req[p].on] \in AgentRows
  BY <1>1 DEF OffInv, TypeOK, AgentRows
<1>. DEFINE old == agent[req[p].on]
<1>3. CASE req[p].kind = "register"
  BY <1>1, <1>2, <1>3 DEF Changed, AgentRows
<1>4. CASE req[p].kind = "remove"
  <2>1. row = [old EXCEPT !.status = "gone"]
    BY <1>4 DEF Changed
  <2>. QED BY <1>1, <1>2, <2>1 DEF AgentRows
<1>5. CASE req[p].kind \notin {"register", "remove"} /\ old.status \in {"killed", "gone"}
  <2>1. row = old
    BY <1>5 DEF Changed
  <2>. QED BY <1>1, <1>2, <1>5, <2>1
<1>6. CASE req[p].kind \notin {"register", "remove"} /\ old.status \notin {"killed", "gone"}
  <2>1. \/ req[p].kind = "transfer" /\ row = [old EXCEPT !.owner = req[p].to]
        \/ row = [old EXCEPT !.status = "active"] \/ row = [old EXCEPT !.status = "disabled"]
        \/ row = [old EXCEPT !.status = "killed"]
    BY <1>1, <1>6 DEF Changed, AgentKinds
  <2>. QED BY <1>1, <1>2, <1>6, <2>1 DEF AgentRows
<1>. QED BY <1>3, <1>4, <1>5, <1>6

\* Commit.
LEMMA CommitIs ==
  ASSUME OffInv, NEW p \in Requests, Commit(p)
  PROVE  /\ OffInv' /\ req[p].step = "commit" /\ req[p].on \in Agents
         /\ req[p].kind \in AgentKinds \union {"register", "transfer"}
         /\ \E row \in AgentRows :
              /\ agent' = [agent EXCEPT ![req[p].on] = row]
              /\ req[p].kind = "register" \/ agent[req[p].on].status # "killed" \/ row.status \in {"killed", "gone"}
              /\ \/ loose' = loose \union {req[p].on}
                 \/ /\ loose' = loose
                    /\ \/ row.status # "active" \/ row = agent[req[p].on]
                       \/ IsActive(row.owner) /\ ~ Stopping(row.owner)
         /\ UNCHANGED <<user, epoch, recorded, usage, announced, clock, asked, faults, stopped, lost, owed>>
         /\ \E new : Onward(p, new) /\ (new # Idle => new.step = "revokeAgent" /\ new.kind \in AgentKinds)
<1>. DEFINE row == Changed(req[p].kind, agent[req[p].on], req[p].to)
<1>1. /\ Busy(p) /\ req[p] \in Underway /\ KindAt(req[p]) /\ HoldsAt(req[p]) /\ req[p].step = "commit"
      /\ req[p].kind \in AgentKinds \union {"register", "transfer"} /\ req[p].on \in Agents
      /\ UNCHANGED <<user, epoch, recorded, usage, announced, clock, asked, faults, stopped, lost, owed>>
  BY BusyIs DEF Commit, KindAt, HoldsAt
<1>2. /\ row \in AgentRows
      /\ req[p].kind = "register" \/ agent[req[p].on].status # "killed" \/ row.status \in {"killed", "gone"}
  BY <1>1, ChangedIs
<1>3. /\ agent' = [agent EXCEPT ![req[p].on] = row]
      /\ loose' = IF row.status = "active" /\ row # agent[req[p].on]
                      /\ (~IsActive(row.owner) \/ Stopping(row.owner))
                    THEN loose \union {req[p].on} ELSE loose
  BY DEF Commit
<1>. HIDE DEF row
<1>4. PICK new : Onward(p, new) /\ (new # Idle => new.step = "revokeAgent" /\ new.kind \in AgentKinds)
  <2>1. CASE Return(p)
    BY <1>1, <2>1 DEF Return, Onward, Goes
  <2>2. CASE Step(p, "revokeAgent") /\ req[p].kind \in {"agentDisable", "kill", "remove"}
    <3>1. "revokeAgent" \in Steps \ {"idle"} /\ req[p].kind \in AgentKinds
      BY <2>2 DEF Steps, AgentKinds
    <3>2. PICK new \in Underway :
           /\ req' = [req EXCEPT ![p] = new] /\ new.step = "revokeAgent" /\ new.kind = req[p].kind /\ new.on = req[p].on
           /\ new.at = req[p].at /\ new.row = req[p].row /\ new.cur = req[p].cur
      BY <1>1, <2>2, <3>1, StepIs
    <3>3. KindAt(new) /\ HoldsAt(new)
      BY <1>1, <2>2, <3>2 DEF KindAt, HoldsAt, StopKinds, SaveKinds, StartKinds, AgentKinds
    <3>. QED BY <1>1, <3>1, <3>2, <3>3, BusyIs DEF Onward, Goes
  <2>. QED BY <2>1, <2>2 DEF Commit
<1>5. agent' \in [Agents -> AgentRows] /\ loose' \subseteq Agents
  BY <1>1, <1>2, <1>3 DEF OffInv, TypeOK, AgentRows
<1>6. OffInv'
  BY <1>1, <1>4, <1>5, GoesOn DEF OffInv, TypeOK, Onward, AgentRows
<1>7. \/ loose' = loose \union {req[p].on}
      \/ /\ loose' = loose
         /\ \/ row.status # "active" \/ row = agent[req[p].on]
            \/ IsActive(row.owner) /\ ~ Stopping(row.owner)
  BY <1>3
<1>. QED BY <1>1, <1>2, <1>3, <1>4, <1>6, <1>7

\* RecordEvent and Reflect.
LEMMA ReceiveIs ==
  ASSUME OffInv, NEW p \in Requests, RecordEvent(p) \/ Reflect(p)
  PROVE  /\ OffInv' /\ req[p].kind = "receive" /\ req[p].on \in Principals
         /\ UNCHANGED <<user, agent, usage, announced, clock, asked, faults, history>>
         /\ \A y \in Principals : epoch[y] <= epoch'[y]
         /\ \E new : /\ Onward(p, new) /\ new # Idle
                     /\ new.step \in {"reflect", "answer"}
                     /\ new.step = "answer" => req[p].at <= epoch'[req[p].on]
<1>1. /\ Busy(p) /\ req[p] \in Underway /\ KindAt(req[p]) /\ HoldsAt(req[p]) /\ req[p].kind = "receive"
      /\ req[p].at \in Time /\ req[p].on \in Signalled /\ req[p].on \in Principals
      /\ UNCHANGED <<user, agent, usage, announced, clock, asked, faults, history>>
  BY BusyIs DEF RecordEvent, Reflect, Serving, HoldsAt, Underway
<1>2. PICK s \in {"reflect", "answer"} : /\ Step(p, s) /\ req[p].step # "purgeRead"
                                         /\ s = "answer" => Reflect(p)
  BY DEF RecordEvent, Reflect, Serving
<1>3. s \in Steps \ {"idle"}
  BY DEF Steps
<1>4. PICK new \in Underway :
           /\ req' = [req EXCEPT ![p] = new] /\ new.step = s /\ new.kind = req[p].kind /\ new.on = req[p].on
           /\ new.at = req[p].at /\ new.row = req[p].row
  BY <1>1, <1>2, <1>3, StepIs
<1>5. KindAt(new) /\ HoldsAt(new)
  BY <1>1, <1>2, <1>4 DEF KindAt, HoldsAt, StopKinds, SaveKinds, StartKinds, AgentKinds
<1>6. Onward(p, new) /\ new # Idle
  BY <1>1, <1>4, <1>5, BusyIs DEF Onward, Goes
<1>7. /\ epoch' \in [Principals -> Time] /\ \A y \in Principals : epoch[y] <= epoch'[y]
      /\ Reflect(p) => req[p].at <= epoch'[req[p].on]
  <2>1. CASE RecordEvent(p) /\ ~ Reflect(p)
    <3>1. epoch' = epoch
      BY <2>1 DEF RecordEvent
    <3>. QED BY <2>1, <3>1 DEF OffInv, TypeOK, Time
  <2>2. CASE Reflect(p)
    <3>1. epoch' = Advance(req[p].on, req[p].at)
      BY <2>2 DEF Reflect
    <3>. QED BY <1>1, <3>1, AdvanceIs
  <2>. QED BY <2>1, <2>2
<1>8. recorded' \in [Signalled -> {"none", "accepted", "rejected"}]
  BY <1>1 DEF RecordEvent, Reflect, OffInv, TypeOK
<1>9. OffInv'
  BY <1>1, <1>6, <1>7, <1>8, GoesOn DEF OffInv, TypeOK, Onward, history
<1>. QED BY <1>1, <1>2, <1>4, <1>6, <1>7, <1>9

\* Up to when the answer to a request says that a principal's tokens are dead.
AnsweredAt(r) == IF r.kind \in StopKinds THEN r.row.since ELSE r.at

\* Answer.
LEMMA AnswerIs ==
  ASSUME OffInv, NEW p \in Requests, Answer(p)
  PROVE  /\ OffInv' /\ Onward(p, Idle) /\ req[p].step = "answer"
         /\ UNCHANGED <<store, clock, asked, faults, lost, loose>>
         /\ req[p].kind \in StopKinds \union {"purge"} \union AgentKinds \union {"receive"}
         /\ \/ stopped' = stopped
            \/ /\ req[p].kind \in StopKinds \union AgentKinds \union {"receive"}
               /\ req[p].on \in Principals
               /\ stopped' = [stopped EXCEPT ![req[p].on] = AnsweredAt(req[p])]
         /\ owed' = IF req[p].kind \in StopKinds THEN owed \ {req[p].on} ELSE owed
<1>1. /\ Busy(p) /\ req[p] \in Underway /\ KindAt(req[p]) /\ req[p].step = "answer" /\ Return(p)
      /\ req[p].kind \in StopKinds \union {"purge"} \union AgentKinds \union {"receive"}
      /\ UNCHANGED <<store, clock, asked, faults, lost, loose>>
      /\ owed' = IF req[p].kind \in StopKinds THEN owed \ {req[p].on} ELSE owed
  BY BusyIs DEF Answer, KindAt
<1>2. req[p].on \in Principals /\ AnsweredAt(req[p]) \in Time
  BY <1>1 DEF Underway, AnsweredAt, Rows
<1>3. \/ stopped' = stopped
      \/ /\ req[p].kind # "purge"
         /\ stopped' = [stopped EXCEPT ![req[p].on] = AnsweredAt(req[p])]
  <2>1. stopped \in [Principals -> Time]
    BY DEF OffInv, TypeOK
  <2>2. stopped' = IF req[p].kind = "purge" THEN stopped
                   ELSE [stopped EXCEPT ![req[p].on] =
                           IF AnsweredAt(req[p]) > stopped[req[p].on] THEN AnsweredAt(req[p]) ELSE stopped[req[p].on]]
    BY DEF Answer, AnsweredAt
  <2>. QED BY <1>2, <2>1, <2>2
<1>4. Onward(p, Idle) /\ Goes(p, Idle)
  BY <1>1 DEF Return, Onward, Goes
<1>5. stopped' \in [Principals -> Time] /\ owed' \subseteq Users
  BY <1>1, <1>2, <1>3 DEF OffInv, TypeOK
<1>6. OffInv'
  BY <1>1, <1>4, <1>5, GoesOn DEF OffInv, TypeOK, store
<1>. QED BY <1>1, <1>2, <1>3, <1>4, <1>6

\* Fail.
LEMMA FailIs ==
  ASSUME OffInv, NEW p \in Requests, Fail(p)
  PROVE  /\ OffInv' /\ Onward(p, Idle) /\ UNCHANGED <<store, clock, asked, stopped, loose>>
         /\ \A u \in Users : lost[u] <= lost'[u]
         /\ req[p].step = "revokeUser" => req[p].on \in Users /\ req[p].at <= lost'[req[p].on]
         /\ owed \subseteq owed'
         /\ req[p].kind \in StopKinds /\ req[p].step \notin {"save", "answer"} => req[p].on \in owed'
<1>1. /\ Busy(p) /\ req[p] \in Underway /\ KindAt(req[p]) /\ HoldsAt(req[p]) /\ Return(p)
      /\ UNCHANGED <<store, clock, asked, stopped, loose>> /\ faults' \in 0 .. MaxFaults /\ req[p].at \in Time
  BY BusyIs, OffboardingAssumption DEF Fail, OffInv, TypeOK, Underway
<1>2. /\ req[p].kind \in StopKinds => req[p].on \in Users
      /\ req[p].step = "revokeUser" => req[p].kind \in StopKinds
  BY <1>1 DEF HoldsAt, KindAt, SaveKinds
<1>3. /\ lost' \in [Users -> Time] /\ \A u \in Users : lost[u] <= lost'[u]
      /\ req[p].step = "revokeUser" => req[p].at <= lost'[req[p].on]
  <2>1. lost \in [Users -> Time]
    BY DEF OffInv, TypeOK
  <2>2. lost' = IF req[p].step = "revokeUser" /\ req[p].at > lost[req[p].on]
                THEN [lost EXCEPT ![req[p].on] = req[p].at] ELSE lost
    BY DEF Fail
  <2>. QED BY <1>1, <1>2, <2>1, <2>2, OffboardingAssumption DEF Time
<1>4. /\ owed' \subseteq Users /\ owed \subseteq owed'
      /\ req[p].kind \in StopKinds /\ req[p].step \notin {"save", "answer"} => req[p].on \in owed'
  BY <1>2 DEF Fail, OffInv, TypeOK
<1>5. Onward(p, Idle) /\ Goes(p, Idle)
  BY <1>1 DEF Return, Onward, Goes
<1>6. OffInv'
  BY <1>1, <1>3, <1>4, <1>5, GoesOn DEF OffInv, TypeOK, store
<1>. QED BY <1>1, <1>2, <1>3, <1>4, <1>5, <1>6

\* The steps that are no request's.
LEMMA OtherIs ==
  ASSUME OffInv, RecountUsage \/ Tick \/ (\E x \in Signalled : RejectUnresolved(x)) \/ UNCHANGED vars
  PROVE  OffInv' /\ UNCHANGED <<user, agent, epoch, announced, req, history>>
<1>1. UNCHANGED <<user, agent, epoch, announced, req, history>>
  BY DEF RecountUsage, Tick, RejectUnresolved, vars, store, history
<1>2. /\ clock' \in Time /\ asked' \in 0 .. MaxAsked /\ faults' \in 0 .. MaxFaults
      /\ recorded' \in [Signalled -> {"none", "accepted", "rejected"}]
  BY OffboardingAssumption DEF RecountUsage, Tick, RejectUnresolved, vars, store, Ask, OffInv, TypeOK, Time
<1>3. usage' \in 0 .. Cardinality(Users)
  <2>. DEFINE occ == {u \in Users : user[u].status # "deleted" \/ user[u].purge = "release"}
  <2>1. occ \subseteq Users
    OBVIOUS
  <2>2. Cardinality(Users) \in Nat /\ Cardinality(occ) \in Nat /\ Cardinality(occ) <= Cardinality(Users)
    BY <2>1, OffboardingAssumption, FS_Subset, FS_CardinalityType
  <2>3. usage' = usage \/ usage' = Cardinality(occ)
    BY DEF RecountUsage, Tick, RejectUnresolved, vars, store, CountOccupying
  <2>. QED BY <2>2, <2>3 DEF OffInv, TypeOK
<1>4. \A p \in Requests : Busy(p)' <=> Busy(p)
  BY <1>1 DEF Busy
<1>5. OffInv'
  BY <1>1, <1>2, <1>3, <1>4 DEF OffInv, TypeOK, history
<1>. QED BY <1>1, <1>5

\* The disjuncts of a step.
LEMMA StepCases ==
  ASSUME [Next]_vars
  PROVE  \/ \E p \in Requests :
              \/ Save(p) \/ RevokeUser(p) \/ ListOwned(p) \/ RevokeAgent(p)
              \/ \E a \in Agents : RevokeOwned(p, a) \/ DisableOwned(p, a)
              \/ PurgeRead(p) \/ Tombstone(p) \/ SaveAnnounce(p) \/ ClosePurge(p)
              \/ ReleaseUsage(p) \/ Announce(p)
              \/ Commit(p) \/ RecordEvent(p) \/ Reflect(p) \/ Answer(p) \/ Fail(p)
              \/ AskSomething(p) \/ \E u \in Users : PurgeExpiredSoftDeleted(p, u)
         \/ RecountUsage \/ Tick \/ (\E x \in Signalled : RejectUnresolved(x)) \/ UNCHANGED vars
BY Zenon DEF Next, Serve

\* Types are kept by every step.
LEMMA NextOff ==
  ASSUME OffInv, [Next]_vars
  PROVE  OffInv'
BY StepCases, SaveIs, RevokeUserIs, ListOwnedIs, RevokeAgentIs, RevokeOwnedIs, DisableOwnedIs, PurgeReadIs,
   TombstoneIs, ReleaseIs, AnnounceIs, CommitIs, ReceiveIs, AnswerIs, FailIs, AskIs, OtherIs

-------------------------------------------------------------------------------
(* Registrations. *)

\* A step in which nobody else's registration loses its unborn agent.
LEMMA BirthOnward ==
  ASSUME OffInv, BirthInv, NEW p \in Requests, NEW new, Onward(p, new),
         \A q \in Requests : /\ Busy(q) /\ req[q].kind = "register" /\ (q = p => new # Idle)
                             => agent'[req[q].on].status = "unborn"
  PROVE  BirthInv'
<1>1. /\ \A q \in Requests : req'[q] = IF q = p THEN new ELSE req[q]
      /\ \A q \in Requests : Busy(q)' <=> IF q = p THEN new # Idle ELSE Busy(q)
  BY GoesOn DEF Onward
<1>2. Busy(p) /\ (new # Idle => new.kind = req[p].kind /\ new.on = req[p].on)
  BY DEF Onward
<1>3. \A q \in Requests : Busy(q)' => Busy(q) /\ req'[q].kind = req[q].kind /\ req'[q].on = req[q].on
  BY <1>1, <1>2
<1>4. ASSUME NEW q \in Requests, Busy(q)', req'[q].kind = "register"
      PROVE  /\ agent'[req'[q].on].status = "unborn"
             /\ \A o \in Requests : Busy(o)' /\ req'[o].on = req'[q].on => o = q
  <2>1. Busy(q) /\ req[q].kind = "register" /\ req'[q].on = req[q].on /\ (q = p => new # Idle)
    BY <1>1, <1>3, <1>4
  <2>2. agent'[req'[q].on].status = "unborn"
    BY <2>1
  <2>3. ASSUME NEW o \in Requests, Busy(o)', req'[o].on = req'[q].on PROVE o = q
    BY <1>3, <2>1, <2>3 DEF BirthInv
  <2>. QED BY <2>2, <2>3
<1>. QED BY <1>4 DEF BirthInv

\* A request that begins leaves the registrations alone with their agents.
LEMMA BirthBegun ==
  ASSUME OffInv, BirthInv, NEW p \in Requests, NEW new, Begun(p, new)
  PROVE  BirthInv'
<1>1. /\ \A q \in Requests : req'[q] = IF q = p THEN new ELSE req[q]
      /\ \A q \in Requests : Busy(q)' <=> q = p \/ Busy(q)
      /\ ~ Busy(p) /\ agent' = agent
  BY GoesOn, BusyIs DEF Begun, store
<1>2. ASSUME NEW q \in Requests, q # p, Busy(q), req[q].kind = "register"
      PROVE  new.on # req[q].on
  <2>1. req[q].on \in Agents /\ agent[req[q].on].status = "unborn"
    BY <1>2, BusyIs DEF BirthInv, HoldsAt
  <2>2. new.kind = "register" => new.on # req[q].on
    BY <1>2 DEF Begun
  <2>3. new.kind # "register" => new.on # req[q].on
    BY <2>1, OffboardingAssumption DEF Begun
  <2>. QED BY <2>2, <2>3
<1>3. new.kind = "register" => /\ agent[new.on].status = "unborn"
                               /\ \A q \in Requests : Busy(q) => req[q].on # new.on
  BY DEF Begun
<1>4. ASSUME NEW q \in Requests, Busy(q)', req'[q].kind = "register"
      PROVE  /\ agent'[req'[q].on].status = "unborn"
             /\ \A o \in Requests : Busy(o)' /\ req'[o].on = req'[q].on => o = q
  <2>1. CASE q = p
    BY <1>1, <1>3, <1>4, <2>1
  <2>2. CASE q # p
    BY <1>1, <1>2, <1>4, <2>2 DEF BirthInv
  <2>. QED BY <2>1, <2>2
<1>. QED BY <1>4 DEF BirthInv

\* Registrations stay alone with their agents.
LEMMA BirthMoves ==
  ASSUME OffInv, BirthInv, [Next]_vars
  PROVE  BirthInv'
<1>1. ASSUME NEW p \in Requests, NEW new, Onward(p, new), agent' = agent PROVE BirthInv'
  BY <1>1, BirthOnward DEF BirthInv
<1>2. ASSUME NEW p \in Requests,
             \/ Save(p) \/ RevokeUser(p) \/ ListOwned(p) \/ RevokeAgent(p)
             \/ \E a \in Agents : RevokeOwned(p, a)
             \/ PurgeRead(p) \/ Tombstone(p) \/ SaveAnnounce(p) \/ ClosePurge(p)
             \/ ReleaseUsage(p) \/ Announce(p) \/ RecordEvent(p) \/ Reflect(p) \/ Answer(p) \/ Fail(p)
      PROVE  BirthInv'
  <2>1. agent' = agent
    BY <1>2 DEF Save, RevokeUser, ListOwned, RevokeAgent, RevokeOwned, PurgeRead, Tombstone, SaveAnnounce,
                ClosePurge, ReleaseUsage, Announce, RecordEvent, Reflect, Answer, Fail, store
  <2>2. \E new : Onward(p, new)
    BY <1>2, SaveIs, RevokeUserIs, ListOwnedIs, RevokeAgentIs, RevokeOwnedIs, PurgeReadIs,
       TombstoneIs, ReleaseIs, AnnounceIs, ReceiveIs, AnswerIs, FailIs
  <2>. QED BY <1>1, <2>1, <2>2
<1>3. ASSUME NEW p \in Requests, NEW a \in Agents, DisableOwned(p, a) PROVE BirthInv'
  <2>1. PICK new : /\ Onward(p, new)
                   /\ \/ agent' = agent
                      \/ agent' = [agent EXCEPT ![a].status = "disabled"] /\ StillOwned(a, req[p].on)
    BY <1>3, DisableOwnedIs
  <2>2. \A b \in Agents : agent[b].status = "unborn" => agent'[b].status = "unborn"
    BY <2>1 DEF OffInv, TypeOK, StillOwned
  <2>3. \A q \in Requests : Busy(q) /\ req[q].kind = "register" => req[q].on \in Agents
    BY BusyIs DEF HoldsAt
  <2>. QED BY <2>1, <2>2, <2>3, BirthOnward DEF BirthInv
<1>4. ASSUME NEW p \in Requests, Commit(p) PROVE BirthInv'
  <2>1. PICK row \in AgentRows : agent' = [agent EXCEPT ![req[p].on] = row]
    BY <1>4, CommitIs
  <2>2. PICK new : Onward(p, new) /\ (new # Idle => new.kind \in AgentKinds)
    BY <1>4, CommitIs
  <2>3. ASSUME NEW q \in Requests, Busy(q), req[q].kind = "register", q = p => new # Idle
        PROVE  agent'[req[q].on].status = "unborn"
    <3>1. q # p
      BY <2>2, <2>3 DEF Onward, AgentKinds
    <3>2. req[q].on # req[p].on
      BY <2>2, <2>3, <3>1 DEF BirthInv, Onward
    <3>3. req[q].on \in Agents /\ agent[req[q].on].status = "unborn"
      BY <2>3, BusyIs DEF HoldsAt, BirthInv
    <3>. QED BY <2>1, <3>2, <3>3 DEF OffInv, TypeOK
  <2>. QED BY <2>2, <2>3, BirthOnward
<1>5. ASSUME NEW p \in Requests, AskSomething(p) \/ \E u \in Users : PurgeExpiredSoftDeleted(p, u) PROVE BirthInv'
  BY <1>5, AskIs, BirthBegun
<1>6. ASSUME RecountUsage \/ Tick \/ (\E x \in Signalled : RejectUnresolved(x)) \/ UNCHANGED vars PROVE BirthInv'
  <2>1. req' = req /\ agent' = agent
    BY <1>6, OtherIs
  <2>. QED BY <2>1 DEF BirthInv, Busy
<1>. QED BY StepCases, <1>2, <1>3, <1>4, <1>5, <1>6

\* An agent that is killed stays killed or goes.
LEMMA KillMoves ==
  ASSUME OffInv, BirthInv, [Next]_vars, NEW a \in Agents, agent[a].status = "killed"
  PROVE  agent'[a].status \in {"killed", "gone"}
<1>1. ASSUME agent' = agent PROVE agent'[a].status \in {"killed", "gone"}
  BY <1>1
<1>2. ASSUME NEW p \in Requests,
             \/ Save(p) \/ RevokeUser(p) \/ ListOwned(p) \/ RevokeAgent(p)
             \/ \E b \in Agents : RevokeOwned(p, b)
             \/ PurgeRead(p) \/ Tombstone(p) \/ SaveAnnounce(p) \/ ClosePurge(p)
             \/ ReleaseUsage(p) \/ Announce(p) \/ RecordEvent(p) \/ Reflect(p) \/ Answer(p) \/ Fail(p)
      PROVE  agent' = agent
  BY <1>2 DEF Save, RevokeUser, ListOwned, RevokeAgent, RevokeOwned, PurgeRead, Tombstone, SaveAnnounce,
              ClosePurge, ReleaseUsage, Announce, RecordEvent, Reflect, Answer, Fail, store
<1>3. ASSUME NEW p \in Requests, NEW b \in Agents, DisableOwned(p, b) PROVE agent'[a].status \in {"killed", "gone"}
  <2>1. agent' = agent \/ (agent' = [agent EXCEPT ![b].status = "disabled"] /\ agent[b].status = "active")
    <3>1. agent' = agent \/ (agent' = [agent EXCEPT ![b].status = "disabled"] /\ StillOwned(b, req[p].on))
      BY <1>3, DisableOwnedIs
    <3>. QED BY <3>1 DEF StillOwned
  <2>. QED BY <2>1 DEF OffInv, TypeOK
<1>4. ASSUME NEW p \in Requests, Commit(p) PROVE agent'[a].status \in {"killed", "gone"}
  <2>1. PICK row \in AgentRows :
          /\ agent' = [agent EXCEPT ![req[p].on] = row] /\ req[p].on \in Agents
          /\ req[p].kind = "register" \/ agent[req[p].on].status # "killed" \/ row.status \in {"killed", "gone"}
    BY <1>4, CommitIs
  <2>2. req[p].kind = "register" => agent[req[p].on].status = "unborn"
    BY <1>4 DEF BirthInv, Commit
  <2>. QED BY <2>1, <2>2 DEF OffInv, TypeOK
<1>5. ASSUME NEW p \in Requests, AskSomething(p) \/ \E u \in Users : PurgeExpiredSoftDeleted(p, u) PROVE agent' = agent
  BY <1>5, AskIs DEF Begun, store
<1>6. ASSUME RecountUsage \/ Tick \/ (\E x \in Signalled : RejectUnresolved(x)) \/ UNCHANGED vars PROVE agent' = agent
  BY <1>6, OtherIs
<1>. QED BY StepCases, <1>1, <1>2, <1>3, <1>4, <1>5, <1>6

-------------------------------------------------------------------------------
(* Purges. *)

\* A request goes on, the announcements grow, and no purge is closed unannounced.
LEMMA PurgeOnward ==
  ASSUME OffInv, PurgeInv, NEW p \in Requests, NEW new, Goes(p, new), announced \subseteq announced',
         \A u \in Users : user'[u].status = "deleted" /\ user'[u].purge = "none" => u \in announced',
         new # Idle /\ new.kind = "purge" /\ new.step \in {"notifyOwner", "revokeOwned", "close"}
           => new.on \in announced'
  PROVE  PurgeInv'
<1>1. /\ \A q \in Requests : req'[q] = IF q = p THEN new ELSE req[q]
      /\ \A q \in Requests : Busy(q)' <=> IF q = p THEN new # Idle ELSE Busy(q)
  BY GoesOn
<1>2. PurgeNeverForgets'
  BY DEF PurgeNeverForgets
<1>3. ASSUME NEW q \in Requests, Busy(q)', req'[q].kind = "purge",
             req'[q].step \in {"notifyOwner", "revokeOwned", "close"}
      PROVE  req'[q].on \in announced'
  <2>1. CASE q = p
    BY <1>1, <1>3, <2>1
  <2>2. CASE q # p
    <3>1. Busy(q) /\ req'[q] = req[q]
      BY <1>1, <1>3, <2>2
    <3>2. req[q].on \in announced
      BY <1>3, <3>1 DEF PurgeInv
    <3>. QED BY <3>1, <3>2
  <2>. QED BY <2>1, <2>2
<1>. QED BY <1>2, <1>3 DEF PurgeInv

\* A purge that is closed has announced the deletion.
LEMMA PurgeMoves ==
  ASSUME OffInv, PurgeInv, [Next]_vars
  PROVE  PurgeInv'
<1>1. \A u \in Users : user[u].status = "deleted" /\ user[u].purge = "none" => u \in announced
  BY DEF PurgeInv, PurgeNeverForgets
<1>2. \A q \in Requests : /\ Busy(q) /\ req[q].kind = "purge" /\ req[q].step \in {"notifyOwner", "revokeOwned", "close"}
                          => req[q].on \in announced
  BY DEF PurgeInv
<1>3. ASSUME NEW p \in Requests,
             \/ RevokeUser(p) \/ ListOwned(p) \/ RevokeAgent(p) \/ (\E a \in Agents : RevokeOwned(p, a) \/ DisableOwned(p, a))
             \/ PurgeRead(p) \/ ReleaseUsage(p) \/ Commit(p) \/ RecordEvent(p) \/ Reflect(p) \/ Answer(p) \/ Fail(p)
      PROVE  PurgeInv'
  <2>1. user' = user /\ announced' = announced
    BY <1>3 DEF RevokeUser, ListOwned, RevokeAgent, RevokeOwned, DisableOwned, PurgeRead,
                ReleaseUsage, Commit, RecordEvent, Reflect, Answer, Fail, store
  <2>2. PICK new : /\ Onward(p, new)
                   /\ new # Idle /\ req[p].kind = "purge" /\ new.step \in {"notifyOwner", "revokeOwned", "close"}
                        => req[p].step \in {"notifyOwner", "revokeOwned", "close"}
    <3>1. CASE RevokeUser(p)
      BY <3>1, RevokeUserIs DEF StopKinds
    <3>2. CASE ListOwned(p)
      BY <3>2, ListOwnedIs
    <3>3. CASE RevokeAgent(p)
      BY <3>3, RevokeAgentIs
    <3>4. CASE \E a \in Agents : RevokeOwned(p, a)
      BY <3>4, RevokeOwnedIs
    <3>5. CASE \E a \in Agents : DisableOwned(p, a)
      BY <3>5, DisableOwnedIs
    <3>6. CASE PurgeRead(p)
      BY <3>6, PurgeReadIs
    <3>7. CASE ReleaseUsage(p)
      BY <3>7, ReleaseIs
    <3>8. CASE Commit(p)
      BY <3>8, CommitIs
    <3>9. CASE RecordEvent(p) \/ Reflect(p)
      BY <3>9, ReceiveIs
    <3>10. CASE Answer(p)
      BY <3>10, AnswerIs
    <3>11. CASE Fail(p)
      BY <3>11, FailIs
    <3>. QED BY <1>3, <3>1, <3>2, <3>3, <3>4, <3>5, <3>6, <3>7, <3>8, <3>9, <3>10, <3>11
  <2>3. /\ Goes(p, new) /\ Busy(p)
        /\ new # Idle => new.kind = req[p].kind /\ new.on = req[p].on
    BY <2>2 DEF Onward
  <2>. QED BY <1>1, <1>2, <2>1, <2>2, <2>3, PurgeOnward
<1>4. ASSUME NEW p \in Requests, Save(p) PROVE PurgeInv'
  <2>1. PICK new : Onward(p, new) /\ (new # Idle => new.step = "revokeUser")
    BY <1>4, SaveIs
  <2>2. req[p].on \in Users /\ req[p].row.status # "deleted"
    BY <1>4, BusyIs DEF Save, Serving, HoldsAt
  <2>3. announced' = announced /\ user' = [user EXCEPT ![req[p].on] = req[p].row]
    BY <1>4 DEF Save
  <2>4. \A u \in Users : user'[u].status = "deleted" /\ user'[u].purge = "none" => u \in announced'
    BY <1>1, <2>2, <2>3 DEF OffInv, TypeOK
  <2>. QED BY <2>1, <2>3, <2>4, PurgeOnward DEF Onward
<1>5. ASSUME NEW p \in Requests, Tombstone(p) \/ SaveAnnounce(p) \/ ClosePurge(p) PROVE PurgeInv'
  <2>1. PICK new : Onward(p, new) /\ (new # Idle => new.step \in {"release", "announce"})
    BY <1>5, TombstoneIs
  <2>2. /\ req[p].kind = "purge" /\ announced' = announced
        /\ user'[req[p].on].purge = "none" => req[p].step = "close"
        /\ \A u \in Users : u # req[p].on => user'[u] = user[u]
    BY <1>5, TombstoneIs
  <2>3. Goes(p, new) /\ Busy(p)
    BY <2>1 DEF Onward
  <2>4. \A u \in Users : user'[u].status = "deleted" /\ user'[u].purge = "none" => u \in announced'
    BY <1>1, <1>2, <2>2, <2>3
  <2>. QED BY <2>1, <2>2, <2>3, <2>4, PurgeOnward
<1>6. ASSUME NEW p \in Requests, Announce(p) PROVE PurgeInv'
  <2>1. PICK new : Onward(p, new) /\ new # Idle
    BY <1>6, AnnounceIs
  <2>2. user' = user /\ announced' = announced \union {req[p].on}
    BY <1>6, AnnounceIs
  <2>3. Goes(p, new) /\ new.on = req[p].on
    BY <2>1 DEF Onward
  <2>. QED BY <1>1, <2>2, <2>3, PurgeOnward
<1>7. ASSUME NEW p \in Requests, AskSomething(p) \/ \E u \in Users : PurgeExpiredSoftDeleted(p, u) PROVE PurgeInv'
  <2>1. PICK new : Begun(p, new)
    BY <1>7, AskIs
  <2>2. Goes(p, new) /\ user' = user /\ announced' = announced /\ (new.kind = "purge" => new.step = "purgeRead")
    BY <2>1 DEF Begun, store
  <2>. QED BY <1>1, <2>2, PurgeOnward
<1>8. ASSUME RecountUsage \/ Tick \/ (\E x \in Signalled : RejectUnresolved(x)) \/ UNCHANGED vars PROVE PurgeInv'
  <2>1. req' = req /\ user' = user /\ announced' = announced
    BY <1>8, OtherIs
  <2>. QED BY <2>1 DEF PurgeInv, PurgeNeverForgets, Busy
<1>. QED BY StepCases, <1>3, <1>4, <1>5, <1>6, <1>7, <1>8

-------------------------------------------------------------------------------
(* Revocation. *)

\* What is revoked stays revoked: the request that was about to revoke has revoked, or
\* was lost.
LEMMA CoveredStays ==
  ASSUME OffInv, OffInv', NEW p \in Requests, NEW new, Goes(p, new),
         \A y \in Principals : epoch[y] <= epoch'[y],
         \A u \in Users : lost[u] <= lost'[u],
         Busy(p) /\ req[p].step = "revokeUser" => req[p].at <= epoch'[req[p].on] \/ req[p].at <= lost'[req[p].on],
         NEW u \in Users, NEW t \in Time, Covered(u, t)
  PROVE  Covered(u, t)'
<1>1. /\ \A q \in Requests : q # p => req'[q] = req[q] /\ (Busy(q)' <=> Busy(q))
  BY GoesOn
<1>2. /\ epoch[u] \in Int /\ epoch'[u] \in Int /\ lost[u] \in Int /\ lost'[u] \in Int /\ t \in Int
      /\ epoch[u] <= epoch'[u] /\ lost[u] <= lost'[u]
  BY OffboardingAssumption, Sets DEF OffInv, TypeOK, Time
<1>3. CASE t <= epoch[u] \/ t <= lost[u]
  <2>1. t <= epoch'[u] \/ t <= lost'[u]
    BY <1>2, <1>3
  <2>. QED BY <2>1 DEF Covered
<1>4. ASSUME NEW q \in Requests, Busy(q), req[q].step = "revokeUser", req[q].on = u, t <= req[q].at
      PROVE  Covered(u, t)'
  <2>1. CASE q # p
    BY <1>1, <1>4, <2>1 DEF Covered
  <2>2. CASE q = p
    <3>1. req[p].at \in Int
      BY <1>4, <2>2, BusyIs, OffboardingAssumption DEF Underway, Time
    <3>2. t <= epoch'[u] \/ t <= lost'[u]
      BY <1>2, <1>4, <2>2, <3>1
    <3>. QED BY <3>2 DEF Covered
  <2>. QED BY <2>1, <2>2
<1>. QED BY <1>3, <1>4 DEF Covered

\* A request goes on as new; what was covered is covered, and so is what is new.
LEMMA EpochOnward ==
  ASSUME OffInv, OffInv', EpochInv, NEW p \in Requests, NEW new, Goes(p, new),
         \A y \in Principals : epoch[y] <= epoch'[y],
         \A u \in Users : \A t \in Time :
           /\ Covered(u, t) => Covered(u, t)'
           /\ user'[u].status \in {"disabled", "pending"} /\ user'[u].since = t => Covered(u, t)'
           /\ /\ new # Idle /\ new.on = u /\ new.row.since = t
              /\ \/ new.kind = "edit" /\ new.row.status \in {"disabled", "pending"}
                 \/ new.kind \in StopKinds /\ new.step # "save"
              => Covered(u, t)'
           /\ stopped'[u] = t => Covered(u, t)',
         \A a \in Agents : stopped'[a] <= epoch'[a],
         new # Idle /\ new.kind \in AgentKinds \union {"receive"} /\ new.step = "answer" => new.at <= epoch'[new.on]
  PROVE  EpochInv'
<1>1. /\ \A q \in Requests : req'[q] = IF q = p THEN new ELSE req[q]
      /\ \A q \in Requests : Busy(q)' <=> IF q = p THEN new # Idle ELSE Busy(q)
  BY GoesOn
<1>2. ASSUME NEW u \in Users, NEW t \in Time, NEW q \in Requests,
             Busy(q)', req'[q].on = u, req'[q].row.since = t,
             \/ req'[q].kind = "edit" /\ req'[q].row.status \in {"disabled", "pending"}
             \/ req'[q].kind \in StopKinds /\ req'[q].step # "save"
      PROVE  Covered(u, t)'
  <2>1. CASE q = p
    BY <1>1, <1>2, <2>1
  <2>2. CASE q # p
    <3>1. Busy(q) /\ req'[q] = req[q]
      BY <1>1, <1>2, <2>2
    <3>2. Covered(u, t)
      BY <1>2, <3>1 DEF EpochInv
    <3>. QED BY <3>2
  <2>. QED BY <2>1, <2>2
<1>3. ASSUME NEW q \in Requests, Busy(q)', req'[q].kind \in AgentKinds \union {"receive"}, req'[q].step = "answer"
      PROVE  req'[q].at <= epoch'[req'[q].on]
  <2>1. CASE q = p
    BY <1>1, <1>3, <2>1
  <2>2. CASE q # p
    <3>1. Busy(q) /\ req'[q] = req[q]
      BY <1>1, <1>3, <2>2
    <3>2. req[q].at <= epoch[req[q].on] /\ req[q].on \in Principals /\ req[q].at \in Time
      BY <1>3, <3>1, BusyIs DEF EpochInv, Underway
    <3>3. epoch[req[q].on] \in Int /\ epoch'[req[q].on] \in Int /\ req[q].at \in Int
      BY <3>2, OffboardingAssumption DEF OffInv, TypeOK, Time
    <3>. QED BY <3>1, <3>2, <3>3
  <2>. QED BY <2>1, <2>2
<1>. QED BY <1>2, <1>3 DEF EpochInv

\* The same when neither rows nor answers change.
LEMMA EpochSame ==
  ASSUME OffInv, OffInv', EpochInv, NEW p \in Requests, NEW new, Onward(p, new), user' = user, stopped' = stopped,
         \A y \in Principals : epoch[y] <= epoch'[y],
         \A u \in Users : lost[u] <= lost'[u],
         req[p].step = "revokeUser" => req[p].at <= epoch'[req[p].on] \/ req[p].at <= lost'[req[p].on],
         req[p].kind \in StopKinds => req[p].step # "save",
         new # Idle /\ new.kind \in AgentKinds \union {"receive"} /\ new.step = "answer" => new.at <= epoch'[new.on]
  PROVE  EpochInv'
<1>1. \A u \in Users : \A t \in Time : Covered(u, t) => Covered(u, t)'
  BY CoveredStays DEF Onward
<1>2. ASSUME NEW u \in Users, NEW t \in Time, new # Idle, new.on = u, new.row.since = t,
             \/ new.kind = "edit" /\ new.row.status \in {"disabled", "pending"}
             \/ new.kind \in StopKinds /\ new.step # "save"
      PROVE  Covered(u, t)'
  <2>1. Busy(p) /\ new.kind = req[p].kind /\ new.on = req[p].on /\ req[p].kind # "purge"
    BY <1>2 DEF Onward, StopKinds
  <2>2. req[p].step # "purgeRead"
    BY <2>1, BusyIs DEF KindAt
  <2>3. new.row = req[p].row
    BY <1>2, <2>2 DEF Onward
  <2>4. Covered(u, t)
    BY <1>2, <2>1, <2>3 DEF EpochInv
  <2>. QED BY <1>1, <2>4
<1>3. ASSUME NEW a \in Agents PROVE stopped'[a] <= epoch'[a]
  <2>1. stopped[a] <= epoch[a] /\ epoch[a] <= epoch'[a] /\ a \in Principals
    BY Sets DEF EpochInv
  <2>2. stopped[a] \in Int /\ epoch[a] \in Int /\ epoch'[a] \in Int
    BY <2>1, OffboardingAssumption DEF OffInv, TypeOK, Time
  <2>. QED BY <2>1, <2>2
<1>4. \A u \in Users : \A t \in Time :
        /\ user'[u].status \in {"disabled", "pending"} /\ user'[u].since = t => Covered(u, t)'
        /\ stopped'[u] = t => Covered(u, t)'
  BY <1>1 DEF EpochInv
<1>. QED BY <1>1, <1>2, <1>3, <1>4, EpochOnward DEF Onward

\* Times never go down when they do not change.
LEMMA SameTimes ==
  ASSUME OffInv
  PROVE  /\ epoch' = epoch => \A y \in Principals : epoch[y] <= epoch'[y]
         /\ lost' = lost => \A u \in Users : lost[u] <= lost'[u]
BY OffboardingAssumption DEF OffInv, TypeOK, Time

\* A row that is saved is covered.
LEMMA EpochSave ==
  ASSUME OffInv, EpochInv, NEW p \in Requests, Save(p)
  PROVE  EpochInv'
<1>1. PICK new : /\ Onward(p, new)
                 /\ IF req[p].kind \in StopKinds THEN new # Idle /\ new.step = "revokeUser" ELSE new = Idle
  BY SaveIs
<1>2. OffInv'
  BY SaveIs
<1>3. /\ Busy(p) /\ req[p] \in Underway /\ KindAt(req[p]) /\ HoldsAt(req[p]) /\ req[p].kind \in SaveKinds
      /\ req[p].step = "save" /\ req[p].on \in Users /\ req[p].at \in Time
  BY BusyIs DEF Save, Serving, HoldsAt, Underway
<1>4. epoch' = epoch /\ lost' = lost /\ stopped' = stopped /\ user' = [user EXCEPT ![req[p].on] = req[p].row]
  BY DEF Save
<1>5. Goes(p, new) /\ (new # Idle => new.kind = req[p].kind /\ new.on = req[p].on /\ new.at = req[p].at /\ new.row = req[p].row)
  BY <1>1, <1>3 DEF Onward
<1>6. \A u \in Users : \A t \in Time : Covered(u, t) => Covered(u, t)'
  BY <1>2, <1>3, <1>4, <1>5, SameTimes, CoveredStays
<1>7. ASSUME NEW u \in Users, NEW t \in Time, req[p].kind \in StopKinds, req[p].on = u, req[p].row.since = t
      PROVE  Covered(u, t)'
  <2>1. req'[p] = new /\ Busy(p)' /\ new.step = "revokeUser"
    BY <1>1, <1>5, <1>7, GoesOn
  <2>2. new.on = u /\ new.at = t /\ t <= t
    BY <1>1, <1>3, <1>5, <1>7, OffboardingAssumption DEF HoldsAt, Time
  <2>. QED BY <2>1, <2>2 DEF Covered
<1>8. ASSUME NEW u \in Users, NEW t \in Time, user'[u].status \in {"disabled", "pending"}, user'[u].since = t
      PROVE  Covered(u, t)'
  <2>1. CASE u # req[p].on
    <3>1. user'[u] = user[u]
      BY <1>4, <2>1 DEF OffInv, TypeOK
    <3>. QED BY <1>6, <1>8, <3>1 DEF EpochInv
  <2>2. CASE u = req[p].on
    <3>1. user'[u] = req[p].row
      BY <1>3, <1>4, <2>2 DEF OffInv, TypeOK
    <3>2. req[p].kind \in StopKinds \/ req[p].kind = "edit"
      BY <1>3, <1>8, <3>1 DEF HoldsAt, SaveKinds
    <3>3. CASE req[p].kind \in StopKinds
      BY <1>7, <1>8, <2>2, <3>1, <3>3
    <3>4. CASE req[p].kind = "edit"
      <4>1. Covered(u, t)
        BY <1>3, <1>8, <2>2, <3>1, <3>4 DEF EpochInv
      <4>. QED BY <1>6, <4>1
    <3>. QED BY <3>2, <3>3, <3>4
  <2>. QED BY <2>1, <2>2
<1>9. ASSUME NEW u \in Users, NEW t \in Time, new # Idle, new.on = u, new.row.since = t PROVE Covered(u, t)'
  BY <1>1, <1>5, <1>7, <1>9
<1>10. \A u \in Users : \A t \in Time : stopped'[u] = t => Covered(u, t)'
  BY <1>4, <1>6 DEF EpochInv
<1>11. \A a \in Agents : stopped'[a] <= epoch'[a]
  BY <1>4 DEF EpochInv
<1>12. ~ (new # Idle /\ new.step = "answer")
  BY <1>1
<1>. QED BY <1>2, <1>4, <1>5, <1>6, <1>8, <1>9, <1>10, <1>11, <1>12, SameTimes, EpochOnward

\* An answer tells what is covered.
LEMMA EpochAnswer ==
  ASSUME OffInv, EpochInv, NEW p \in Requests, Answer(p)
  PROVE  EpochInv'
<1>1. /\ OffInv' /\ Onward(p, Idle) /\ req[p].step = "answer" /\ UNCHANGED <<store, lost>>
      /\ \/ stopped' = stopped
         \/ /\ req[p].kind \in StopKinds \union AgentKinds \union {"receive"} /\ req[p].on \in Principals
            /\ stopped' = [stopped EXCEPT ![req[p].on] = AnsweredAt(req[p])]
  BY AnswerIs
<1>2. user' = user /\ epoch' = epoch /\ lost' = lost /\ Goes(p, Idle) /\ Busy(p)
  BY <1>1 DEF store, Onward
<1>3. \A u \in Users : \A t \in Time : Covered(u, t) => Covered(u, t)'
  BY <1>1, <1>2, SameTimes, CoveredStays
<1>4. CASE stopped' = stopped
  BY <1>1, <1>2, <1>4, SameTimes, EpochSame
<1>5. CASE /\ req[p].kind \in StopKinds \union AgentKinds \union {"receive"} /\ req[p].on \in Principals
           /\ stopped' = [stopped EXCEPT ![req[p].on] = AnsweredAt(req[p])]
  <2>1. \A x \in Principals : stopped'[x] = IF x = req[p].on THEN AnsweredAt(req[p]) ELSE stopped[x]
    BY <1>5 DEF OffInv, TypeOK
  <2>2. req[p] \in Underway /\ HoldsAt(req[p])
    BY <1>2, BusyIs
  <2>3. CASE req[p].kind \in StopKinds
    <3>1. AnsweredAt(req[p]) = req[p].row.since /\ req[p].on \in Users
      BY <2>2, <2>3 DEF AnsweredAt, HoldsAt, SaveKinds
    <3>2. \A t \in Time : req[p].row.since = t => Covered(req[p].on, t)
      BY <1>1, <1>2, <2>3, <3>1 DEF EpochInv
    <3>3. ASSUME NEW u \in Users, NEW t \in Time, stopped'[u] = t PROVE Covered(u, t)'
      <4>1. CASE u = req[p].on
        <5>1. Covered(u, t)
          BY <2>1, <3>1, <3>2, <3>3, <4>1, Sets
        <5>. QED BY <1>3, <5>1
      <4>2. CASE u # req[p].on
        <5>1. Covered(u, t)
          BY <2>1, <3>3, <4>2, Sets DEF EpochInv
        <5>. QED BY <1>3, <5>1
      <4>. QED BY <4>1, <4>2
    <3>4. \A a \in Agents : stopped'[a] <= epoch'[a]
      BY <1>2, <2>1, <3>1, OffboardingAssumption, Sets DEF EpochInv
    <3>5. \A u \in Users : \A t \in Time :
            user'[u].status \in {"disabled", "pending"} /\ user'[u].since = t => Covered(u, t)'
      BY <1>2, <1>3 DEF EpochInv
    <3>. QED BY <1>1, <1>2, <1>3, <3>3, <3>4, <3>5, SameTimes, EpochOnward
  <2>4. CASE req[p].kind \notin StopKinds
    <3>1. req[p].kind \in AgentKinds \union {"receive"}
      BY <1>5, <2>4
    <3>2. AnsweredAt(req[p]) = req[p].at /\ req[p].at <= epoch[req[p].on]
      BY <1>1, <1>2, <2>4, <3>1 DEF AnsweredAt, EpochInv
    <3>3. ASSUME NEW u \in Users, NEW t \in Time, stopped'[u] = t PROVE Covered(u, t)'
      <4>1. CASE u = req[p].on
        <5>1. t <= epoch'[u]
          BY <1>2, <2>1, <3>2, <3>3, <4>1, Sets
        <5>. QED BY <5>1 DEF Covered
      <4>2. CASE u # req[p].on
        <5>1. Covered(u, t)
          BY <2>1, <3>3, <4>2, Sets DEF EpochInv
        <5>. QED BY <1>3, <5>1
      <4>. QED BY <4>1, <4>2
    <3>4. \A a \in Agents : stopped'[a] <= epoch'[a]
      BY <1>2, <2>1, <3>2, Sets DEF EpochInv
    <3>5. \A u \in Users : \A t \in Time :
            user'[u].status \in {"disabled", "pending"} /\ user'[u].since = t => Covered(u, t)'
      BY <1>2, <1>3 DEF EpochInv
    <3>. QED BY <1>1, <1>2, <1>3, <3>3, <3>4, <3>5, SameTimes, EpochOnward
  <2>. QED BY <2>3, <2>4
<1>. QED BY <1>1, <1>4, <1>5

\* A request that begins with a stopped row begins with a covered one.
LEMMA EpochBegun ==
  ASSUME OffInv, OffInv', EpochInv, NEW p \in Requests, NEW new, Begun(p, new)
  PROVE  EpochInv'
<1>1. /\ Goes(p, new) /\ ~ Busy(p) /\ user' = user /\ epoch' = epoch /\ lost' = lost /\ stopped' = stopped
  BY DEF Begun, store, history
<1>2. \A u \in Users : \A t \in Time : Covered(u, t) => Covered(u, t)'
  BY <1>1, SameTimes, CoveredStays
<1>3. ASSUME NEW u \in Users, NEW t \in Time, new # Idle, new.on = u, new.row.since = t,
             \/ new.kind = "edit" /\ new.row.status \in {"disabled", "pending"}
             \/ new.kind \in StopKinds /\ new.step # "save"
      PROVE  Covered(u, t)'
  <2>1. new.row = user[u] /\ user[u].status \in {"disabled", "pending"}
    BY <1>3 DEF Begun
  <2>2. Covered(u, t)
    BY <1>3, <2>1 DEF EpochInv
  <2>. QED BY <1>2, <2>2
<1>4. new.step # "answer"
  BY DEF Begun
<1>5. \A u \in Users : \A t \in Time :
        /\ user'[u].status \in {"disabled", "pending"} /\ user'[u].since = t => Covered(u, t)'
        /\ stopped'[u] = t => Covered(u, t)'
  BY <1>1, <1>2 DEF EpochInv
<1>6. \A a \in Agents : stopped'[a] <= epoch'[a]
  BY <1>1 DEF EpochInv
<1>. QED BY <1>1, <1>2, <1>3, <1>4, <1>5, <1>6, SameTimes, EpochOnward

\* Stopped rows and answered stops stay covered.
LEMMA EpochMoves ==
  ASSUME OffInv, EpochInv, [Next]_vars
  PROVE  EpochInv'
<1>1. OffInv'
  BY NextOff
<1>2. ASSUME NEW p \in Requests,
             \/ RevokeUser(p) \/ ListOwned(p) \/ RevokeAgent(p) \/ (\E a \in Agents : RevokeOwned(p, a) \/ DisableOwned(p, a))
             \/ PurgeRead(p) \/ ReleaseUsage(p) \/ Announce(p) \/ Commit(p) \/ RecordEvent(p) \/ Reflect(p) \/ Fail(p)
      PROVE  EpochInv'
  <2>1. user' = user /\ stopped' = stopped
    BY <1>2 DEF RevokeUser, ListOwned, RevokeAgent, RevokeOwned, DisableOwned, PurgeRead,
                ReleaseUsage, Announce, Commit, RecordEvent, Reflect, Fail, store, history
  <2>2. ~ Fail(p) => lost' = lost
    BY <1>2 DEF RevokeUser, ListOwned, RevokeAgent, RevokeOwned, DisableOwned, PurgeRead,
                ReleaseUsage, Announce, Commit, RecordEvent, Reflect, history
  <2>3. \A u \in Users : lost[u] <= lost'[u]
    BY <2>2, FailIs, SameTimes
  <2>4. ListOwned(p) \/ PurgeRead(p) \/ ReleaseUsage(p) \/ Announce(p) \/ Commit(p) \/ Fail(p)
          \/ (\E a \in Agents : DisableOwned(p, a)) => epoch' = epoch
    BY DEF ListOwned, PurgeRead, ReleaseUsage, Announce, Commit, Fail, DisableOwned, store
  <2>5. \A y \in Principals : epoch[y] <= epoch'[y]
    BY <1>2, <2>4, SameTimes, RevokeUserIs, RevokeAgentIs, RevokeOwnedIs, ReceiveIs
  <2>6. PICK new : /\ Onward(p, new)
                   /\ new # Idle /\ req[p].kind \in AgentKinds \union {"receive"} /\ new.step = "answer"
                        => req[p].at <= epoch'[req[p].on]
                   /\ req[p].step = "revokeUser"
                        => req[p].at <= epoch'[req[p].on] \/ req[p].at <= lost'[req[p].on]
    <3>0. "purge" \notin AgentKinds \union {"receive"} /\ StopKinds \intersect (AgentKinds \union {"receive"}) = {}
      BY DEF StopKinds, AgentKinds
    <3>1. CASE RevokeUser(p)
      BY <3>0, <3>1, RevokeUserIs
    <3>2. CASE ListOwned(p)
      BY <3>0, <3>2, ListOwnedIs
    <3>3. CASE RevokeAgent(p)
      BY <3>0, <3>3, RevokeAgentIs
    <3>4. CASE \E a \in Agents : RevokeOwned(p, a)
      BY <3>0, <3>4, RevokeOwnedIs
    <3>5. CASE \E a \in Agents : DisableOwned(p, a)
      BY <3>0, <3>5, DisableOwnedIs
    <3>6. CASE PurgeRead(p)
      BY <3>0, <3>6, PurgeReadIs
    <3>7. CASE ReleaseUsage(p)
      BY <3>0, <3>7, ReleaseIs
    <3>8. CASE Announce(p)
      BY <3>0, <3>8, AnnounceIs
    <3>9. CASE Commit(p)
      BY <3>9, CommitIs
    <3>10. CASE RecordEvent(p) \/ Reflect(p)
      <4>1. req[p].step # "revokeUser"
        BY <3>10 DEF RecordEvent, Reflect, Serving
      <4>. QED BY <3>10, <4>1, ReceiveIs
    <3>11. CASE Fail(p)
      BY <3>11, FailIs
    <3>. QED BY <1>2, <3>1, <3>2, <3>3, <3>4, <3>5, <3>6, <3>7, <3>8, <3>9, <3>10, <3>11
  <2>7. new # Idle => new.kind = req[p].kind /\ new.on = req[p].on /\ new.at = req[p].at
    BY <2>6 DEF Onward
  <2>8. CASE req[p].kind \in StopKinds => req[p].step # "save"
    BY <1>1, <2>1, <2>3, <2>5, <2>6, <2>7, <2>8, EpochSame
  <2>9. CASE req[p].kind \in StopKinds /\ req[p].step = "save"
    <3>1. Fail(p)
      BY <1>2, <2>9, RevokeUserIs, ListOwnedIs, RevokeAgentIs, RevokeOwnedIs, DisableOwnedIs, PurgeReadIs, ReleaseIs,
         AnnounceIs, CommitIs, ReceiveIs DEF StopKinds
    <3>2. Goes(p, Idle) /\ epoch' = epoch
      BY <2>4, <3>1, FailIs DEF Onward
    <3>3. \A u \in Users : \A t \in Time : Covered(u, t) => Covered(u, t)'
      BY <1>1, <2>3, <2>5, <2>9, <3>2, CoveredStays
    <3>4. \A u \in Users : \A t \in Time :
            /\ user'[u].status \in {"disabled", "pending"} /\ user'[u].since = t => Covered(u, t)'
            /\ stopped'[u] = t => Covered(u, t)'
      BY <2>1, <3>3 DEF EpochInv
    <3>5. \A a \in Agents : stopped'[a] <= epoch'[a]
      BY <2>1, <3>2 DEF EpochInv
    <3>. QED BY <1>1, <2>5, <3>2, <3>3, <3>4, <3>5, EpochOnward
  <2>. QED BY <2>8, <2>9
<1>3. ASSUME NEW p \in Requests, Tombstone(p) \/ SaveAnnounce(p) \/ ClosePurge(p) PROVE EpochInv'
  <2>1. PICK new : Onward(p, new) /\ (new # Idle => new.step \in {"release", "announce"})
    BY <1>3, TombstoneIs
  <2>2. /\ req[p].kind = "purge" /\ UNCHANGED <<epoch, history>> /\ user'[req[p].on].status = "deleted"
        /\ req[p].step # "revokeUser"
        /\ \A u \in Users : u # req[p].on => user'[u] = user[u]
    BY <1>3, TombstoneIs
  <2>3. epoch' = epoch /\ stopped' = stopped /\ lost' = lost /\ Goes(p, new) /\ (new # Idle => new.kind = "purge")
    BY <2>1, <2>2 DEF Onward, history
  <2>4. \A u \in Users : \A t \in Time : Covered(u, t) => Covered(u, t)'
    BY <1>1, <2>2, <2>3, SameTimes, CoveredStays
  <2>5. \A u \in Users : \A t \in Time :
          /\ user'[u].status \in {"disabled", "pending"} /\ user'[u].since = t => Covered(u, t)'
          /\ stopped'[u] = t => Covered(u, t)'
    BY <2>2, <2>3, <2>4 DEF EpochInv
  <2>6. \A a \in Agents : stopped'[a] <= epoch'[a]
    BY <2>3 DEF EpochInv
  <2>7. "purge" \notin StopKinds
    BY DEF StopKinds
  <2>. QED BY <1>1, <2>1, <2>3, <2>4, <2>5, <2>6, <2>7, SameTimes, EpochOnward
<1>4. ASSUME NEW p \in Requests, AskSomething(p) \/ \E u \in Users : PurgeExpiredSoftDeleted(p, u) PROVE EpochInv'
  BY <1>1, <1>4, AskIs, EpochBegun
<1>5. ASSUME RecountUsage \/ Tick \/ (\E x \in Signalled : RejectUnresolved(x)) \/ UNCHANGED vars PROVE EpochInv'
  <2>1. req' = req /\ user' = user /\ epoch' = epoch /\ stopped' = stopped /\ lost' = lost
    BY <1>5, OtherIs DEF history
  <2>. QED BY <2>1 DEF EpochInv, Covered, Busy
<1>. QED BY StepCases, <1>2, <1>3, <1>4, <1>5, EpochSave, EpochAnswer

\* What the epochs' invariant says of a live token.
LEMMA EpochHolds ==
  ASSUME OffInv, EpochInv
  PROVE  RevocationHolds
<1>. SUFFICES ASSUME NEW x \in Principals, NEW iat \in Time, iat < stopped[x], TokenLive(x, iat)
              PROVE  /\ x \in Users
                     /\ \/ iat < lost[x]
                        \/ \E p \in Requests : Serving(p, StopKinds, "revokeUser") /\ req[p].on = x /\ iat < req[p].at
  BY DEF RevocationHolds
<1>1. stopped[x] \in Time /\ epoch[x] \in Time /\ stopped[x] \in Int /\ epoch[x] \in Int /\ iat \in Int /\ ~ (iat < epoch[x])
  BY OffboardingAssumption DEF OffInv, TypeOK, Time, TokenLive, Revoked
<1>2. x \in Users
  BY <1>1 DEF EpochInv, Principals
<1>3. Covered(x, stopped[x])
  BY <1>1, <1>2 DEF EpochInv
<1>4. lost[x] \in Int
  BY <1>2, OffboardingAssumption DEF OffInv, TypeOK, Time
<1>5. ASSUME NEW p \in Requests, Busy(p), req[p].step = "revokeUser", stopped[x] <= req[p].at
      PROVE  Serving(p, StopKinds, "revokeUser") /\ iat < req[p].at
  <2>1. req[p] \in Underway /\ KindAt(req[p])
    BY <1>5, BusyIs
  <2>2. req[p].at \in Int
    BY <2>1, OffboardingAssumption DEF Underway, Time
  <2>3. req[p].kind \in StopKinds
    BY <1>5, <2>1 DEF KindAt
  <2>. QED BY <1>1, <1>5, <2>2, <2>3 DEF Serving
<1>. QED BY <1>1, <1>2, <1>3, <1>4, <1>5 DEF Covered

-------------------------------------------------------------------------------
(* Agents of users that are stopped. *)

\* What a request at this step knows of the agents that run, when it is about u.
Knows(r, running) ==
  r.kind \in StopKinds \union {"purge"} =>
    /\ r.step \in {"disableOwned", "revokeAgent"} => running \subseteq r.todo
    /\ r.kind \in StopKinds /\ r.step = "answer" => running = {}
    /\ r.kind = "purge" /\ r.step \notin {"purgeRead", "list", "disableOwned", "revokeAgent", "answer"} => running = {}

\* A request goes on, and no agent is set running behind the back of a stop.
LEMMA AgentOnward ==
  ASSUME OffInv, AgentInv, NEW p \in Requests, NEW new, Goes(p, new),
         \A u \in Users :
           /\ Running(u)' \subseteq Running(u) \/ (IsActive(u)' /\ ~ Stopping(u)')
           /\ IsActive(u) /\ ~ IsActive(u)' => Running(u)' = {} \/ u \in owed' \/ Handling(u)'
           /\ u \in owed \/ Handling(u) => Running(u)' = {} \/ u \in owed' \/ Handling(u)'
           /\ user'[u].status = "deleted" => user[u].status = "deleted" \/ Running(u) = {}
           /\ new # Idle /\ new.on = u => Knows(new, Running(u)')
  PROVE  AgentInv'
<1>1. /\ \A q \in Requests : req'[q] = IF q = p THEN new ELSE req[q]
      /\ \A q \in Requests : Busy(q)' <=> IF q = p THEN new # Idle ELSE Busy(q)
  BY GoesOn
<1>. SUFFICES ASSUME NEW u \in Users
              PROVE  /\ ~ IsActive(u)' => Running(u)' = {} \/ u \in owed' \/ Handling(u)'
                     /\ user'[u].status = "deleted" => Running(u)' = {}
                     /\ \A q \in Requests : Busy(q)' /\ req'[q].on = u => Knows(req'[q], Running(u)')
  BY DEF AgentInv, Knows
<1>2. ~ IsActive(u)' => Running(u)' = {} \/ u \in owed' \/ Handling(u)'
  <2>1. ~ IsActive(u) => Running(u) = {} \/ u \in owed \/ Handling(u)
    BY DEF AgentInv
  <2>. QED BY <2>1
<1>3. user'[u].status = "deleted" => Running(u)' = {}
  <2>1. user[u].status = "deleted" => Running(u) = {}
    BY DEF AgentInv
  <2>2. user'[u].status = "deleted" => ~ IsActive(u)'
    BY DEF IsActive
  <2>. QED BY <2>1, <2>2
<1>4. ASSUME NEW q \in Requests, Busy(q)', req'[q].on = u PROVE Knows(req'[q], Running(u)')
  <2>1. CASE q = p
    BY <1>1, <1>4, <2>1
  <2>2. CASE q # p
    <3>1. Busy(q) /\ req'[q] = req[q]
      BY <1>1, <1>4, <2>2
    <3>2. Knows(req[q], Running(u))
      BY <1>4, <3>1 DEF AgentInv, Knows
    <3>3. CASE Running(u)' \subseteq Running(u)
      BY <3>1, <3>2, <3>3 DEF Knows
    <3>4. CASE ~ Stopping(u)'
      BY <1>4, <3>1, <3>4 DEF Stopping, Knows
    <3>. QED BY <3>3, <3>4
  <2>. QED BY <2>1, <2>2
<1>. QED BY <1>2, <1>3, <1>4

\* A stop goes on with the agents.
LEMMA HandlingStays ==
  ASSUME OffInv, NEW p \in Requests, NEW new, Goes(p, new),
         /\ Busy(p) /\ req[p].kind \in StopKinds /\ req[p].step \notin {"save", "answer"}
         => new # Idle /\ new.kind = req[p].kind /\ new.on = req[p].on /\ new.step \notin {"save", "answer"},
         NEW u \in Users, Handling(u)
  PROVE  Handling(u)'
<1>1. /\ \A q \in Requests : req'[q] = IF q = p THEN new ELSE req[q]
      /\ \A q \in Requests : Busy(q)' <=> IF q = p THEN new # Idle ELSE Busy(q)
  BY GoesOn
<1>2. PICK q \in Requests : /\ Busy(q) /\ req[q].on = u /\ req[q].kind \in StopKinds
                            /\ req[q].step \notin {"save", "answer"}
  BY DEF Handling
<1>3. Busy(q)' /\ req'[q].on = u /\ req'[q].kind \in StopKinds /\ req'[q].step \notin {"save", "answer"}
  BY <1>1, <1>2
<1>. QED BY <1>3 DEF Handling

\* The same when users, agents and what is owed do not change.
LEMMA AgentSame ==
  ASSUME OffInv, AgentInv, NEW p \in Requests, NEW new, Onward(p, new), new # Idle, new.step # "save",
         UNCHANGED <<user, agent, loose, owed>>,
         req[p].on \in Users => Knows(new, Running(req[p].on))
  PROVE  AgentInv'
<1>1. Busy(p) /\ Goes(p, new) /\ new.kind = req[p].kind /\ new.on = req[p].on
  BY DEF Onward
<1>2. \A u \in Users : Running(u)' = Running(u) /\ (IsActive(u)' <=> IsActive(u))
  BY DEF Running, IsActive
<1>3. ASSUME NEW u \in Users, Handling(u) PROVE Running(u)' = {} \/ u \in owed' \/ Handling(u)'
  <2>1. CASE new.kind \in StopKinds /\ new.step = "answer" /\ new.on = u
    BY <1>1, <1>2, <2>1 DEF Knows
  <2>2. CASE ~ (new.kind \in StopKinds /\ new.step = "answer" /\ new.on = u)
    <3>1. /\ \A q \in Requests : req'[q] = IF q = p THEN new ELSE req[q]
          /\ \A q \in Requests : Busy(q)' <=> IF q = p THEN new # Idle ELSE Busy(q)
      BY <1>1, GoesOn
    <3>2. PICK q \in Requests : /\ Busy(q) /\ req[q].on = u /\ req[q].kind \in StopKinds
                                /\ req[q].step \notin {"save", "answer"}
      BY <1>3 DEF Handling
    <3>3. Busy(q)' /\ req'[q].on = u /\ req'[q].kind \in StopKinds /\ req'[q].step \notin {"save", "answer"}
      BY <1>1, <2>2, <3>1, <3>2
    <3>. QED BY <3>3 DEF Handling
  <2>. QED BY <2>1, <2>2
<1>4. ASSUME NEW u \in Users, new.on = u PROVE Knows(new, Running(u)')
  BY <1>1, <1>2, <1>4
<1>. QED BY <1>1, <1>2, <1>3, <1>4, AgentOnward

\* What a request knows, from the invariant.
LEMMA AgentKnows ==
  ASSUME AgentInv, NEW p \in Requests, Busy(p), req[p].on \in Users
  PROVE  Knows(req[p], Running(req[p].on))
BY DEF AgentInv, Knows

\* The steps that change neither users nor agents.
LEMMA AgentQuiet ==
  ASSUME OffInv, AgentInv, NEW p \in Requests,
         \/ RevokeUser(p) \/ ListOwned(p) \/ RevokeAgent(p) \/ (\E a \in Agents : RevokeOwned(p, a))
         \/ PurgeRead(p) \/ ReleaseUsage(p) \/ Announce(p) \/ RecordEvent(p) \/ Reflect(p)
  PROVE  AgentInv'
<1>1. UNCHANGED <<user, agent, loose, owed>>
  BY DEF RevokeUser, ListOwned, RevokeAgent, RevokeOwned, PurgeRead, ReleaseUsage, Announce, RecordEvent, Reflect,
         store, history
<1>2. Busy(p)
  BY DEF RevokeUser, ListOwned, RevokeAgent, RevokeOwned, PurgeRead, ReleaseUsage, Announce, RecordEvent, Reflect, Serving
<1>. DEFINE R == Running(req[p].on)
<1>3. req[p].on \in Users => Knows(req[p], R)
  BY <1>2, AgentKnows
<1>4. ASSUME NEW new, Onward(p, new), new # Idle, new.step # "save", req[p].on \in Users => Knows(new, R) PROVE AgentInv'
  BY <1>1, <1>4, AgentSame
<1>5. \A new : Onward(p, new) /\ new # Idle => new.kind = req[p].kind /\ new.on = req[p].on
  BY DEF Onward
<1>. HIDE DEF R
<1>6. "purge" \notin StopKinds /\ StopKinds \intersect AgentKinds = {} /\ "purge" \notin AgentKinds
      /\ "receive" \notin StopKinds
  BY DEF StopKinds, AgentKinds
<1>7. CASE RevokeUser(p)
  <2>1. PICK new : Onward(p, new) /\ new # Idle /\ new.step = "notifyOwner" /\ req[p].kind \in StopKinds
    BY <1>7, RevokeUserIs
  <2>2. Knows(new, R)
    BY <1>5, <1>6, <2>1 DEF Knows
  <2>. QED BY <1>4, <2>1, <2>2
<1>8. CASE ListOwned(p)
  <2>1. PICK new : /\ Onward(p, new) /\ new # Idle
                   /\ req[p].step = "notifyOwner"
                        => new.step = "revokeOwned" \/ new.step = IF new.kind = "purge" THEN "close" ELSE "list"
                   /\ req[p].step = "list"
                        => /\ new.todo = {a \in Owned(new.on) : agent[a].status = "active"}
                           /\ \/ new.step = "disableOwned"
                              \/ new.todo = {} /\ new.step = IF new.kind = "purge" THEN "tombstone" ELSE "answer"
    BY <1>8, ListOwnedIs
  <2>2. req[p].step \in {"notifyOwner", "list"} /\ req[p].kind \in StopKinds \union {"purge"}
    BY <1>8, ListOwnedIs
  <2>3. CASE req[p].step = "notifyOwner"
    <3>1. new.step # "save"
      BY <2>1, <2>3
    <3>2. req[p].on \in Users => Knows(new, R)
      BY <1>3, <1>5, <1>6, <2>1, <2>2, <2>3 DEF Knows
    <3>. QED BY <1>4, <2>1, <3>1, <3>2
  <2>4. CASE req[p].step = "list"
    <3>1. new.step # "save"
      BY <2>1, <2>4
    <3>2. R \subseteq {a \in Owned(req[p].on) : agent[a].status = "active"}
      BY DEF R, Running, Owned
    <3>3. R \subseteq new.todo
      BY <1>5, <2>1, <2>4, <3>2
    <3>4. Knows(new, R)
      BY <2>1, <2>4, <3>3 DEF Knows
    <3>. QED BY <1>4, <2>1, <3>1, <3>4
  <2>. QED BY <2>2, <2>3, <2>4
<1>9. CASE RevokeAgent(p)
  <2>1. PICK new : /\ Onward(p, new) /\ new # Idle /\ new.todo = req[p].todo
                   /\ IF req[p].kind \in AgentKinds THEN new.step = "answer"
                      ELSE /\ req[p].kind \in StopKinds \union {"purge"}
                           /\ \/ new.step = "disableOwned"
                              \/ new.todo = {} /\ new.step = IF new.kind = "purge" THEN "tombstone" ELSE "answer"
    BY <1>9, RevokeAgentIs
  <2>2. req[p].step = "revokeAgent" /\ new.step # "save" /\ new.kind = req[p].kind
    BY <1>5, <1>9, <2>1, RevokeAgentIs
  <2>3. CASE req[p].kind \in AgentKinds
    <3>1. Knows(new, R)
      BY <1>6, <2>2, <2>3 DEF Knows
    <3>. QED BY <1>4, <2>1, <2>2, <3>1
  <2>4. CASE req[p].kind \in StopKinds \union {"purge"}
    <3>1. req[p].on \in Users => R \subseteq new.todo
      BY <1>3, <2>1, <2>2, <2>4 DEF Knows
    <3>2. req[p].on \in Users => Knows(new, R)
      BY <1>6, <2>1, <2>2, <2>4, <3>1 DEF Knows
    <3>. QED BY <1>4, <2>1, <2>2, <3>2
  <2>. QED BY <2>1, <2>3, <2>4
<1>10. CASE \E a \in Agents : RevokeOwned(p, a)
  <2>1. PICK new : /\ Onward(p, new) /\ new # Idle
                   /\ new.step = "revokeOwned" \/ new.step = IF new.kind = "purge" THEN "close" ELSE "list"
    BY <1>10, RevokeOwnedIs
  <2>2. req[p].step = "revokeOwned" /\ req[p].kind \in StopKinds \union {"purge"}
    BY <1>10, RevokeOwnedIs
  <2>3. new.step # "save" /\ new.kind = req[p].kind
    BY <1>5, <2>1
  <2>4. req[p].on \in Users => Knows(new, R)
    BY <1>3, <1>6, <2>1, <2>2, <2>3 DEF Knows
  <2>. QED BY <1>4, <2>1, <2>3, <2>4
<1>11. CASE PurgeRead(p)
  <2>1. PICK new : /\ Onward(p, new) /\ new # Idle
                   /\ \/ new.step = "list"
                      \/ user[req[p].on].status = "deleted" /\ new.step \in {"release", "announce", "answer"}
    BY <1>11, PurgeReadIs
  <2>2. req[p].kind = "purge" /\ req[p].on \in Users
    BY <1>11, PurgeReadIs
  <2>3. user[req[p].on].status = "deleted" => R = {}
    BY <2>2 DEF AgentInv, R
  <2>4. new.step # "save" /\ new.kind = req[p].kind
    BY <1>5, <2>1
  <2>5. Knows(new, R)
    BY <1>6, <2>1, <2>2, <2>3, <2>4 DEF Knows
  <2>. QED BY <1>4, <2>1, <2>4, <2>5
<1>12. CASE ReleaseUsage(p) \/ Announce(p)
  <2>1. PICK new : Onward(p, new) /\ new # Idle /\ new.step \in {"saveAnnounce", "notifyOwner"}
    BY <1>12, ReleaseIs, AnnounceIs
  <2>2. req[p].kind = "purge" /\ req[p].step \in {"release", "announce"}
    BY <1>12, ReleaseIs, AnnounceIs
  <2>3. req[p].on \in Users => Knows(new, R)
    BY <1>3, <1>5, <1>6, <2>1, <2>2 DEF Knows
  <2>. QED BY <1>4, <2>1, <2>3
<1>13. CASE RecordEvent(p) \/ Reflect(p)
  <2>1. PICK new : Onward(p, new) /\ new # Idle /\ new.step \in {"reflect", "answer"}
    BY <1>13, ReceiveIs
  <2>2. req[p].kind = "receive"
    BY <1>13, ReceiveIs
  <2>3. Knows(new, R)
    BY <1>5, <1>6, <2>1, <2>2 DEF Knows
  <2>. QED BY <1>4, <2>1, <2>3
<1>. QED BY <1>7, <1>8, <1>9, <1>10, <1>11, <1>12, <1>13

\* DisableOwned takes the agent off those that run.
LEMMA AgentDisable ==
  ASSUME OffInv, AgentInv, NEW p \in Requests, NEW a \in Agents, DisableOwned(p, a)
  PROVE  AgentInv'
<1>1. PICK new :
        /\ Onward(p, new) /\ new # Idle /\ new.todo = req[p].todo \ {a}
        /\ \/ /\ StillOwned(a, req[p].on) /\ agent' = [agent EXCEPT ![a].status = "disabled"]
              /\ new.step = "revokeAgent"
           \/ /\ ~ StillOwned(a, req[p].on) /\ agent' = agent
              /\ \/ new.step = "disableOwned"
                 \/ new.todo = {} /\ new.step = IF new.kind = "purge" THEN "tombstone" ELSE "answer"
  BY DisableOwnedIs
<1>2. req[p].step = "disableOwned" /\ req[p].kind \in StopKinds \union {"purge"}
  BY DisableOwnedIs
<1>3. UNCHANGED <<user, loose, owed>> /\ Busy(p)
  BY DEF DisableOwned, history
<1>4. Goes(p, new) /\ new.kind = req[p].kind /\ new.on = req[p].on
  BY <1>1 DEF Onward
<1>5. ASSUME NEW u \in Users PROVE Running(u)' \subseteq Running(u) /\ (u = req[p].on => a \notin Running(u)')
  <2>1. CASE StillOwned(a, req[p].on) /\ agent' = [agent EXCEPT ![a].status = "disabled"]
    <3>1. \A b \in Agents : agent'[b] = IF b = a THEN [agent[a] EXCEPT !.status = "disabled"] ELSE agent[b]
      BY <2>1 DEF OffInv, TypeOK
    <3>2. agent'[a].status # "active"
      BY <3>1 DEF OffInv, TypeOK
    <3>. QED BY <1>3, <3>1, <3>2 DEF Running
  <2>2. CASE ~ StillOwned(a, req[p].on) /\ agent' = agent
    BY <1>3, <2>2 DEF Running, StillOwned
  <2>. QED BY <1>1, <2>1, <2>2
<1>6. ASSUME NEW u \in Users, new.on = u PROVE Running(u)' \subseteq new.todo
  <2>1. Running(u) \subseteq req[p].todo
    BY <1>2, <1>3, <1>4, <1>6 DEF AgentInv
  <2>. QED BY <1>1, <1>4, <1>5, <1>6, <2>1
<1>7. ASSUME NEW u \in Users, new.on = u PROVE Knows(new, Running(u)')
  <2>1. "purge" \notin StopKinds
    BY DEF StopKinds
  <2>. QED BY <1>1, <1>6, <1>7, <2>1 DEF Knows
<1>8. ASSUME NEW u \in Users, Handling(u) PROVE Running(u)' = {} \/ Handling(u)'
  <2>1. CASE new.kind \in StopKinds /\ new.step = "answer" /\ new.on = u
    BY <1>7, <2>1 DEF Knows
  <2>2. CASE ~ (new.kind \in StopKinds /\ new.step = "answer" /\ new.on = u)
    <3>1. /\ \A q \in Requests : req'[q] = IF q = p THEN new ELSE req[q]
          /\ \A q \in Requests : Busy(q)' <=> IF q = p THEN new # Idle ELSE Busy(q)
      BY <1>4, GoesOn
    <3>2. PICK q \in Requests : /\ Busy(q) /\ req[q].on = u /\ req[q].kind \in StopKinds
                                /\ req[q].step \notin {"save", "answer"}
      BY <1>8 DEF Handling
    <3>3. new.step # "save"
      BY <1>1
    <3>4. Busy(q)' /\ req'[q].on = u /\ req'[q].kind \in StopKinds /\ req'[q].step \notin {"save", "answer"}
      BY <1>1, <1>4, <2>2, <3>1, <3>2, <3>3
    <3>. QED BY <3>4 DEF Handling
  <2>. QED BY <2>1, <2>2
<1>9. \A u \in Users : (IsActive(u)' <=> IsActive(u)) /\ user'[u] = user[u] /\ (u \in owed' <=> u \in owed)
  BY <1>3 DEF IsActive
<1>. QED BY <1>4, <1>5, <1>7, <1>8, <1>9, AgentOnward

\* Commit sets an agent running behind the back of a stop only as loose.
LEMMA AgentCommit ==
  ASSUME OffInv, AgentInv, NEW p \in Requests, Commit(p)
  PROVE  AgentInv'
<1>1. PICK row \in AgentRows :
        /\ agent' = [agent EXCEPT ![req[p].on] = row]
        /\ \/ loose' = loose \union {req[p].on}
           \/ /\ loose' = loose
              /\ \/ row.status # "active" \/ row = agent[req[p].on]
                 \/ IsActive(row.owner) /\ ~ Stopping(row.owner)
  BY CommitIs
<1>2. PICK new : Onward(p, new) /\ (new # Idle => new.step = "revokeAgent" /\ new.kind \in AgentKinds)
  BY CommitIs
<1>3. /\ req[p].on \in Agents /\ req[p].kind \in AgentKinds \union {"register", "transfer"}
      /\ user' = user /\ owed' = owed
  BY CommitIs
<1>4. Busy(p) /\ Goes(p, new) /\ (new # Idle => new.on = req[p].on)
  BY <1>2 DEF Onward
<1>5. \A a \in Agents : agent'[a] = IF a = req[p].on THEN row ELSE agent[a]
  BY <1>1, <1>3 DEF OffInv, TypeOK
<1>6. StopKinds \intersect (AgentKinds \union {"register", "transfer"}) = {} /\ "purge" \notin AgentKinds
  BY DEF StopKinds, AgentKinds
<1>7. \A u \in Users : (IsActive(u)' <=> IsActive(u)) /\ user'[u] = user[u] /\ (u \in owed' <=> u \in owed)
  BY <1>3 DEF IsActive
<1>8. \A u \in Users : Handling(u) => Handling(u)'
  BY <1>3, <1>4, <1>6, HandlingStays
<1>9. ASSUME NEW u \in Users PROVE ~ Stopping(u) => ~ Stopping(u)'
  <2>1. /\ \A q \in Requests : req'[q] = IF q = p THEN new ELSE req[q]
        /\ \A q \in Requests : Busy(q)' <=> IF q = p THEN new # Idle ELSE Busy(q)
    BY <1>4, GoesOn
  <2>. QED BY <1>2, <1>6, <2>1 DEF Stopping
<1>10. ASSUME NEW u \in Users PROVE Running(u)' \subseteq Running(u) \/ (IsActive(u)' /\ ~ Stopping(u)')
  <2>1. CASE loose' = loose \union {req[p].on}
    BY <1>5, <2>1 DEF Running
  <2>2. CASE loose' = loose /\ (row.status # "active" \/ row = agent[req[p].on])
    BY <1>5, <2>2 DEF Running
  <2>3. CASE loose' = loose /\ row.owner # u
    BY <1>5, <2>3 DEF Running
  <2>4. CASE row.owner = u /\ IsActive(row.owner) /\ ~ Stopping(row.owner)
    <3>1. IsActive(u) /\ ~ Stopping(u)
      BY <2>4
    <3>. QED BY <1>7, <1>9, <3>1
  <2>. QED BY <1>1, <2>1, <2>2, <2>3, <2>4
<1>11. \A u \in Users : new # Idle => Knows(new, Running(u)')
  BY <1>2, <1>6 DEF Knows
<1>. QED BY <1>4, <1>7, <1>8, <1>10, <1>11, AgentOnward

\* Save: a stop is under way, an edit that brings a stop back is owed.
LEMMA AgentSave ==
  ASSUME OffInv, AgentInv, NEW p \in Requests, Save(p)
  PROVE  AgentInv'
<1>1. PICK new : /\ Onward(p, new)
                 /\ IF req[p].kind \in StopKinds THEN new # Idle /\ new.step = "revokeUser" ELSE new = Idle
  BY SaveIs
<1>2. /\ Busy(p) /\ HoldsAt(req[p]) /\ req[p].kind \in SaveKinds /\ req[p].step = "save" /\ req[p].on \in Users
  BY BusyIs DEF Save, Serving, HoldsAt
<1>3. /\ user' = [user EXCEPT ![req[p].on] = req[p].row] /\ UNCHANGED <<agent, loose>>
      /\ owed' = IF req[p].kind = "edit" /\ req[p].row.status # user[req[p].on].status
                 THEN owed \union {req[p].on} ELSE owed
  BY DEF Save
<1>4. Goes(p, new) /\ (new # Idle => new.kind = req[p].kind /\ new.on = req[p].on)
  BY <1>1 DEF Onward
<1>5. \A u \in Users : user'[u] = IF u = req[p].on THEN req[p].row ELSE user[u]
  BY <1>2, <1>3 DEF OffInv, TypeOK
<1>6. \A u \in Users : Running(u)' = Running(u)
  BY <1>3 DEF Running
<1>7. \A u \in Users : Handling(u) => Handling(u)'
  BY <1>2, <1>4, HandlingStays
<1>8. ASSUME NEW u \in Users, IsActive(u), ~ IsActive(u)' PROVE u \in owed' \/ Handling(u)'
  <2>1. u = req[p].on /\ req[p].row.status # "active" /\ user[u].status = "active"
    BY <1>5, <1>8 DEF IsActive
  <2>2. req[p].kind \in StopKinds \/ req[p].kind = "edit"
    BY <1>2, <2>1 DEF HoldsAt, SaveKinds
  <2>3. CASE req[p].kind = "edit"
    BY <1>3, <2>1, <2>3
  <2>4. CASE req[p].kind \in StopKinds
    <3>1. Busy(p)' /\ req'[p] = new /\ new.on = u /\ new.kind \in StopKinds /\ new.step = "revokeUser"
      BY <1>1, <1>4, <2>1, <2>4, GoesOn
    <3>. QED BY <3>1 DEF Handling
  <2>. QED BY <2>2, <2>3, <2>4
<1>9. \A u \in Users : user'[u].status = "deleted" => user[u].status = "deleted"
  BY <1>2, <1>5 DEF HoldsAt
<1>10. ASSUME NEW u \in Users, new # Idle PROVE Knows(new, Running(u)')
  <2>1. new.step = "revokeUser" /\ new.kind \in StopKinds /\ "purge" \notin StopKinds
    BY <1>1, <1>4, <1>10 DEF StopKinds
  <2>. QED BY <2>1 DEF Knows
<1>11. owed \subseteq owed'
  BY <1>3
<1>. QED BY <1>4, <1>6, <1>7, <1>8, <1>9, <1>10, <1>11, AgentOnward

\* A tombstone is saved over a user whose agents were stopped.
LEMMA AgentTombstone ==
  ASSUME OffInv, AgentInv, NEW p \in Requests, Tombstone(p) \/ SaveAnnounce(p) \/ ClosePurge(p)
  PROVE  AgentInv'
<1>1. PICK new : Onward(p, new) /\ (new # Idle => new.step \in {"release", "announce"})
  BY TombstoneIs
<1>2. /\ req[p].kind = "purge" /\ req[p].step \in {"tombstone", "saveAnnounce", "close"} /\ req[p].on \in Users
      /\ UNCHANGED <<agent, history>> /\ user'[req[p].on].status = "deleted"
      /\ \A u \in Users : u # req[p].on => user'[u] = user[u]
  BY TombstoneIs
<1>3. loose' = loose /\ owed' = owed
  BY <1>2 DEF history
<1>4. Busy(p) /\ Goes(p, new) /\ (new # Idle => new.kind = "purge" /\ new.on = req[p].on)
  BY <1>1, <1>2 DEF Onward
<1>5. \A u \in Users : Running(u)' = Running(u)
  BY <1>2, <1>3 DEF Running
<1>6. \A u \in Users : u = req[p].on => Running(u) = {}
  BY <1>2, <1>4 DEF AgentInv
<1>7. "purge" \notin StopKinds
  BY DEF StopKinds
<1>8. \A u \in Users : Handling(u) => Handling(u)'
  BY <1>2, <1>4, <1>7, HandlingStays
<1>9. \A u \in Users : new # Idle /\ new.on = u => Knows(new, Running(u)')
  BY <1>4, <1>5, <1>6, <1>7 DEF Knows
<1>10. \A u \in Users : u # req[p].on => (IsActive(u)' <=> IsActive(u))
  BY <1>2 DEF IsActive
<1>11. \A u \in Users : /\ IsActive(u) /\ ~ IsActive(u)' => Running(u)' = {}
                        /\ user'[u].status = "deleted" => user[u].status = "deleted" \/ Running(u) = {}
  BY <1>2, <1>5, <1>6, <1>10
<1>. QED BY <1>3, <1>4, <1>5, <1>8, <1>9, <1>11, AgentOnward

\* A stop that ends, answered or failed.
LEMMA AgentEnds ==
  ASSUME OffInv, AgentInv, NEW p \in Requests, Answer(p) \/ Fail(p)
  PROVE  AgentInv'
<1>1. Onward(p, Idle) /\ UNCHANGED <<store, loose>>
  BY AnswerIs, FailIs
<1>2. Busy(p) /\ Goes(p, Idle) /\ user' = user /\ agent' = agent
  BY <1>1 DEF Onward, store
<1>3. \A u \in Users : Running(u)' = Running(u) /\ (IsActive(u)' <=> IsActive(u))
  BY <1>1, <1>2 DEF Running, IsActive
<1>4. ASSUME NEW u \in Users, u \in owed PROVE Running(u)' = {} \/ u \in owed'
  <2>1. CASE Answer(p)
    <3>1. req[p].step = "answer" /\ owed' = IF req[p].kind \in StopKinds THEN owed \ {req[p].on} ELSE owed
      BY <2>1, AnswerIs
    <3>2. req[p].kind \in StopKinds /\ req[p].on = u => Running(u) = {}
      BY <1>2, <3>1 DEF AgentInv
    <3>. QED BY <1>3, <1>4, <3>1, <3>2
  <2>2. CASE Fail(p)
    BY <1>4, <2>2, FailIs
  <2>. QED BY <2>1, <2>2
<1>5. ASSUME NEW u \in Users, Handling(u) PROVE Running(u)' = {} \/ u \in owed' \/ Handling(u)'
  <2>1. CASE Answer(p)
    <3>1. req[p].step = "answer"
      BY <2>1, AnswerIs
    <3>. QED BY <1>2, <1>5, <3>1, HandlingStays
  <2>2. CASE Fail(p)
    <3>1. PICK q \in Requests : /\ Busy(q) /\ req[q].on = u /\ req[q].kind \in StopKinds
                                /\ req[q].step \notin {"save", "answer"}
      BY <1>5 DEF Handling
    <3>2. CASE q = p
      BY <2>2, <3>1, <3>2, FailIs
    <3>3. CASE q # p
      <4>1. Busy(q)' /\ req'[q] = req[q]
        BY <1>2, <3>1, <3>3, GoesOn
      <4>. QED BY <3>1, <4>1 DEF Handling
    <3>. QED BY <3>2, <3>3
  <2>. QED BY <2>1, <2>2
<1>. QED BY <1>2, <1>3, <1>4, <1>5, AgentOnward

\* A request begins.
LEMMA AgentBegun ==
  ASSUME OffInv, AgentInv, NEW p \in Requests, NEW new, Begun(p, new)
  PROVE  AgentInv'
<1>1. /\ Goes(p, new) /\ ~ Busy(p) /\ user' = user /\ agent' = agent /\ loose' = loose /\ owed' = owed
      /\ new.step \in {"save", "list", "purgeRead", "commit", "record"} /\ (new.kind = "purge" => new.step = "purgeRead")
  BY DEF Begun, store, history
<1>2. \A u \in Users : Running(u)' = Running(u) /\ (IsActive(u)' <=> IsActive(u))
  BY <1>1 DEF Running, IsActive
<1>3. \A u \in Users : Handling(u) => Handling(u)'
  BY <1>1, HandlingStays
<1>4. \A u \in Users : Knows(new, Running(u)')
  BY <1>1 DEF Knows
<1>. QED BY <1>1, <1>2, <1>3, <1>4, AgentOnward

\* No stopped user is forgotten.
LEMMA AgentMoves ==
  ASSUME OffInv, AgentInv, [Next]_vars
  PROVE  AgentInv'
<1>1. ASSUME NEW p \in Requests, AskSomething(p) \/ \E u \in Users : PurgeExpiredSoftDeleted(p, u) PROVE AgentInv'
  BY <1>1, AskIs, AgentBegun
<1>2. ASSUME RecountUsage \/ Tick \/ (\E x \in Signalled : RejectUnresolved(x)) \/ UNCHANGED vars PROVE AgentInv'
  <2>1. req' = req /\ user' = user /\ agent' = agent /\ loose' = loose /\ owed' = owed
    BY <1>2, OtherIs DEF history
  <2>. QED BY <2>1 DEF AgentInv, Running, Handling, IsActive, Busy
<1>. QED BY StepCases, <1>1, <1>2, AgentQuiet, AgentDisable, AgentCommit, AgentSave, AgentTombstone, AgentEnds

-------------------------------------------------------------------------------
(* Theorems. *)

\* All that the steps keep together.
AllInv == OffInv /\ BirthInv /\ PurgeInv /\ EpochInv /\ AgentInv

\* The initial states satisfy it.
LEMMA InitAll == Init => AllInv
<1>. SUFFICES ASSUME Init PROVE AllInv
  OBVIOUS
<1>1. \A p \in Requests : ~ Busy(p)
  BY DEF Init, Busy
<1>2. \A u \in Users : user[u].status = "active"
  BY DEF Init
<1>3. OffInv
  BY InitOff
<1>4. BirthInv
  BY <1>1 DEF BirthInv
<1>5. PurgeInv
  BY <1>1, <1>2 DEF PurgeInv, PurgeNeverForgets
<1>6. EpochInv
  <2>1. \A x \in Principals : stopped[x] = 0 /\ epoch[x] = 0
    BY DEF Init
  <2>2. \A u \in Users : \A t \in Time : stopped[u] = t => Covered(u, t)
    BY <2>1, Sets DEF Covered
  <2>3. \A a \in Agents : stopped[a] <= epoch[a]
    BY <2>1, Sets
  <2>. QED BY <1>1, <1>2, <2>2, <2>3 DEF EpochInv
<1>7. AgentInv
  BY <1>1, <1>2 DEF AgentInv, IsActive
<1>. QED BY <1>3, <1>4, <1>5, <1>6, <1>7 DEF AllInv

\* Every step keeps it.
LEMMA NextAll == AllInv /\ [Next]_vars => AllInv'
BY NextOff, BirthMoves, PurgeMoves, EpochMoves, AgentMoves DEF AllInv

\* So it holds in every state.
LEMMA AllHolds == Spec => []AllInv
BY InitAll, NextAll, PTL DEF Spec

\* Rows, epochs and requests keep their types, and the usage of users that purges
\* release, resume and release again stays within what the tenant has.
THEOREM OffboardingTypes == Spec => []TypeOK
<1>1. AllInv => TypeOK
  BY DEF AllInv, OffInv
<1>. QED BY <1>1, AllHolds, PTL

\* A token issued before a stop, a kill or a security event that was answered is dead,
\* unless a stop that would have killed it failed before the epoch or has still to write
\* it: whatever is enabled, restored, edited or revoked in between, by any number of
\* requests at a time.
THEOREM RevocationsHold == Spec => []RevocationHolds
<1>1. AllInv => RevocationHolds
  BY EpochHolds DEF AllInv
<1>. QED BY <1>1, AllHolds, PTL

\* DisableAgentsOwnedBy leaves no agent of a stopped user running, except while a stop is
\* under way, failed and was not repeated, was brought back by a stale edit, or overlapped
\* the registration, transfer or enabling of that agent.
THEOREM NoAgentOrphaned == Spec => []NoOrphanAgents
<1>1. ASSUME AllInv, NEW a \in Agents, NEW u, u = agent[a].owner, agent[a].status = "active", ~ IsActive(u)
      PROVE  a \in loose \/ u \in owed \/ Stopping(u)
  <2>1. u \in Users
    BY <1>1 DEF AllInv, OffInv, TypeOK
  <2>2. Running(u) = {} \/ u \in owed \/ Handling(u)
    BY <1>1, <2>1 DEF AllInv, AgentInv
  <2>3. CASE Running(u) = {}
    BY <1>1, <2>3 DEF Running
  <2>4. CASE Handling(u)
    BY <2>4 DEF Handling, Stopping
  <2>. QED BY <2>2, <2>3, <2>4
<1>2. AllInv => NoOrphanAgents
  BY <1>1 DEF NoOrphanAgents
<1>. QED BY <1>2, AllHolds, PTL

\* A purge that is closed has announced the deletion, wherever the requests that worked
\* on it died.
THEOREM PurgesAnnounced == Spec => []PurgeNeverForgets
<1>1. AllInv => PurgeNeverForgets
  BY DEF AllInv, PurgeInv
<1>. QED BY <1>1, AllHolds, PTL

\* No request brings a killed agent back.
THEOREM KillIsFinal == Spec => KilledIsFinal
<1>1. AllInv /\ [Next]_vars =>
        [\A a \in Agents : agent[a].status = "killed" => agent'[a].status \in {"killed", "gone"}]_vars
  BY KillMoves DEF AllInv
<1>. QED BY <1>1, AllHolds, PTL DEF Spec, KilledIsFinal
===============================================================================
