--------------------------- MODULE SignalDelivery ---------------------------
(***************************************************************************)
(* Delivery of security event tokens to the receivers of SSF streams: the  *)
(* outbox (one row per SET and stream), the worker processes that lease    *)
(* due rows and push them, automatic disabling of failing streams, and the *)
(* administration of streams, over the PostgreSQL repositories.  One       *)
(* statement is one step.  Times are relative: a row holds the ticks until *)
(* its next attempt, a worker the ticks since its cycle began, a stream    *)
(* the ticks since its first failure, each cut off where it stops making a *)
(* difference.  Endpoints, event types and the SETs themselves are left    *)
(* out; every transmit stream subscribes to every event.                   *)
(***************************************************************************)
EXTENDS Integers, Sequences, FiniteSets, SequencesExt

CONSTANTS
  Streams,               \* identities of transmit streams
  Workers,               \* idmagic-worker processes
  Admins, None,          \* concurrent administration requests; None: no request
  MaxDeliveries,         \* bound: rows ever created
  MaxFaults,             \* bound: repository errors and worker crashes
  MaxRedeliveries,       \* bound: requests to redeliver
  MaxAttempts,           \* max_delivery_attempts
  PerStream,             \* deliveriesPerStream
  Lease,                 \* deliveryLease, in ticks
  MaxAge,                \* bound: how long a cycle lasts; it may outlast the lease
  BackoffBase, BackoffCap,
  AutoDisableFailures, AutoDisableElapsed,
  QuotaLimit             \* hard quota of ssf_streams

ASSUME DeliveryAssumption ==
  /\ None \notin Streams
  /\ IsFiniteSet(Streams)
  /\ {MaxDeliveries, MaxFaults, MaxRedeliveries, AutoDisableElapsed, QuotaLimit} \subseteq Nat
  /\ {MaxAttempts, PerStream, Lease, BackoffBase, BackoffCap, AutoDisableFailures}
       \subseteq Nat \ {0}
  /\ MaxAge \in Nat /\ MaxAge >= Lease

VARIABLES
  stream,      \* ssf_streams: state, consecutive_failures, first_failure_at
  config,      \* streams with a row in ssf_transmitter_configs
  usage,       \* the tenant's usage of ssf_streams
  rows,        \* security_event_deliveries, by identity; identities in order of creation
  lastID,      \* the identity given last
  age,         \* per worker: ticks since the cycle's now
  send,        \* per worker and stream: the goroutine of deliverStream
  admin,       \* per administration request: what it is about to write
  faults, redeliveries,  \* budgets used
  received,    \* history: deliveries the receiver has taken
  pushes,      \* history: per delivery, attempts since it was created or redelivered
  accepted,    \* history: streams whose receiver accepted a push since first_failure_at
  late         \* history: a lease has run out while its worker was still at work

streamVars == <<stream, config, usage>>
history == <<received, pushes, accepted, late>>
vars == <<streamVars, rows, lastID, age, send, admin, faults, redeliveries, history>>

Unsettled == {"pending", "failed"}
Never == -1            \* first_failure_at IS NULL
IDs == 1..MaxDeliveries

Row == [stream : Streams, status : Unsettled \union {"delivered", "dead_letter"},
        attempts : 0..MaxAttempts, next : Nat]
Group == [step : {"idle", "start", "push", "save", "succeeded", "failed"},
          batch : SUBSET [id : IDs, row : Row], ok : BOOLEAN]
NoGroup == [step |-> "idle", batch |-> {}, ok |-> FALSE]
Request == [op : {"none", "register", "status", "clear", "update", "delete", "drop", "redeliver"},
            stream : Streams \union {None}, status : {"enabled", "disabled"}]
NoRequest == [op |-> "none", stream |-> None, status |-> "enabled"]

Exists(s) == stream[s].state \in {"enabled", "disabled"}
Enabled(s) == stream[s].state = "enabled"             \* IsEnabled
Held(w) == UNION {{c.id : c \in send[w][s].batch} : s \in Streams}
InCycle(w) == \E s \in Streams : send[w][s] # NoGroup

Init ==
  /\ stream = [s \in Streams |-> [state |-> "absent", failures |-> 0, first |-> Never]]
  /\ config = {} /\ usage = 0
  /\ rows = <<>> /\ lastID = 0
  /\ age = [w \in Workers |-> 0]
  /\ send = [w \in Workers |-> [s \in Streams |-> NoGroup]]
  /\ admin = [a \in Admins |-> NoRequest]
  /\ faults = 0 /\ redeliveries = 0
  /\ received = {} /\ pushes = [d \in IDs |-> 0] /\ accepted = {} /\ late = FALSE

-------------------------------------------------------------------------------
(* Creation: CaptureAuditEventInTx, projectSessionRevoked *)

NewRow(s) == [stream |-> s, status |-> "pending", attempts |-> 0, next |-> 0]

AppendRows(ss) ==
  LET order == SetToSeq(ss)
      fresh == lastID + 1 .. lastID + Len(order)
  IN  /\ fresh \subseteq IDs
      /\ lastID' = lastID + Len(order)
      /\ rows' = [d \in DOMAIN rows \union fresh |->
                    IF d \in fresh THEN NewRow(order[d - lastID]) ELSE rows[d]]

(* An audit record is appended: one statement adds a row for every enabled stream. *)
CaptureAuditEvent ==
  /\ \E s \in Streams : Enabled(s)
  /\ AppendRows({s \in Streams : Enabled(s)})
  /\ UNCHANGED <<streamVars, age, send, admin, faults, redeliveries, history>>

(* A local revocation is projected: a stream without a configuration is passed
   over, and an error (the projection's deadline among them) leaves out the rest. *)
ProjectSessionRevoked ==
  /\ \E ss \in SUBSET {s \in config : Enabled(s)} : ss # {} /\ AppendRows(ss)
  /\ UNCHANGED <<streamVars, age, send, admin, faults, redeliveries, history>>

-------------------------------------------------------------------------------
(* ProcessDueDeliveries *)

\* Mutant: the lease is not looked at.
DueIgnoringLease(d) == rows[d].status \in Unsettled /\ Enabled(rows[d].stream)
\* Mutant: a failed delivery is not due again.
DueOnlyPending(d) == rows[d].status = "pending" /\ rows[d].next = 0 /\ Enabled(rows[d].stream)
Due(d) == /\ rows[d].status \in Unsettled
          /\ rows[d].next = 0
          /\ Enabled(rows[d].stream)

(* The first PerStream due rows of a stream, in order of creation. *)
Batch(s) ==
  LET due == {d \in DOMAIN rows : Due(d) /\ rows[d].stream = s}
  IN  {d \in due : Cardinality({e \in due : e < d}) < PerStream}

ClaimDue(w) ==
  LET claimed == UNION {Batch(s) : s \in Streams}
  IN  /\ ~ InCycle(w)
      /\ claimed # {}
      /\ rows' = [d \in DOMAIN rows |->
                    IF d \in claimed THEN [rows[d] EXCEPT !.next = Lease] ELSE rows[d]]
      /\ send' = [send EXCEPT ![w] = [s \in Streams |->
                    IF Batch(s) = {} THEN NoGroup
                    ELSE [step |-> "start", ok |-> FALSE,
                          batch |-> {[id |-> d, row |-> rows[d]] : d \in Batch(s)}]]]
      /\ age' = [age EXCEPT ![w] = 0]
      /\ UNCHANGED <<streamVars, lastID, admin, faults, redeliveries, history>>

EndGroup(w, s) == send' = [send EXCEPT ![w][s] = NoGroup]

(* The rows of a batch, as they were claimed, are sent in order of creation. *)
First(batch) == CHOOSE c \in batch : \A e \in batch : c.id <= e.id

(* deliverStream reads the stream: nothing is sent to a disabled one; a stream that
   is gone is not noticed here. *)
StartStream(w, s) ==
  /\ send[w][s].step = "start"
  /\ IF stream[s].state = "disabled" THEN EndGroup(w, s)
                                     ELSE send' = [send EXCEPT ![w][s].step = "push"]
  /\ UNCHANGED <<streamVars, rows, lastID, age, admin, faults, redeliveries, history>>

(* deliverOne, up to the receiver's answer.  Without a configuration nothing is
   sent; a receiver may take a SET and the answer still be lost. *)
Push(w, s) ==
  LET d == First(send[w][s].batch).id
  IN  /\ send[w][s].step = "push"
      /\ \E ok \in BOOLEAN, taken \in BOOLEAN :
           /\ ok => taken
           /\ taken => s \in config
           /\ send' = [send EXCEPT ![w][s].step = "save", ![w][s].ok = ok]
           /\ received' = IF taken THEN received \union {d} ELSE received
           /\ accepted' = IF ok /\ stream[s].first # Never THEN accepted \union {s} ELSE accepted
      /\ pushes' = [pushes EXCEPT ![d] = IF @ < MaxAttempts THEN @ + 1 ELSE @]
      /\ UNCHANGED <<streamVars, rows, lastID, age, admin, faults, redeliveries, late>>

NextAttemptDelay(n) ==
  LET delay == BackoffBase * 2^(n - 1)
  IN  IF n <= 1 THEN BackoffBase ELSE IF delay \in 1..BackoffCap THEN delay ELSE BackoffCap

\* Mutant: the limit is passed before it is noticed.
ExhaustedLate(n) == n > MaxAttempts
\* Mutant: the attempt is counted twice.
ExhaustedEarly(n) == n + 1 >= MaxAttempts
Exhausted(n) == n >= MaxAttempts

\* Mutant: a failed push is taken for a success.
OutcomeIgnored(w, r, ok) ==
  [r EXCEPT !.status = "delivered", !.attempts = @ + 1, !.next = 0]
(* The row deliverOne writes, from the row as it was claimed; the next attempt is
   counted from the beginning of the cycle. *)
Outcome(w, r, ok) ==
  LET n == r.attempts + 1
      left == NextAttemptDelay(n) - age[w]
  IN  CASE ok -> [r EXCEPT !.status = "delivered", !.attempts = n, !.next = 0]
        [] ~ ok /\ Exhausted(n) -> [r EXCEPT !.status = "dead_letter", !.attempts = n, !.next = 0]
        [] OTHER -> [r EXCEPT !.status = "failed", !.attempts = n,
                              !.next = IF left > 0 THEN left ELSE 0]

(* DeliveryRepo.Save: an upsert, refused by the foreign key once the stream is gone.
   The first failure ends the stream's turn in this cycle. *)
SaveOutcome(w, s) ==
  LET g == send[w][s]
      c == First(g.batch)
  IN  /\ g.step = "save"
      /\ IF ~ Exists(s)
         THEN /\ EndGroup(w, s)
              /\ UNCHANGED rows
         ELSE /\ rows' = [d \in DOMAIN rows \union {c.id} |->
                            IF d = c.id THEN Outcome(w, c.row, g.ok) ELSE rows[d]]
              /\ send' = [send EXCEPT ![w][s] =
                   CASE ~ g.ok -> [step |-> "failed", batch |-> {}, ok |-> FALSE]
                     [] g.ok /\ g.batch = {c} ->
                          [step |-> "succeeded", batch |-> {}, ok |-> FALSE]
                     [] OTHER -> [step |-> "push", batch |-> g.batch \ {c}, ok |-> FALSE]]
      /\ UNCHANGED <<streamVars, lastID, age, admin, faults, redeliveries, history>>

ClearFailures(s) ==
  /\ stream' = [stream EXCEPT ![s].failures = 0, ![s].first = Never]
  /\ accepted' = accepted \ {s}

(* The whole batch was accepted. *)
RecordDeliverySuccess(w, s) ==
  /\ send[w][s].step = "succeeded"
  /\ IF Exists(s) THEN ClearFailures(s) ELSE UNCHANGED <<stream, accepted>>
  /\ EndGroup(w, s)
  /\ UNCHANGED <<config, usage, rows, lastID, age, admin, faults, redeliveries,
                 received, pushes, late>>

Disables(s, n, elapsed) ==
  Enabled(s) /\ n >= AutoDisableFailures /\ elapsed >= AutoDisableElapsed

(* One statement counts the failure and disables the stream at the threshold.  Its
   now is the beginning of the worker's cycle. *)
RecordDeliveryFailure(w, s) ==
  LET n == stream[s].failures + 1
      elapsed == IF stream[s].first = Never THEN 0 ELSE stream[s].first - age[w]
  IN  /\ send[w][s].step = "failed"
      /\ IF Exists(s)
         THEN stream' = [stream EXCEPT ![s] =
                [state |-> IF Disables(s, n, elapsed) THEN "disabled" ELSE @.state,
                 failures |-> IF n > AutoDisableFailures THEN AutoDisableFailures ELSE n,
                 first |-> IF @.first = Never THEN age[w] ELSE @.first]]
         ELSE UNCHANGED stream
      /\ EndGroup(w, s)
      /\ UNCHANGED <<config, usage, rows, lastID, age, admin, faults, redeliveries, history>>

(* A repository call of deliverStream fails, or the worker stops. *)
Abandon(w, s) ==
  /\ send[w][s] # NoGroup
  /\ faults < MaxFaults
  /\ faults' = faults + 1
  /\ EndGroup(w, s)
  /\ UNCHANGED <<streamVars, rows, lastID, age, admin, redeliveries, history>>

(* An administration request is given up: its process stops, or a call fails. *)
GiveUp(a) ==
  /\ admin[a] # NoRequest
  /\ faults < MaxFaults
  /\ faults' = faults + 1
  /\ admin' = [admin EXCEPT ![a] = NoRequest]
  /\ UNCHANGED <<streamVars, rows, lastID, age, send, redeliveries, history>>

(* The idmagic-batch sweep deletes old settled rows. *)
PurgeSettled ==
  /\ \E d \in DOMAIN rows :
       /\ rows[d].status \notin Unsettled
       /\ rows' = [e \in {e \in DOMAIN rows : e > d \/ rows[e].status \in Unsettled} |-> rows[e]]
  /\ UNCHANGED <<streamVars, lastID, age, send, admin, faults, redeliveries, history>>

-------------------------------------------------------------------------------
(* Administration.  A request reads the stream and writes it back later. *)

Await(a, op, s, status) ==
  /\ admin[a] = NoRequest
  /\ admin' = [admin EXCEPT ![a] = [op |-> op, stream |-> s, status |-> status]]
Answer(a) == admin' = [admin EXCEPT ![a] = NoRequest]
Doing(a, op) == admin[a].op = op
unchangedByAdmin == <<lastID, age, send, faults, received, late>>

ReleaseSlot == usage' = IF usage > 0 THEN usage - 1 ELSE 0

(* RegisterSsfTransmitterStream reserves a slot of the quota ... *)
Reserve(a, s) ==
  /\ stream[s].state = "absent" /\ \A b \in Admins : admin[b].stream # s
  /\ usage < QuotaLimit
  /\ usage' = usage + 1
  /\ Await(a, "register", s, "enabled")
  /\ UNCHANGED <<stream, config, rows, redeliveries, pushes, accepted, unchangedByAdmin>>

(* ... and saves the stream and its configuration; an error gives the slot back,
   whichever of the two had been saved. *)
Register(a) ==
  LET s == admin[a].stream
      saved == [stream EXCEPT ![s].state = "enabled"]
  IN  /\ Doing(a, "register")
      /\ \/ stream' = saved /\ config' = config \union {s} /\ UNCHANGED <<usage, faults>>
         \/ /\ faults < MaxFaults /\ faults' = faults + 1
            /\ stream' \in {stream, saved} /\ ReleaseSlot /\ UNCHANGED config
      /\ Answer(a)
      /\ UNCHANGED <<rows, redeliveries, pushes, accepted, lastID, age, send, received, late>>

(* DisableSsfStream, EnableSsfStream: the row is read, and nothing is done when it
   has the status already. *)
ReadForStatus(a, s, status) ==
  /\ Exists(s) /\ stream[s].state # status
  /\ Await(a, "status", s, status)
  /\ UNCHANGED <<streamVars, rows, redeliveries, pushes, accepted, unchangedByAdmin>>

(* UpdateSsfStream: the row that is read, its status included, is written back. *)
ReadForUpdate(a, s) ==
  /\ Exists(s)
  /\ Await(a, "update", s, stream[s].state)
  /\ UNCHANGED <<streamVars, rows, redeliveries, pushes, accepted, unchangedByAdmin>>

(* StreamRepo.Save: an upsert that leaves the failure columns alone; it brings back a
   row that was deleted in between, without its configuration. *)
SaveStream(a) ==
  LET s == admin[a].stream
  IN  /\ admin[a].op \in {"status", "update"}
      /\ stream' = [stream EXCEPT ![s].state = admin[a].status]
      /\ IF Doing(a, "status") /\ admin[a].status = "enabled"
         THEN admin' = [admin EXCEPT ![a].op = "clear"]
         ELSE Answer(a)
      /\ UNCHANGED <<config, usage, rows, redeliveries, pushes, accepted, unchangedByAdmin>>

(* Enabling ends with RecordDeliverySuccess. *)
ClearOnEnable(a) ==
  /\ Doing(a, "clear")
  /\ IF Exists(admin[a].stream) THEN ClearFailures(admin[a].stream)
                                ELSE UNCHANGED <<stream, accepted>>
  /\ Answer(a)
  /\ UNCHANGED <<config, usage, rows, redeliveries, pushes, unchangedByAdmin>>

(* DeleteSsfStream: the configuration, then the stream with its deliveries
   (ON DELETE CASCADE), then the slot of the quota. *)
ReadForDelete(a, s) ==
  /\ Exists(s)
  /\ Await(a, "delete", s, "disabled")
  /\ UNCHANGED <<streamVars, rows, redeliveries, pushes, accepted, unchangedByAdmin>>

DeleteConfig(a) ==
  /\ Doing(a, "delete")
  /\ config' = config \ {admin[a].stream}
  /\ admin' = [admin EXCEPT ![a].op = "drop"]
  /\ UNCHANGED <<stream, usage, rows, redeliveries, pushes, accepted, unchangedByAdmin>>

DeleteStream(a) ==
  LET s == admin[a].stream
  IN  /\ Doing(a, "drop")
      /\ stream' = [stream EXCEPT ![s] = [state |-> "deleted", failures |-> 0, first |-> Never]]
      /\ rows' = [d \in {d \in DOMAIN rows : rows[d].stream # s} |-> rows[d]]
      /\ ReleaseSlot
      /\ accepted' = accepted \ {s}
      /\ Answer(a)
      /\ UNCHANGED <<config, redeliveries, pushes, unchangedByAdmin>>

(* RedeliverDeadLetteredDeliveries: refused for a disabled stream, as it was read. *)
ReadForRedelivery(a, s) ==
  /\ Enabled(s)
  /\ redeliveries < MaxRedeliveries
  /\ redeliveries' = redeliveries + 1
  /\ Await(a, "redeliver", s, "enabled")
  /\ UNCHANGED <<streamVars, rows, pushes, accepted, unchangedByAdmin>>

\* Mutant: everything that is settled goes back.
SettledOf(s) == {d \in DOMAIN rows : rows[d].stream = s /\ rows[d].status \notin Unsettled}
DeadLetters(s) == {d \in DOMAIN rows : rows[d].stream = s /\ rows[d].status = "dead_letter"}

Redeliver(a) ==
  LET back == DeadLetters(admin[a].stream)
  IN  /\ Doing(a, "redeliver")
      /\ rows' = [d \in DOMAIN rows |-> IF d \in back THEN NewRow(rows[d].stream) ELSE rows[d]]
      /\ pushes' = [d \in IDs |-> IF d \in back THEN 0 ELSE pushes[d]]
      /\ Answer(a)
      /\ UNCHANGED <<streamVars, redeliveries, accepted, unchangedByAdmin>>

-------------------------------------------------------------------------------
(* Time passes. *)
Tick ==
  /\ \A w \in Workers : InCycle(w) => age[w] < MaxAge
  /\ rows' = [d \in DOMAIN rows |-> [rows[d] EXCEPT !.next = IF @ > 0 THEN @ - 1 ELSE 0]]
  /\ age' = [w \in Workers |-> IF InCycle(w) THEN age[w] + 1 ELSE 0]
  /\ late' = (late \/ \E w \in Workers : Held(w) # {} /\ age'[w] >= Lease)
  /\ stream' = [s \in Streams |->
       IF stream[s].first \in 0..(AutoDisableElapsed + MaxAge - 1)
       THEN [stream[s] EXCEPT !.first = @ + 1] ELSE stream[s]]
  /\ UNCHANGED <<config, usage, lastID, send, admin, faults, redeliveries,
                 received, pushes, accepted>>

Work(w) ==
  \/ ClaimDue(w)
  \/ \E s \in Streams : \/ StartStream(w, s) \/ Push(w, s) \/ SaveOutcome(w, s)
                        \/ RecordDeliverySuccess(w, s) \/ RecordDeliveryFailure(w, s)

Serve(a) == \/ Register(a) \/ SaveStream(a) \/ ClearOnEnable(a)
            \/ DeleteConfig(a) \/ DeleteStream(a) \/ Redeliver(a)

Ask(a, s) ==
  \/ Reserve(a, s) \/ ReadForUpdate(a, s) \/ ReadForDelete(a, s) \/ ReadForRedelivery(a, s)
  \/ \E status \in {"enabled", "disabled"} : ReadForStatus(a, s, status)

Next ==
  \/ CaptureAuditEvent \/ ProjectSessionRevoked \/ PurgeSettled \/ Tick
  \/ \E w \in Workers : Work(w) \/ \E s \in Streams : Abandon(w, s)
  \/ \E a \in Admins : Serve(a) \/ GiveUp(a) \/ \E s \in Streams : Ask(a, s)

Spec == Init /\ [][Next]_vars

(* The delivery loop of every worker goes on, time passes and a request that was
   begun is finished; nothing forces new events or requests. *)
FairSpec == /\ Spec
            /\ WF_vars(Tick)
            /\ \A w \in Workers : WF_vars(Work(w))
            /\ \A a \in Admins : WF_vars(Serve(a))

-------------------------------------------------------------------------------
(* Types of the variables. *)
TypeOK ==
  /\ stream \in [Streams -> [state : {"absent", "enabled", "disabled", "deleted"},
                             failures : 0..AutoDisableFailures,
                             first : Never..(AutoDisableElapsed + MaxAge)]]
  /\ config \subseteq Streams /\ usage \in 0..QuotaLimit
  /\ DOMAIN rows \subseteq 1..lastID /\ lastID \in 0..MaxDeliveries
  /\ \A d \in DOMAIN rows : rows[d] \in Row
  /\ age \in [Workers -> 0..MaxAge]
  /\ send \in [Workers -> [Streams -> Group]]
  /\ admin \in [Admins -> Request]
  /\ faults \in 0..MaxFaults /\ redeliveries \in 0..MaxRedeliveries
  /\ received \subseteq IDs /\ pushes \in [IDs -> 0..MaxAttempts]
  /\ accepted \subseteq Streams /\ late \in BOOLEAN

(* A delivery is reported delivered only if its receiver has taken the SET, in spite
   of lost answers, repository errors and workers that write late. *)
DeliveredWasReceived ==
  \A d \in DOMAIN rows : rows[d].status = "delivered" => d \in received

(* As long as no lease has run out under a working process, no delivery is in the
   hands of two workers: the lease of ClaimDue is what keeps them apart. *)
LeaseExclusive ==
  ~ late => \A v, w \in Workers : v # w => Held(v) \intersect Held(w) = {}

(* As long as no lease has run out under a working process, a dead letter has been
   attempted max_delivery_attempts times since it was created or redelivered. *)
DeadLetterEarned ==
  ~ late => \A d \in DOMAIN rows :
              rows[d].status = "dead_letter" => pushes[d] >= MaxAttempts

(* A delivered row stays delivered until it is deleted; only a worker whose lease has
   run out can write over it. *)
DeliveredIsFinal ==
  [][\A d \in DOMAIN rows :
       rows[d].status = "delivered" /\ d \in DOMAIN rows' /\ ~ late
         => rows'[d].status = "delivered"]_vars

(* A stream is disabled automatically only when its receiver accepted nothing since
   the first of the failures counted against it. *)
DisabledOnlyWhenDead ==
  [][\A w \in Workers, s \in Streams :
       RecordDeliveryFailure(w, s) /\ stream'[s].state # stream[s].state
         => s \notin accepted]_vars

(* Every delivery of a stream that stays enabled is settled: it is delivered or
   becomes a dead letter, whatever the receiver answers. *)
EverySignalSettles ==
  \A d \in IDs, s \in Streams :
    (d \in DOMAIN rows /\ rows[d].stream = s)
      ~> (~ Enabled(s) \/ d \notin DOMAIN rows \/ rows[d].status \notin Unsettled)
=============================================================================
