--------------------------- MODULE JobQueueProofs ---------------------------
(***************************************************************************)
(* Proofs about JobQueue, for any sets of jobs, workers and tenants, any   *)
(* lease, backoff and clock skew, and any number of faults.                *)
(***************************************************************************)
EXTENDS JobQueue, FiniteSetTheorems, TLAPS

\* A lease is owned exactly while the job runs, and a call that has not begun has
\* no row.
RowConsistent ==
    \A j \in Jobs :
        /\ status[j] = "running" <=> owner[j] # NoWorker
        /\ call[j] = "idle" => status[j] = "none"

RowInv == TypeOK /\ RowConsistent

-----------------------------------------------------------------------------
(* Types. *)

\* The initial state is of the right type.
LEMMA InitType == Init => RowInv
BY JobAssumption DEF Init, RowInv, TypeOK, RowConsistent, Statuses, CallStates

\* The columns and counters of the right type that Enqueue moves.
LEMMA EnqueuingType ==
    ASSUME RowInv, NEW j \in Jobs, Enqueuing(j)
    PROVE  RowInv'
<1>. USE JobAssumption DEF RowInv, TypeOK, RowConsistent, Statuses, CallStates, Active, Terminal, Pending, Clocks
<1>1. ASSUME NEW e \in Clocks, InsertJob(j, e) PROVE RowInv'
  BY <1>1 DEF InsertJob
<1>2. ASSUME NEW e \in Clocks, EnqueueInTx(j, e) PROVE RowInv'
  <2>1. TypeOK'
    <3>1. Tenant[j] \in Tenants /\ usage[Tenant[j]] \in Nat
      OBVIOUS
    <3>2. usage' \in [Tenants -> Nat]
      BY <1>2, <3>1 DEF EnqueueInTx
    <3>3. /\ status' \in [Jobs -> Statuses]
          /\ call' \in [Jobs -> CallStates]
      BY <1>2 DEF EnqueueInTx
    <3>4. wait' \in [Jobs -> (-Skew)..(BackoffCap + Skew)]
      BY <1>2 DEF EnqueueInTx
    <3>. QED BY <1>2, <3>2, <3>3, <3>4 DEF EnqueueInTx
  <2>2. RowConsistent'
    BY <1>2 DEF EnqueueInTx
  <2>. QED BY <2>1, <2>2
<1>3. CASE FindActiveJob(j)
  BY <1>3 DEF FindActiveJob, row
<1>4. CASE CheckAndIncrement(j)
  BY <1>4 DEF CheckAndIncrement, row
<1>5. CASE CancelRejected(j)
  BY <1>5 DEF CancelRejected, CancelRow, row
<1>. QED BY <1>1, <1>2, <1>3, <1>4, <1>5 DEF Enqueuing

\* The cancellations keep the types.
LEMMA CancelingType ==
    ASSUME RowInv, NEW j \in Jobs, Canceling(j)
    PROVE  RowInv'
<1>. USE JobAssumption DEF RowInv, TypeOK, RowConsistent, Statuses, Active, Terminal
<1>1. CASE CancelJob(j)
  BY <1>1 DEF CancelJob, CancelRow
<1>2. CASE CancelExport(j)
  BY <1>2 DEF CancelExport, CancelRow
<1>3. CASE FreeExport(j)
  BY <1>3 DEF FreeExport, Decrement, row
<1>. QED BY <1>1, <1>2, <1>3 DEF Canceling

\* A poll keeps the types: an execution carries an attempt within the bound.
LEMMA ClaimType ==
    ASSUME RowInv, NEW w \in Workers, NEW e \in Clocks, ClaimBatch(w, e)
    PROVE  RowInv'
<1>1. PICK S \in SUBSET Claimable(w, e) :
        /\ status' = [j \in Jobs |-> IF j \in S THEN "running" ELSE status[j]]
        /\ attempts' = [j \in Jobs |-> IF j \in S THEN attempts[j] + 1 ELSE attempts[j]]
        /\ owner' = [j \in Jobs |-> IF j \in S THEN w ELSE owner[j]]
        /\ lease' = [j \in Jobs |-> IF j \in S THEN LeaseDuration + e ELSE lease[j]]
        /\ execs' = execs \cup
             {[job |-> j, attempt |-> attempts[j] + 1, worker |-> w,
               phase |-> "handling", heart |-> "beating"] : j \in S}
        /\ UNCHANGED <<wait, usage, call, freeing, freed, faults, missed>>
  BY DEF ClaimBatch, ClaimedAttempt
<1>2. \A j \in S : j \in Jobs /\ attempts[j] + 1 \in 1..AttemptLimit
  BY JobAssumption DEF RowInv, TypeOK, RowConsistent, Claimable
<1>3. execs' \subseteq Execution
  BY <1>1, <1>2 DEF RowInv, TypeOK, RowConsistent, Execution
<1>4. /\ status' \in [Jobs -> Statuses]
      /\ attempts' \in [Jobs -> 0..AttemptLimit]
      /\ owner' \in [Jobs -> Workers \cup {NoWorker}]
  BY <1>1, <1>2, JobAssumption DEF RowInv, TypeOK, RowConsistent, Statuses, Active
<1>5. lease' \in [Jobs -> (-Skew - 1)..(LeaseDuration + Skew)]
  BY <1>1, JobAssumption DEF RowInv, TypeOK, RowConsistent, Clocks
<1>6. RowConsistent'
  <2>1. \A j \in S : status[j] # "none"
    BY DEF Claimable
  <2>. QED BY <1>1, <1>2, <2>1, JobAssumption DEF RowInv, TypeOK, RowConsistent
<1>. QED BY <1>1, <1>3, <1>4, <1>5, <1>6 DEF RowInv, TypeOK

\* What an execution does keeps the types.
LEMMA ExecutingType ==
    ASSUME RowInv, NEW x \in execs, Executing(x)
    PROVE  RowInv'
<1>1. /\ x \in Execution
      /\ x.job \in Jobs
      /\ x.attempt \in 1..AttemptLimit
      /\ [x EXCEPT !.heart = "abandoned"] \in Execution
      /\ [x EXCEPT !.phase = "freeing"] \in Execution
  BY DEF RowInv, TypeOK, RowConsistent, Execution
<1>. USE <1>1, JobAssumption DEF RowInv, TypeOK, RowConsistent, Statuses, Active, Terminal, Clocks
<1>2. ASSUME NEW e \in Clocks, Heartbeat(x, e) PROVE RowInv'
  BY <1>2 DEF Heartbeat, Held, Replace
<1>3. ASSUME NEW e \in Clocks, Complete(x, e) PROVE RowInv'
  <2>1. TypeOK'
    BY <1>3 DEF Complete, Replace, Drop
  <2>2. RowConsistent'
    BY <1>3 DEF Complete, Held
  <2>. QED BY <2>1, <2>2
<1>4. ASSUME NEW e \in Clocks, Fail(x, e) PROVE RowInv'
  <2>1. Backoff[x.attempt] + e \in (-Skew)..(BackoffCap + Skew)
    OBVIOUS
  <2>2. TypeOK'
    BY <1>4, <2>1 DEF Fail, Replace, Drop
  <2>3. RowConsistent'
    BY <1>4 DEF Fail, Held
  <2>. QED BY <2>2, <2>3
<1>5. CASE FreeSlot(x)
  BY <1>5 DEF FreeSlot, Decrement, Drop, row
<1>6. CASE Abandon(x)
  BY <1>6 DEF Abandon, Drop, row
<1>. QED BY <1>2, <1>3, <1>4, <1>5, <1>6 DEF Executing

\* Faults keep the types.
LEMMA FailingType ==
    ASSUME RowInv, Failing
    PROVE  RowInv'
<1>. USE JobAssumption DEF RowInv, TypeOK, RowConsistent, row
<1>1. ASSUME NEW w \in Workers, Crash(w) PROVE RowInv'
  BY <1>1 DEF Crash, Fault
<1>2. ASSUME NEW x \in execs, HeartbeatError(x) PROVE RowInv'
  <2>1. [x EXCEPT !.heart = "silent"] \in Execution
    BY DEF Execution
  <2>. QED BY <1>2, <2>1 DEF HeartbeatError, Replace
<1>3. ASSUME NEW x \in execs, ReportError(x) PROVE RowInv'
  BY <1>3 DEF ReportError, Fault, Drop
<1>4. ASSUME NEW j \in Jobs, CallError(j) PROVE RowInv'
  BY <1>4 DEF CallError, Fault, CallStates, Pending
<1>. QED BY <1>1, <1>2, <1>3, <1>4 DEF Failing

\* Time keeps the types: no timer falls below its threshold.
LEMMA TickType ==
    ASSUME RowInv, Tick
    PROVE  RowInv'
BY JobAssumption DEF Tick, RowInv, TypeOK, RowConsistent

\* Every step keeps the types.
LEMMA NextType == RowInv /\ [Next]_vars => RowInv'
<1>. SUFFICES ASSUME RowInv, [Next]_vars PROVE RowInv'
  OBVIOUS
<1>1. CASE Step
  BY <1>1, EnqueuingType, CancelingType, ClaimType, ExecutingType, FailingType DEF Step
<1>2. CASE Tick
  BY <1>2, TickType
<1>3. CASE UNCHANGED vars
  BY <1>3 DEF vars, RowInv, TypeOK, RowConsistent
<1>. QED BY <1>1, <1>2, <1>3 DEF Next

\* The type invariant of the queue, for every instance.
THEOREM TypeCorrect == Spec => []TypeOK
<1>1. RowInv => TypeOK
  BY DEF RowInv
<1>. QED BY <1>1, InitType, NextType, PTL DEF Spec
-----------------------------------------------------------------------------
(* Terminal states. *)

Frozen ==
    \A j \in Jobs : status[j] \in Terminal =>
        /\ status'[j] = status[j]
        /\ attempts'[j] = attempts[j]
        /\ owner'[j] = owner[j]

\* No step changes a row that has ended: every statement is conditional on a
\* status that is not terminal, and an insertion takes an id without a row.
LEMMA FrozenStep == RowInv /\ [Next]_vars => Frozen
<1>. SUFFICES ASSUME RowInv, [Next]_vars PROVE Frozen
  OBVIOUS
<1>. USE DEF RowInv, TypeOK, RowConsistent, Frozen, Terminal, Active
<1>1. ASSUME NEW j \in Jobs, Enqueuing(j) PROVE Frozen
  <2>1. ASSUME NEW e \in Clocks, InsertJob(j, e) \/ EnqueueInTx(j, e) PROVE Frozen
    BY <2>1 DEF InsertJob, EnqueueInTx
  <2>2. CASE FindActiveJob(j) \/ CheckAndIncrement(j) \/ CancelRejected(j)
    BY <2>2 DEF FindActiveJob, CheckAndIncrement, CancelRejected, CancelRow, row
  <2>. QED BY <1>1, <2>1, <2>2 DEF Enqueuing
<1>2. ASSUME NEW j \in Jobs, Canceling(j) PROVE Frozen
  BY <1>2 DEF Canceling, CancelJob, CancelExport, FreeExport, CancelRow, row
<1>3. ASSUME NEW w \in Workers, NEW e \in Clocks, ClaimBatch(w, e) PROVE Frozen
  BY <1>3 DEF ClaimBatch, ClaimedAttempt, Claimable
<1>4. ASSUME NEW x \in execs, Executing(x) PROVE Frozen
  <2>1. x.job \in Jobs
    BY DEF Execution
  <2>2. ASSUME NEW e \in Clocks, Heartbeat(x, e) \/ Complete(x, e) \/ Fail(x, e) PROVE Frozen
    BY <2>1, <2>2 DEF Heartbeat, Complete, Fail, Held
  <2>3. CASE FreeSlot(x) \/ Abandon(x)
    BY <2>3 DEF FreeSlot, Abandon, row
  <2>. QED BY <1>4, <2>2, <2>3 DEF Executing
<1>5. CASE Failing
  BY <1>5 DEF Failing, Crash, HeartbeatError, ReportError, CallError, row
<1>6. CASE Tick
  BY <1>6 DEF Tick
<1>7. CASE UNCHANGED vars
  BY <1>7 DEF vars
<1>. QED BY <1>1, <1>2, <1>3, <1>4, <1>5, <1>6, <1>7 DEF Next, Step

\* JobTerminalStateIsImmutable holds of every instance of the queue.
THEOREM TerminalStaysFrozen == Spec => TerminalImmutable
<1>1. RowInv /\ [Next]_vars => [\A j \in Jobs : status[j] \in Terminal =>
          /\ status'[j] = status[j]
          /\ attempts'[j] = attempts[j]
          /\ owner'[j] = owner[j]]_vars
  BY FrozenStep DEF Frozen
<1>. QED BY <1>1, InitType, NextType, PTL DEF Spec, TerminalImmutable

-----------------------------------------------------------------------------
(* The quota slot. *)

\* A slot is freed by whoever moved the job to its terminal state, and by nobody
\* else: at most one execution or cancellation is about to free it, none once it
\* has been freed, and the job has ended in each case.
SlotInv ==
    /\ \A x, y \in execs :
          x.phase = "freeing" /\ y.phase = "freeing" /\ x.job = y.job => x = y
    /\ \A x \in execs : x.phase = "freeing" =>
          status[x.job] \in Terminal /\ x.job \notin freeing /\ freed[x.job] = 0
    /\ \A j \in freeing : status[j] \in Terminal /\ freed[j] = 0
    /\ \A j \in Jobs : freed[j] <= 1 /\ (freed[j] = 1 => status[j] \in Terminal)

\* A step that adds neither an execution with a slot to free nor a cancellation,
\* and frees nothing, keeps the invariant.
LEMMA SlotQuiet ==
    ASSUME RowInv, SlotInv, Frozen,
           execs' \subseteq execs \cup {x \in Execution : x.phase = "handling"},
           freeing' \subseteq freeing, UNCHANGED freed
    PROVE  SlotInv'
<1>1. \A j \in Jobs : status[j] \in Terminal => status'[j] \in Terminal
  BY DEF Frozen
<1>2. \A x \in execs' : x.phase = "freeing" => x \in execs /\ x.job \in Jobs
  BY DEF RowInv, TypeOK, Execution
<1>3. freeing \subseteq Jobs
  BY JobAssumption DEF RowInv, TypeOK
<1>. QED BY <1>1, <1>2, <1>3 DEF SlotInv

\* Every step keeps at most one party about to free the slot.
LEMMA SlotStep == RowInv /\ SlotInv /\ [Next]_vars => SlotInv'
<1>. SUFFICES ASSUME RowInv, SlotInv, [Next]_vars PROVE SlotInv'
  OBVIOUS
<1>0. /\ Frozen
      /\ \A j \in Jobs : status[j] \in Terminal => status'[j] \in Terminal
      /\ \A x \in execs : x \in Execution /\ x.job \in Jobs
      /\ freeing \subseteq Jobs
  BY FrozenStep, JobAssumption DEF Frozen, RowInv, TypeOK, Execution
<1>1. ASSUME NEW j \in Jobs, Enqueuing(j) PROVE SlotInv'
  <2>1. UNCHANGED <<execs, freeing, freed>>
    BY <1>1 DEF Enqueuing, InsertJob, EnqueueInTx, FindActiveJob, CheckAndIncrement,
                CancelRejected
  <2>. QED BY <1>0, <2>1, SlotQuiet
<1>2. ASSUME NEW j \in Jobs, Canceling(j) PROVE SlotInv'
  <2>1. CASE CancelJob(j)
    BY <1>0, <2>1, SlotQuiet DEF CancelJob
  <2>2. CASE CancelExport(j)
    <3>1. /\ status[j] \notin Terminal
          /\ status'[j] \in Terminal
          /\ UNCHANGED <<execs, freed>>
          /\ freeing' = freeing \cup {j}
      BY <2>2 DEF CancelExport, CancelRow, Active, Terminal, RowInv, TypeOK
    <3>2. freed[j] = 0
      BY <3>1 DEF SlotInv, RowInv, TypeOK
    <3>. QED BY <1>0, <3>1, <3>2 DEF SlotInv
  <2>3. CASE FreeExport(j)
    <3>1. /\ j \in freeing
          /\ freeing' = freeing \ {j}
          /\ freed' = [freed EXCEPT ![j] = @ + 1]
          /\ UNCHANGED <<status, execs>>
      BY <2>3 DEF FreeExport, Decrement, row
    <3>. QED BY <3>1 DEF SlotInv, RowInv, TypeOK, Execution
  <2>. QED BY <1>2, <2>1, <2>2, <2>3 DEF Canceling
<1>3. ASSUME NEW w \in Workers, NEW e \in Clocks, ClaimBatch(w, e) PROVE SlotInv'
  <2>1. RowInv'
    BY <1>3, ClaimType
  <2>2. execs' \subseteq execs \cup {x \in Execution : x.phase = "handling"}
    BY <1>3, <2>1 DEF ClaimBatch, ClaimedAttempt, RowInv, TypeOK
  <2>. QED BY <1>0, <1>3, <2>2, SlotQuiet DEF ClaimBatch, ClaimedAttempt
<1>4. ASSUME NEW x \in execs, Executing(x) PROVE SlotInv'
  <2>0. x \in Execution /\ x.job \in Jobs
    BY DEF RowInv, TypeOK, Execution
  <2>1. ASSUME execs' = execs \ {x}, UNCHANGED <<freeing, freed>> PROVE SlotInv'
    BY <1>0, <2>1, SlotQuiet
  <2>2. ASSUME NEW y \in Execution, execs' = (execs \ {x}) \cup {y},
               y.job = x.job, y.phase = x.phase, UNCHANGED <<freeing, freed>>
        PROVE  SlotInv'
    BY <1>0, <2>2 DEF SlotInv
  <2>3. ASSUME NEW y \in Execution, execs' = (execs \ {x}) \cup {y}, y.job = x.job,
               status[x.job] \notin Terminal, status'[x.job] \in Terminal,
               UNCHANGED <<freeing, freed>>
        PROVE  SlotInv'
    <3>1. freed[x.job] = 0 /\ x.job \notin freeing
      BY <2>0, <2>3 DEF SlotInv, RowInv, TypeOK
    <3>2. \A z \in execs : z.job = x.job => z.phase # "freeing"
      BY <2>3 DEF SlotInv
    <3>. QED BY <1>0, <2>3, <3>1, <3>2 DEF SlotInv
  <2>4. ASSUME NEW e \in Clocks, Heartbeat(x, e) PROVE SlotInv'
    <3>1. CASE UNCHANGED execs
      BY <1>0, <2>4, <3>1, SlotQuiet DEF Heartbeat
    <3>2. CASE Replace(x, [x EXCEPT !.heart = "abandoned"])
      <4>1. PICK y \in Execution : y = [x EXCEPT !.heart = "abandoned"]
        BY <2>0 DEF Execution
      <4>2. y.job = x.job /\ y.phase = x.phase
        BY <2>0, <4>1 DEF Execution
      <4>. QED BY <2>2, <2>4, <3>2, <4>1, <4>2 DEF Heartbeat, Replace
    <3>. QED BY <2>4, <3>1, <3>2 DEF Heartbeat
  <2>5. ASSUME NEW e \in Clocks, Complete(x, e) PROVE SlotInv'
    <3>1. CASE Drop(x)
      BY <2>1, <2>5, <3>1 DEF Complete, Drop
    <3>2. CASE Held(x, e) /\ status' = [status EXCEPT ![x.job] = "succeeded"]
               /\ Replace(x, [x EXCEPT !.phase = "freeing"])
      <4>1. PICK y \in Execution : y = [x EXCEPT !.phase = "freeing"]
        BY <2>0 DEF Execution
      <4>2. y.job = x.job
        BY <2>0, <4>1 DEF Execution
      <4>3. status[x.job] \notin Terminal /\ status'[x.job] \in Terminal
        BY <2>0, <3>2 DEF Held, Terminal, RowInv, TypeOK
      <4>. QED BY <2>3, <2>5, <3>2, <4>1, <4>2, <4>3 DEF Complete, Replace
    <3>. QED BY <2>5, <3>1, <3>2 DEF Complete
  <2>6. ASSUME NEW e \in Clocks, Fail(x, e) PROVE SlotInv'
    <3>1. CASE Drop(x)
      BY <2>1, <2>6, <3>1 DEF Fail, Drop
    <3>2. CASE Held(x, e) /\ status' = [status EXCEPT ![x.job] = "failed"]
               /\ Replace(x, [x EXCEPT !.phase = "freeing"])
      <4>1. PICK y \in Execution : y = [x EXCEPT !.phase = "freeing"]
        BY <2>0 DEF Execution
      <4>2. y.job = x.job
        BY <2>0, <4>1 DEF Execution
      <4>3. status[x.job] \notin Terminal /\ status'[x.job] \in Terminal
        BY <2>0, <3>2 DEF Held, Terminal, RowInv, TypeOK
      <4>. QED BY <2>3, <2>6, <3>2, <4>1, <4>2, <4>3 DEF Fail, Replace
    <3>. QED BY <2>6, <3>1, <3>2 DEF Fail
  <2>7. CASE FreeSlot(x)
    <3>1. /\ x.phase = "freeing"
          /\ execs' = execs \ {x}
          /\ freed' = [freed EXCEPT ![x.job] = @ + 1]
          /\ UNCHANGED <<status, freeing>>
      BY <2>7 DEF FreeSlot, Drop, Decrement, row
    <3>. QED BY <2>0, <3>1 DEF SlotInv, RowInv, TypeOK, Execution
  <2>8. CASE Abandon(x)
    BY <2>1, <2>8 DEF Abandon, Drop
  <2>. QED BY <1>4, <2>4, <2>5, <2>6, <2>7, <2>8 DEF Executing
<1>5. CASE Failing
  <2>1. ASSUME NEW w \in Workers, Crash(w) PROVE SlotInv'
    BY <1>0, <2>1, SlotQuiet DEF Crash
  <2>2. ASSUME NEW x \in execs, HeartbeatError(x) PROVE SlotInv'
    <3>1. PICK y \in Execution : y = [x EXCEPT !.heart = "silent"]
      BY <1>0 DEF Execution
    <3>2. y.job = x.job /\ y.phase = x.phase /\ execs' = (execs \ {x}) \cup {y}
      BY <1>0, <2>2, <3>1 DEF HeartbeatError, Replace, Execution
    <3>. QED BY <1>0, <2>2, <3>2 DEF HeartbeatError, SlotInv
  <2>3. ASSUME NEW x \in execs, ReportError(x) PROVE SlotInv'
    BY <1>0, <2>3, SlotQuiet DEF ReportError, Drop
  <2>4. ASSUME NEW j \in Jobs, CallError(j) PROVE SlotInv'
    BY <1>0, <2>4, SlotQuiet DEF CallError
  <2>. QED BY <1>5, <2>1, <2>2, <2>3, <2>4 DEF Failing
<1>6. CASE Tick
  BY <1>0, <1>6, SlotQuiet DEF Tick
<1>7. CASE UNCHANGED vars
  BY <1>0, <1>7, SlotQuiet DEF vars
<1>. QED BY <1>1, <1>2, <1>3, <1>4, <1>5, <1>6, <1>7 DEF Next, Step

\* No job frees its tenant's quota slot twice, in any instance of the queue.
THEOREM SlotFreedOnce == Spec => []FreedAtMostOnce
<1>1. Init => SlotInv
  BY DEF Init, SlotInv, Terminal
<1>2. SlotInv => FreedAtMostOnce
  BY DEF SlotInv, FreedAtMostOnce
<1>. QED BY <1>1, <1>2, InitType, NextType, SlotStep, PTL DEF Spec
-----------------------------------------------------------------------------
(* Dedup keys. *)

\* Only an insertion makes a job active, and it looks for a conflict first.
LEMMA DedupStep == RowInv /\ DedupUnique /\ [Next]_vars => DedupUnique'
<1>. SUFFICES ASSUME RowInv, DedupUnique, [Next]_vars PROVE DedupUnique'
  OBVIOUS
<1>0. ASSUME \A j \in Jobs : status'[j] \in Active => status[j] \in Active
      PROVE  DedupUnique'
  BY <1>0 DEF DedupUnique
<1>. USE DEF RowInv, TypeOK
<1>1. ASSUME NEW j \in Jobs, Enqueuing(j) PROVE DedupUnique'
  <2>1. ASSUME NEW e \in Clocks, InsertJob(j, e) \/ EnqueueInTx(j, e) PROVE DedupUnique'
    <3>1. CASE UNCHANGED status
      BY <1>0, <3>1
    <3>2. CASE Conflicting(j) = {} /\ status' = [status EXCEPT ![j] = "queued"]
      <4>1. \A k \in Jobs \ {j} : status[k] \in Active /\ Tenant[k] = Tenant[j]
                /\ DedupKey[k] = DedupKey[j] => DedupKey[j] = NoKey
        BY <3>2 DEF Conflicting
      <4>. QED BY <3>2, <4>1 DEF DedupUnique
    <3>. QED BY <2>1, <3>1, <3>2 DEF InsertJob, EnqueueInTx
  <2>2. CASE FindActiveJob(j) \/ CheckAndIncrement(j) \/ CancelRejected(j)
    BY <1>0, <2>2 DEF FindActiveJob, CheckAndIncrement, CancelRejected, CancelRow, row, Active
  <2>. QED BY <1>1, <2>1, <2>2 DEF Enqueuing
<1>2. ASSUME NEW j \in Jobs, Canceling(j) PROVE DedupUnique'
  BY <1>0, <1>2 DEF Canceling, CancelJob, CancelExport, FreeExport, CancelRow, row, Active
<1>3. ASSUME NEW w \in Workers, NEW e \in Clocks, ClaimBatch(w, e) PROVE DedupUnique'
  BY <1>0, <1>3 DEF ClaimBatch, ClaimedAttempt, Claimable, Active
<1>4. ASSUME NEW x \in execs, Executing(x) PROVE DedupUnique'
  <2>1. x.job \in Jobs
    BY DEF Execution
  <2>2. ASSUME NEW e \in Clocks, Heartbeat(x, e) \/ Complete(x, e) \/ Fail(x, e)
        PROVE  DedupUnique'
    BY <1>0, <2>1, <2>2 DEF Heartbeat, Complete, Fail, Held, Active
  <2>3. CASE FreeSlot(x) \/ Abandon(x)
    BY <1>0, <2>3 DEF FreeSlot, Abandon, row
  <2>. QED BY <1>4, <2>2, <2>3 DEF Executing
<1>5. CASE Failing
  BY <1>0, <1>5 DEF Failing, Crash, HeartbeatError, ReportError, CallError, row
<1>6. CASE Tick \/ UNCHANGED vars
  BY <1>0, <1>6 DEF Tick, vars
<1>. QED BY <1>1, <1>2, <1>3, <1>4, <1>5, <1>6 DEF Next, Step

\* Unfinished jobs of a tenant never share a dedup key, in any instance.
THEOREM DedupKeysUnique == Spec => []DedupUnique
<1>1. Init => DedupUnique
  BY DEF Init, DedupUnique, Active
<1>. QED BY <1>1, InitType, NextType, DedupStep, PTL DEF Spec

-----------------------------------------------------------------------------
(* Attempts and leases. *)

\* A claim moves attempts past every execution there is, and nothing else gives a
\* running job an owner.
LEMMA LatestStep ==
    RowInv /\ LatestAttemptOwnsLease /\ [Next]_vars => LatestAttemptOwnsLease'
<1>. SUFFICES ASSUME RowInv, LatestAttemptOwnsLease, [Next]_vars
              PROVE  LatestAttemptOwnsLease'
  OBVIOUS
<1>. USE JobAssumption DEF RowInv, TypeOK
<1>0. \A x \in execs : /\ x \in Execution
                       /\ x.job \in Jobs
                       /\ x.attempt \in Nat
  BY DEF Execution
\* Steps that claim nothing: executions keep their identity, and a job that still
\* runs keeps its owner.
<1>a. ASSUME \A y \in execs' : \E x \in execs :
                 y.job = x.job /\ y.attempt = x.attempt /\ y.worker = x.worker,
             UNCHANGED attempts,
             \A j \in Jobs : status'[j] = "running" =>
                 status[j] = "running" /\ owner'[j] = owner[j]
      PROVE  LatestAttemptOwnsLease'
  BY <1>0, <1>a DEF LatestAttemptOwnsLease
<1>1. ASSUME NEW j \in Jobs, Enqueuing(j) PROVE LatestAttemptOwnsLease'
  <2>1. ASSUME NEW e \in Clocks, InsertJob(j, e) \/ EnqueueInTx(j, e)
        PROVE  LatestAttemptOwnsLease'
    BY <1>a, <2>1 DEF InsertJob, EnqueueInTx
  <2>2. CASE FindActiveJob(j) \/ CheckAndIncrement(j) \/ CancelRejected(j)
    BY <1>a, <2>2 DEF FindActiveJob, CheckAndIncrement, CancelRejected, CancelRow, row
  <2>. QED BY <1>1, <2>1, <2>2 DEF Enqueuing
<1>2. ASSUME NEW j \in Jobs, Canceling(j) PROVE LatestAttemptOwnsLease'
  BY <1>a, <1>2 DEF Canceling, CancelJob, CancelExport, FreeExport, CancelRow, row
<1>3. ASSUME NEW w \in Workers, NEW e \in Clocks, ClaimBatch(w, e)
      PROVE  LatestAttemptOwnsLease'
  <2>1. PICK S \in SUBSET Jobs :
          /\ status' = [j \in Jobs |-> IF j \in S THEN "running" ELSE status[j]]
          /\ attempts' = [j \in Jobs |-> IF j \in S THEN attempts[j] + 1 ELSE attempts[j]]
          /\ owner' = [j \in Jobs |-> IF j \in S THEN w ELSE owner[j]]
          /\ execs' = execs \cup
               {[job |-> j, attempt |-> attempts[j] + 1, worker |-> w,
                 phase |-> "handling", heart |-> "beating"] : j \in S}
    BY <1>3 DEF ClaimBatch, ClaimedAttempt, Claimable
  <2>2. ASSUME NEW y \in execs'
        PROVE  /\ y.attempt <= attempts'[y.job]
               /\ status'[y.job] = "running" /\ y.attempt = attempts'[y.job]
                     => owner'[y.job] = y.worker
    <3>1. CASE y \in execs
      <4>1. y.attempt <= attempts[y.job] /\ y.job \in Jobs /\ y.attempt \in Nat
        BY <1>0, <3>1 DEF LatestAttemptOwnsLease
      <4>2. attempts[y.job] \in Nat
        BY <4>1
      <4>3. CASE y.job \in S
        BY <2>1, <4>1, <4>2, <4>3
      <4>4. CASE y.job \notin S
        BY <2>1, <3>1, <4>1, <4>2, <4>4 DEF LatestAttemptOwnsLease
      <4>. QED BY <4>3, <4>4
    <3>2. CASE y \notin execs
      <4>1. PICK j \in S : y = [job |-> j, attempt |-> attempts[j] + 1, worker |-> w,
                               phase |-> "handling", heart |-> "beating"]
        BY <2>1, <3>2
      <4>. QED BY <2>1, <4>1
    <3>. QED BY <3>1, <3>2
  <2>. QED BY <2>2 DEF LatestAttemptOwnsLease
<1>4. ASSUME NEW x \in execs, Executing(x) PROVE LatestAttemptOwnsLease'
  <2>1. ASSUME NEW e \in Clocks, Heartbeat(x, e) \/ Complete(x, e) \/ Fail(x, e)
        PROVE  LatestAttemptOwnsLease'
    <3>1. /\ UNCHANGED attempts
          /\ \A j \in Jobs : status'[j] = "running" =>
                 status[j] = "running" /\ owner'[j] = owner[j]
      BY <1>0, <2>1 DEF Heartbeat, Complete, Fail, Held
    <3>2. \/ execs' \subseteq execs
          \/ execs' = (execs \ {x}) \cup {[x EXCEPT !.heart = "abandoned"]}
          \/ execs' = (execs \ {x}) \cup {[x EXCEPT !.phase = "freeing"]}
      BY <2>1 DEF Heartbeat, Complete, Fail, Replace, Drop
    <3>3. \A y \in execs' : \E z \in execs :
              y.job = z.job /\ y.attempt = z.attempt /\ y.worker = z.worker
      BY <1>0, <3>2 DEF Execution
    <3>. QED BY <1>a, <3>1, <3>3
  <2>2. CASE FreeSlot(x) \/ Abandon(x)
    BY <1>a, <2>2 DEF FreeSlot, Abandon, Drop, row
  <2>. QED BY <1>4, <2>1, <2>2 DEF Executing
<1>5. CASE Failing
  <2>1. ASSUME NEW x \in execs, HeartbeatError(x) PROVE LatestAttemptOwnsLease'
    <3>1. \A y \in execs' : \E z \in execs :
              y.job = z.job /\ y.attempt = z.attempt /\ y.worker = z.worker
      BY <1>0, <2>1 DEF HeartbeatError, Replace, Execution
    <3>. QED BY <1>a, <2>1, <3>1 DEF HeartbeatError, row
  <2>2. ASSUME NEW w \in Workers, Crash(w) PROVE LatestAttemptOwnsLease'
    BY <1>a, <2>2 DEF Crash, row
  <2>3. ASSUME NEW x \in execs, ReportError(x) PROVE LatestAttemptOwnsLease'
    BY <1>a, <2>3 DEF ReportError, Drop, row
  <2>4. ASSUME NEW j \in Jobs, CallError(j) PROVE LatestAttemptOwnsLease'
    BY <1>a, <2>4 DEF CallError, row
  <2>. QED BY <1>5, <2>1, <2>2, <2>3, <2>4 DEF Failing
<1>6. CASE Tick \/ UNCHANGED vars
  BY <1>a, <1>6 DEF Tick, vars
<1>. QED BY <1>1, <1>2, <1>3, <1>4, <1>5, <1>6 DEF Next, Step

\* The latest claim of a running job owns its lease, in any instance.
THEOREM LatestOwns == Spec => []LatestAttemptOwnsLease
<1>1. Init => LatestAttemptOwnsLease
  BY DEF Init, LatestAttemptOwnsLease
<1>. QED BY <1>1, InitType, NextType, LatestStep, PTL DEF Spec

-----------------------------------------------------------------------------
(* The queue implements the lifecycle of the domain. *)

\* Every statement of the queue is a transition that jobTransitions declares, or
\* leaves every status alone; a lease that is taken over is such a stutter.
LEMMA LifecycleStep == RowInv /\ [Next]_vars => [Lifecycle!Next]_status
<1>. SUFFICES ASSUME RowInv, [Next]_vars PROVE [Lifecycle!Next]_status
  OBVIOUS
<1>. USE DEF Lifecycle!Next, RowInv, TypeOK
<1>1. ASSUME NEW j \in Jobs, Enqueuing(j) PROVE [Lifecycle!Next]_status
  <2>1. ASSUME NEW e \in Clocks, InsertJob(j, e) \/ EnqueueInTx(j, e)
        PROVE  [Lifecycle!Next]_status
    BY <2>1 DEF InsertJob, EnqueueInTx, RowConsistent, Lifecycle!Enqueue, Lifecycle!Move
  <2>2. CASE CancelRejected(j)
    BY <2>2 DEF CancelRejected, CancelRow, row, Active, Lifecycle!Cancel, Lifecycle!Move
  <2>3. CASE FindActiveJob(j) \/ CheckAndIncrement(j)
    BY <2>3 DEF FindActiveJob, CheckAndIncrement, row
  <2>. QED BY <1>1, <2>1, <2>2, <2>3 DEF Enqueuing
<1>2. ASSUME NEW j \in Jobs, Canceling(j) PROVE [Lifecycle!Next]_status
  BY <1>2 DEF Canceling, CancelJob, CancelExport, FreeExport, CancelRow, row, Active,
              Lifecycle!Cancel, Lifecycle!Move
<1>3. ASSUME NEW w \in Workers, NEW e \in Clocks, ClaimBatch(w, e)
      PROVE  [Lifecycle!Next]_status
  <2>1. PICK S \in SUBSET Claimable(w, e) :
          status' = [j \in Jobs |-> IF j \in S THEN "running" ELSE status[j]]
    BY <1>3 DEF ClaimBatch, ClaimedAttempt
  <2>2. PICK Q \in SUBSET Jobs : Q = {j \in S : status[j] = "queued"}
    BY DEF Claimable
  <2>3. status' = [j \in Jobs |-> IF j \in Q THEN "running" ELSE status[j]]
    <3>1. \A j \in Jobs : (j \in S /\ j \notin Q) => status[j] = "running"
      BY <2>2 DEF Claimable
    <3>. QED BY <2>1, <2>2, <3>1
  <2>. QED BY <2>2, <2>3 DEF Lifecycle!Claim
<1>4. ASSUME NEW x \in execs, Executing(x) PROVE [Lifecycle!Next]_status
  <2>1. x.job \in Jobs
    BY DEF Execution
  <2>2. ASSUME NEW e \in Clocks, Complete(x, e) PROVE [Lifecycle!Next]_status
    BY <2>1, <2>2 DEF Complete, Held, Lifecycle!Complete, Lifecycle!Move
  <2>3. ASSUME NEW e \in Clocks, Fail(x, e) PROVE [Lifecycle!Next]_status
    BY <2>1, <2>3 DEF Fail, Held, Lifecycle!Fail, Lifecycle!Retry, Lifecycle!Move
  <2>4. ASSUME NEW e \in Clocks, Heartbeat(x, e) PROVE [Lifecycle!Next]_status
    BY <2>4 DEF Heartbeat
  <2>5. CASE FreeSlot(x) \/ Abandon(x)
    BY <2>5 DEF FreeSlot, Abandon, row
  <2>. QED BY <1>4, <2>2, <2>3, <2>4, <2>5 DEF Executing
<1>5. CASE Failing
  BY <1>5 DEF Failing, Crash, HeartbeatError, ReportError, CallError, row
<1>6. CASE Tick \/ UNCHANGED vars
  BY <1>6 DEF Tick, vars
<1>. QED BY <1>1, <1>2, <1>3, <1>4, <1>5, <1>6 DEF Next, Step

\* JobQueue implements JobLifecycle, for any instance.
THEOREM QueueImplementsLifecycle == Spec => RefinesLifecycle
<1>1. Init => Lifecycle!Init
  BY DEF Init, Lifecycle!Init
<1>. QED BY <1>1, InitType, NextType, LifecycleStep, PTL DEF Spec, RefinesLifecycle, Lifecycle!Spec
-----------------------------------------------------------------------------
(* Timely heartbeats. *)

\* Until a heartbeat loop ends on an error, an execution that is still handling
\* its job is the latest claim of it and holds a lease that no clock sees expired,
\* or the job has been canceled; and there is no other such execution.
KeptLease(x) ==
    /\ status[x.job] = "running"
    /\ owner[x.job] = x.worker
    /\ attempts[x.job] = x.attempt
    /\ lease[x.job] >= Skew
    /\ x.heart = "beating"

LeaseInv ==
    missed = 0 => \A x \in execs : x.phase = "handling" =>
        /\ KeptLease(x) \/ status[x.job] = "canceled"
        /\ \A y \in execs : y.phase = "handling" /\ y.job = x.job => y = x

\* A step that starts no execution keeps the lease invariant if it keeps the
\* lease, or the status canceled, of every execution that goes on handling.
LEMMA LeaseQuiet ==
    ASSUME RowInv, LeaseInv, missed' >= missed, missed' \in Nat,
           missed' = 0 => \A y \in execs' : y.phase = "handling" =>
               y \in execs /\ (KeptLease(y)' \/ status'[y.job] = "canceled")
    PROVE  LeaseInv'
<1>. SUFFICES ASSUME missed' = 0 PROVE LeaseInv'
  BY DEF LeaseInv
<1>1. missed = 0
  BY DEF RowInv, TypeOK
<1>. QED BY <1>1 DEF LeaseInv, KeptLease

\* A step with timely heartbeats keeps the lease invariant, if a lease is longer
\* than the clocks of two workers can be apart.
LEMMA LeaseStep ==
    ASSUME 2 * Skew <= LeaseDuration
    PROVE  RowInv /\ LeaseInv /\ [TimelyNext]_vars => LeaseInv'
<1>. SUFFICES ASSUME RowInv, LeaseInv, [TimelyNext]_vars PROVE LeaseInv'
  OBVIOUS
<1>. USE JobAssumption DEF RowInv, TypeOK
<1>0. \A x \in execs : x \in Execution /\ x.job \in Jobs
  BY DEF Execution
<1>1. ASSUME NEW j \in Jobs, Enqueuing(j) PROVE LeaseInv'
  <2>1. ASSUME NEW e \in Clocks, InsertJob(j, e) \/ EnqueueInTx(j, e) PROVE LeaseInv'
    BY <1>0, <2>1, LeaseQuiet DEF InsertJob, EnqueueInTx, LeaseInv, KeptLease, RowConsistent
  <2>2. CASE FindActiveJob(j) \/ CheckAndIncrement(j)
    BY <2>2, LeaseQuiet DEF FindActiveJob, CheckAndIncrement, LeaseInv, KeptLease, row
  <2>3. CASE CancelRejected(j)
    BY <1>0, <2>3, LeaseQuiet DEF CancelRejected, CancelRow, LeaseInv, KeptLease, row
  <2>. QED BY <1>1, <2>1, <2>2, <2>3 DEF Enqueuing
<1>2. ASSUME NEW j \in Jobs, Canceling(j) PROVE LeaseInv'
  BY <1>0, <1>2, LeaseQuiet
     DEF Canceling, CancelJob, CancelExport, FreeExport, CancelRow, LeaseInv, KeptLease, row
<1>3. ASSUME NEW w \in Workers, NEW e \in Clocks, ClaimBatch(w, e) PROVE LeaseInv'
  <2>1. PICK S \in SUBSET Claimable(w, e) :
          /\ status' = [j \in Jobs |-> IF j \in S THEN "running" ELSE status[j]]
          /\ attempts' = [j \in Jobs |-> IF j \in S THEN attempts[j] + 1 ELSE attempts[j]]
          /\ owner' = [j \in Jobs |-> IF j \in S THEN w ELSE owner[j]]
          /\ lease' = [j \in Jobs |-> IF j \in S THEN LeaseDuration + e ELSE lease[j]]
          /\ execs' = execs \cup
               {[job |-> j, attempt |-> attempts[j] + 1, worker |-> w,
                 phase |-> "handling", heart |-> "beating"] : j \in S}
          /\ UNCHANGED missed
    BY <1>3 DEF ClaimBatch, ClaimedAttempt
  <2>. SUFFICES ASSUME missed = 0 PROVE LeaseInv'
    BY <2>1 DEF LeaseInv
  <2>2. \A x \in execs : x.phase = "handling" => x.job \notin S
    BY <1>0 DEF LeaseInv, KeptLease, Claimable, Clocks
  <2>3. \A x \in execs : x.phase = "handling" => KeptLease(x)' \/ status'[x.job] = "canceled"
    BY <1>0, <2>1, <2>2 DEF LeaseInv, KeptLease
  <2>4. \A y \in execs' : y \notin execs =>
            \E j \in S : y = [job |-> j, attempt |-> attempts[j] + 1, worker |-> w,
                              phase |-> "handling", heart |-> "beating"]
    BY <2>1
  <2>5. \A y \in execs' : y \notin execs => y.job \in S /\ KeptLease(y)'
    BY <2>1, <2>4 DEF KeptLease, Claimable, Clocks
  <2>6. \A x, y \in execs' : x.phase = "handling" /\ y.phase = "handling" /\ y.job = x.job => y = x
    BY <2>2, <2>4, <2>5 DEF LeaseInv
  <2>. QED BY <2>1, <2>3, <2>5, <2>6 DEF LeaseInv
<1>4. ASSUME NEW x \in execs, Executing(x) PROVE LeaseInv'
  <2>1. ASSUME NEW e \in Clocks, Heartbeat(x, e) PROVE LeaseInv'
    <3>0. UNCHANGED <<status, attempts, owner, missed>>
      BY <2>1 DEF Heartbeat
    <3>1. CASE Held(x, e) /\ lease' = [lease EXCEPT ![x.job] = LeaseDuration + e]
                          /\ UNCHANGED execs
      BY <1>0, <3>0, <3>1, LeaseQuiet DEF LeaseInv, KeptLease, Clocks
    <3>2. CASE ~Held(x, e) /\ Replace(x, [x EXCEPT !.heart = "abandoned"]) /\ UNCHANGED lease
      <4>. SUFFICES ASSUME missed = 0 PROVE LeaseInv'
        BY <3>0 DEF LeaseInv
      <4>1. PICK y \in Execution : y = [x EXCEPT !.heart = "abandoned"]
        BY <1>0 DEF Execution
      <4>2. y.job = x.job /\ y.phase = x.phase /\ execs' = (execs \ {x}) \cup {y}
        BY <1>0, <3>2, <4>1 DEF Replace, Execution
      <4>3. x.phase = "handling" => status[x.job] = "canceled"
        BY <1>0, <3>2 DEF LeaseInv, KeptLease, Held, Clocks
      <4>. QED BY <1>0, <3>0, <3>2, <4>2, <4>3 DEF LeaseInv, KeptLease
    <3>. QED BY <2>1, <3>1, <3>2 DEF Heartbeat
  <2>2. ASSUME NEW e \in Clocks, Complete(x, e) PROVE LeaseInv'
    <3>1. \A y \in execs' : y.phase = "handling" => y \in execs /\ y # x
      BY <1>0, <2>2 DEF Complete, Replace, Drop, Execution
    <3>2. \A j \in Jobs \ {x.job} : /\ status'[j] = status[j]
                                    /\ owner'[j] = owner[j]
                                    /\ attempts'[j] = attempts[j]
                                    /\ lease'[j] = lease[j]
      BY <1>0, <2>2 DEF Complete
    <3>3. missed = 0 => \A y \in execs' : y.phase = "handling" => y.job # x.job
      BY <2>2, <3>1 DEF LeaseInv, Complete
    <3>4. UNCHANGED missed
      BY <2>2 DEF Complete
    <3>. QED BY <1>0, <3>1, <3>2, <3>3, <3>4, LeaseQuiet DEF LeaseInv, KeptLease
  <2>3. ASSUME NEW e \in Clocks, Fail(x, e) PROVE LeaseInv'
    <3>1. \A y \in execs' : y.phase = "handling" => y \in execs /\ y # x
      BY <1>0, <2>3 DEF Fail, Replace, Drop, Execution
    <3>2. \A j \in Jobs \ {x.job} : /\ status'[j] = status[j]
                                    /\ owner'[j] = owner[j]
                                    /\ attempts'[j] = attempts[j]
                                    /\ lease'[j] = lease[j]
      BY <1>0, <2>3 DEF Fail
    <3>3. missed = 0 => \A y \in execs' : y.phase = "handling" => y.job # x.job
      BY <2>3, <3>1 DEF LeaseInv, Fail
    <3>4. UNCHANGED missed
      BY <2>3 DEF Fail
    <3>. QED BY <1>0, <3>1, <3>2, <3>3, <3>4, LeaseQuiet DEF LeaseInv, KeptLease
  <2>4. CASE FreeSlot(x) \/ Abandon(x)
    BY <2>4, LeaseQuiet DEF FreeSlot, Abandon, Drop, LeaseInv, KeptLease, row
  <2>. QED BY <1>4, <2>1, <2>2, <2>3, <2>4 DEF Executing
<1>5. CASE Failing
  <2>1. ASSUME NEW w \in Workers, Crash(w) PROVE LeaseInv'
    BY <2>1, LeaseQuiet DEF Crash, Fault, LeaseInv, KeptLease, row
  <2>2. ASSUME NEW x \in execs, HeartbeatError(x) PROVE LeaseInv'
    BY <2>2 DEF HeartbeatError, LeaseInv
  <2>3. ASSUME NEW x \in execs, ReportError(x) PROVE LeaseInv'
    BY <2>3, LeaseQuiet DEF ReportError, Fault, Drop, LeaseInv, KeptLease, row
  <2>4. ASSUME NEW j \in Jobs, CallError(j) PROVE LeaseInv'
    BY <2>4, LeaseQuiet DEF CallError, Fault, LeaseInv, KeptLease, row
  <2>. QED BY <1>5, <2>1, <2>2, <2>3, <2>4 DEF Failing
<1>6. CASE TimelyTick
  <2>1. \A x \in execs : x.phase = "handling" /\ KeptLease(x) => KeptLease(x)'
    BY <1>0, <1>6 DEF TimelyTick, Tick, KeptLease
  <2>. QED BY <1>6, <2>1, LeaseQuiet DEF TimelyTick, Tick, LeaseInv
<1>7. CASE UNCHANGED vars
  BY <1>7, LeaseQuiet DEF vars, LeaseInv, KeptLease
<1>. QED BY <1>1, <1>2, <1>3, <1>4, <1>5, <1>6, <1>7 DEF TimelyNext, Step

\* A timely step is a step.
LEMMA TimelyType == RowInv /\ [TimelyNext]_vars => RowInv'
BY NextType DEF TimelyNext, TimelyTick, Next

\* JobLeaseExclusivity: with timely heartbeats, and a lease longer than the clocks
\* of two workers can be apart, no job is executed twice at a time.
THEOREM OneExecutionAtATime ==
    ASSUME 2 * Skew <= LeaseDuration
    PROVE  TimelySpec => []SingleExecution
<1>1. Init => LeaseInv
  BY DEF Init, LeaseInv
<1>2. LeaseInv => SingleExecution
  BY DEF LeaseInv, SingleExecution
<1>. QED BY <1>1, <1>2, InitType, TimelyType, LeaseStep, PTL DEF TimelySpec

NoRequeue ==
    \A j \in Jobs :
        status[j] = "running" /\ attempts[j] >= MaxAttempts => status'[j] # "queued"

\* JobDeadLetterOnMaxAttempts: under the same conditions, and if no heartbeat loop
\* ends on an error, a job on its last attempt is never queued again.
THEOREM DeadLetter ==
    ASSUME 2 * Skew <= LeaseDuration, MaxMissed = 0
    PROVE  TimelySpec => DeadLetterAtMax
<1>1. Init => LeaseInv
  BY DEF Init, LeaseInv
<1>2. ASSUME RowInv, LeaseInv, [TimelyNext]_vars PROVE NoRequeue
  <2>. USE <1>2 DEF RowInv, TypeOK, NoRequeue
  <2>0. missed = 0 /\ \A x \in execs : x.job \in Jobs
    BY JobAssumption DEF Execution
  <2>1. ASSUME NEW k \in Jobs, Enqueuing(k) PROVE NoRequeue
    BY <2>1 DEF Enqueuing, InsertJob, EnqueueInTx, FindActiveJob, CheckAndIncrement,
                CancelRejected, CancelRow, RowConsistent, row
  <2>2. ASSUME NEW k \in Jobs, Canceling(k) PROVE NoRequeue
    BY <2>2 DEF Canceling, CancelJob, CancelExport, FreeExport, CancelRow, row
  <2>3. ASSUME NEW w \in Workers, NEW e \in Clocks, ClaimBatch(w, e) PROVE NoRequeue
    BY <2>3 DEF ClaimBatch, ClaimedAttempt
  <2>4. ASSUME NEW x \in execs, NEW e \in Clocks, Fail(x, e) PROVE NoRequeue
    <3>1. Held(x, e) => x.attempt = attempts[x.job]
      BY <2>0, <2>4 DEF Fail, Held, LeaseInv, KeptLease
    <3>. QED BY <2>0, <2>4, <3>1 DEF Fail, Exhausted
  <2>5. ASSUME NEW x \in execs, NEW e \in Clocks, Heartbeat(x, e) \/ Complete(x, e)
        PROVE  NoRequeue
    BY <2>0, <2>5 DEF Heartbeat, Complete
  <2>6. ASSUME NEW x \in execs, FreeSlot(x) \/ Abandon(x) PROVE NoRequeue
    BY <2>6 DEF FreeSlot, Abandon, row
  <2>7. CASE Failing
    BY <2>7 DEF Failing, Crash, HeartbeatError, ReportError, CallError, row
  <2>8. CASE TimelyTick \/ UNCHANGED vars
    BY <2>8 DEF TimelyTick, Tick, vars
  <2>. QED
    BY <1>2, <2>1, <2>2, <2>3, <2>4, <2>5, <2>6, <2>7, <2>8 DEF TimelyNext, Step, Executing
<1>3. RowInv /\ LeaseInv /\ [TimelyNext]_vars =>
        [\A j \in Jobs : status[j] = "running" /\ attempts[j] >= MaxAttempts
             => status'[j] # "queued"]_vars
  BY <1>2 DEF NoRequeue
<1>. QED BY <1>1, <1>3, InitType, TimelyType, LeaseStep, PTL DEF TimelySpec, DeadLetterAtMax

-----------------------------------------------------------------------------
(* Attempts, with timely heartbeats. *)

\* Executions that will put their job back into the queue when they fail.
Unspent(j) ==
    {x \in execs : x.job = j /\ x.phase = "handling" /\ x.attempt < MaxAttempts}

\* The latest claim of the job is being handled and its heartbeat loop lives.
Attended(j) ==
    \E x \in execs : /\ x.job = j
                     /\ x.attempt = attempts[j]
                     /\ x.phase = "handling"
                     /\ x.heart = "beating"

\* The job may be claimed without anyone reporting it first: it is queued, or its
\* lease is left to run out.
Spare(j) ==
    IF status[j] = "queued" \/ (status[j] = "running" /\ ~Attended(j)) THEN 1 ELSE 0

\* Claims that brought, or may yet bring, a failed execution back into the queue.
Requeues(n) == IF n < MaxAttempts THEN n ELSE MaxAttempts - 1

\* The account of a job: beyond the first claim, every claim made, and every one
\* that executions alive may still cause, is paid for by an attempt that could be
\* retried, or by a fault or a heartbeat loop that ended.
Account(j) ==
    /\ IsFiniteSet(Unspent(j))
    /\ attempts[j] + Cardinality(Unspent(j)) + Spare(j)
           <= 1 + faults + missed + Requeues(attempts[j])
    /\ status[j] = "none" => attempts[j] = 0

\* A lease whose heartbeat loop lives is past for no clock.
BeatInv ==
    \A x \in execs :
        /\ x.phase = "handling"
        /\ x.heart = "beating"
        /\ status[x.job] = "running"
        /\ x.attempt = attempts[x.job]
        => lease[x.job] >= Skew

AttemptInv == BeatInv /\ \A j \in Jobs : Account(j)

\* A step that starts no execution keeps the leases in time if it keeps the lease
\* of every job that goes on running.
LEMMA BeatQuiet ==
    ASSUME RowInv, BeatInv, UNCHANGED attempts,
           \A y \in execs' : y.heart = "beating" /\ y.phase = "handling" => y \in execs,
           \A j \in Jobs : status'[j] = "running" =>
               status[j] = "running" /\ (lease'[j] = lease[j] \/ lease'[j] >= Skew)
    PROVE  BeatInv'
<1>1. \A x \in execs : x.job \in Jobs
  BY DEF RowInv, TypeOK, Execution
<1>. QED BY <1>1 DEF BeatInv

\* Heartbeats, claims and the clock keep the lease of a living heartbeat loop.
LEMMA BeatStep ==
    ASSUME 2 * Skew <= LeaseDuration
    PROVE  RowInv /\ LatestAttemptOwnsLease /\ BeatInv /\ [TimelyNext]_vars => BeatInv'
<1>. SUFFICES ASSUME RowInv, LatestAttemptOwnsLease, BeatInv, [TimelyNext]_vars PROVE BeatInv'
  OBVIOUS
<1>. USE JobAssumption DEF RowInv, TypeOK
<1>0. \A x \in execs : x \in Execution /\ x.job \in Jobs /\ x.attempt \in Nat
  BY DEF Execution
<1>1. ASSUME NEW j \in Jobs, Enqueuing(j) PROVE BeatInv'
  <2>1. ASSUME NEW e \in Clocks, InsertJob(j, e) \/ EnqueueInTx(j, e) PROVE BeatInv'
    BY <2>1, BeatQuiet DEF InsertJob, EnqueueInTx
  <2>2. CASE FindActiveJob(j) \/ CheckAndIncrement(j)
    BY <2>2, BeatQuiet DEF FindActiveJob, CheckAndIncrement, row
  <2>3. CASE CancelRejected(j)
    BY <2>3, BeatQuiet DEF CancelRejected, CancelRow, row
  <2>. QED BY <1>1, <2>1, <2>2, <2>3 DEF Enqueuing
<1>2. ASSUME NEW j \in Jobs, Canceling(j) PROVE BeatInv'
  BY <1>2, BeatQuiet DEF Canceling, CancelJob, CancelExport, FreeExport, CancelRow, row
<1>3. ASSUME NEW w \in Workers, NEW e \in Clocks, ClaimBatch(w, e) PROVE BeatInv'
  <2>1. PICK S \in SUBSET Jobs :
          /\ status' = [j \in Jobs |-> IF j \in S THEN "running" ELSE status[j]]
          /\ attempts' = [j \in Jobs |-> IF j \in S THEN attempts[j] + 1 ELSE attempts[j]]
          /\ lease' = [j \in Jobs |-> IF j \in S THEN LeaseDuration + e ELSE lease[j]]
          /\ execs' = execs \cup
               {[job |-> j, attempt |-> attempts[j] + 1, worker |-> w,
                 phase |-> "handling", heart |-> "beating"] : j \in S}
    BY <1>3 DEF ClaimBatch, ClaimedAttempt, Claimable
  <2>2. \A j \in S : lease'[j] >= Skew
    BY <2>1 DEF Clocks
  <2>3. \A x \in execs' : x \notin execs => x.job \in S
    BY <2>1
  <2>4. \A x \in execs : x.job \notin S => /\ status'[x.job] = status[x.job]
                                           /\ attempts'[x.job] = attempts[x.job]
                                           /\ lease'[x.job] = lease[x.job]
    BY <1>0, <2>1
  <2>. QED BY <2>2, <2>3, <2>4 DEF BeatInv
<1>4. ASSUME NEW x \in execs, Executing(x) PROVE BeatInv'
  <2>1. ASSUME NEW e \in Clocks, Heartbeat(x, e) PROVE BeatInv'
    <3>1. \A y \in execs' : y.heart = "beating" => y \in execs
      BY <1>0, <2>1 DEF Heartbeat, Replace, Execution
    <3>2. \A j \in Jobs : lease'[j] = lease[j] \/ lease'[j] >= Skew
      BY <1>0, <2>1 DEF Heartbeat, Clocks
    <3>. QED BY <2>1, <3>1, <3>2, BeatQuiet DEF Heartbeat
  <2>2. ASSUME NEW e \in Clocks, Complete(x, e) \/ Fail(x, e) PROVE BeatInv'
    <3>1. \A y \in execs' : y.phase = "handling" => y \in execs
      BY <1>0, <2>2 DEF Complete, Fail, Replace, Drop, Execution
    <3>2. \A j \in Jobs : status'[j] = "running" => status[j] = "running" /\ lease'[j] = lease[j]
      BY <1>0, <2>2 DEF Complete, Fail
    <3>. QED BY <2>2, <3>1, <3>2, BeatQuiet DEF Complete, Fail
  <2>3. CASE FreeSlot(x) \/ Abandon(x)
    BY <2>3, BeatQuiet DEF FreeSlot, Abandon, Drop, row
  <2>. QED BY <1>4, <2>1, <2>2, <2>3 DEF Executing
<1>5. CASE Failing
  <2>1. ASSUME NEW x \in execs, HeartbeatError(x) PROVE BeatInv'
    <3>1. \A y \in execs' : y.heart = "beating" => y \in execs
      BY <1>0, <2>1 DEF HeartbeatError, Replace, Execution
    <3>. QED BY <2>1, <3>1, BeatQuiet DEF HeartbeatError, row
  <2>2. CASE \/ \E w \in Workers : Crash(w)
             \/ \E x \in execs : ReportError(x)
             \/ \E j \in Jobs : CallError(j)
    BY <2>2, BeatQuiet DEF Crash, ReportError, CallError, Drop, row
  <2>. QED BY <1>5, <2>1, <2>2 DEF Failing
<1>6. CASE TimelyTick
  <2>1. ASSUME NEW x \in execs, x.phase = "handling", x.heart = "beating",
               status[x.job] = "running", x.attempt = attempts[x.job]
        PROVE  lease'[x.job] >= Skew
    BY <1>0, <1>6, <2>1 DEF TimelyTick, Tick, LatestAttemptOwnsLease
  <2>. QED BY <1>6, <2>1 DEF TimelyTick, Tick, BeatInv
<1>7. CASE UNCHANGED vars
  BY <1>7, BeatQuiet DEF vars
<1>. QED BY <1>1, <1>2, <1>3, <1>4, <1>5, <1>6, <1>7 DEF TimelyNext, Step

\* A set that loses an element is smaller.
LEMMA DropOne ==
    ASSUME NEW S, IsFiniteSet(S), NEW x \in S, NEW T \in SUBSET (S \ {x})
    PROVE  IsFiniteSet(T) /\ Cardinality(T) \in Nat /\ Cardinality(T) + 1 <= Cardinality(S)
<1>1. IsFiniteSet(T) /\ IsFiniteSet(T \cup {x}) /\ Cardinality(T \cup {x}) = Cardinality(T) + 1
  <2>1. IsFiniteSet(T)
    BY FS_Subset
  <2>. QED BY <2>1, FS_AddElement
<1>2. T \cup {x} \subseteq S
  OBVIOUS
<1>. QED BY <1>1, <1>2, FS_Subset, FS_CardinalityType

\* A set in which an element is replaced does not grow.
LEMMA SwapOne ==
    ASSUME NEW S, IsFiniteSet(S), NEW x \in S, NEW y
    PROVE  /\ IsFiniteSet((S \ {x}) \cup {y})
           /\ Cardinality((S \ {x}) \cup {y}) <= Cardinality(S)
<1>1. /\ IsFiniteSet(S \ {x})
      /\ Cardinality(S \ {x}) \in Nat
      /\ Cardinality(S \ {x}) + 1 <= Cardinality(S)
  BY DropOne
<1>2. /\ IsFiniteSet((S \ {x}) \cup {y})
      /\ \/ Cardinality((S \ {x}) \cup {y}) = Cardinality(S \ {x}) + 1
         \/ Cardinality((S \ {x}) \cup {y}) = Cardinality(S \ {x})
  BY <1>1, FS_AddElement
<1>. QED BY <1>1, <1>2, FS_CardinalityType

\* The account of a job that a step does not claim.
LEMMA AccountQuiet ==
    ASSUME RowInv, RowInv', NEW j \in Jobs, Account(j),
           attempts'[j] = attempts[j], status'[j] = "none" => status[j] = "none",
           IsFiniteSet(Unspent(j)'),
           Cardinality(Unspent(j)') + Spare(j)' + faults + missed
               <= Cardinality(Unspent(j)) + Spare(j) + faults' + missed'
    PROVE  Account(j)'
<1>1. /\ Cardinality(Unspent(j)) \in Nat
      /\ Cardinality(Unspent(j)') \in Nat
  BY FS_CardinalityType DEF Account
<1>2. /\ attempts[j] \in Nat
      /\ faults \in Nat /\ faults' \in Nat
      /\ missed \in Nat /\ missed' \in Nat
      /\ Requeues(attempts[j]) \in Int
  BY JobAssumption DEF RowInv, TypeOK, Requeues
<1>3. Spare(j) \in {0, 1} /\ Spare(j)' \in {0, 1}
  BY DEF Spare
<1>4. Requeues(attempts[j])' = Requeues(attempts[j])
  BY DEF Requeues
<1>5. (attempts[j] + Cardinality(Unspent(j)) + Spare(j) <= 1 + faults + missed + Requeues(attempts[j]))'
  BY <1>1, <1>2, <1>3, <1>4 DEF Account
<1>. QED BY <1>5 DEF Account

\* The account of a job that is left alone, with its executions, and of a job
\* whose executions become fewer at no other cost.
LEMMA AccountShrinks ==
    ASSUME RowInv, RowInv', NEW j \in Jobs, Account(j),
           attempts'[j] = attempts[j], status'[j] = "none" => status[j] = "none",
           Unspent(j)' \subseteq Unspent(j),
           faults' >= faults, missed' >= missed,
           Spare(j)' <= Spare(j) \/ faults' > faults
    PROVE  Account(j)'
<1>1. /\ IsFiniteSet(Unspent(j)')
      /\ Cardinality(Unspent(j)') <= Cardinality(Unspent(j))
      /\ Cardinality(Unspent(j)') \in Nat
      /\ Cardinality(Unspent(j)) \in Nat
  BY FS_Subset, FS_CardinalityType DEF Account
<1>2. faults \in Nat /\ faults' \in Nat /\ missed \in Nat /\ missed' \in Nat
  BY JobAssumption DEF RowInv, TypeOK
<1>3. Spare(j) \in {0, 1} /\ Spare(j)' \in {0, 1}
  BY DEF Spare
<1>. QED BY <1>1, <1>2, <1>3, AccountQuiet

\* A job whose executions a step leaves alone keeps its account, if it is queued
\* or running afterwards only if it was so before.
LEMMA AccountKept ==
    ASSUME RowInv, RowInv', NEW j \in Jobs, Account(j),
           attempts'[j] = attempts[j],
           {x \in execs' : x.job = j} = {x \in execs : x.job = j},
           status'[j] = status[j] \/ status'[j] \in Terminal,
           faults' >= faults, missed' >= missed
    PROVE  Account(j)'
<1>1. \A x : (x \in execs' /\ x.job = j) <=> (x \in execs /\ x.job = j)
  OBVIOUS
<1>2. Unspent(j)' = Unspent(j)
  BY <1>1 DEF Unspent
<1>3. Attended(j)' <=> Attended(j)
  BY <1>1 DEF Attended
<1>4. Spare(j)' <= Spare(j)
  BY <1>3 DEF Spare, Terminal
<1>. QED BY <1>2, <1>4, AccountShrinks DEF Terminal

\* A job whose execution ends keeps its account, if the execution was not its
\* living latest claim, or the end of it counts as a fault.
LEMMA AccountDrop ==
    ASSUME RowInv, RowInv', NEW j \in Jobs, Account(j),
           attempts'[j] = attempts[j], status'[j] = status[j],
           execs' \subseteq execs,
           faults' >= faults, missed' >= missed,
           \/ faults' > faults
           \/ status[j] = "running" =>
                  \A x \in execs \ execs' :
                      x.job = j /\ x.attempt = attempts[j] => x.phase # "handling" \/ x.heart # "beating"
    PROVE  Account(j)'
<1>1. Unspent(j)' \subseteq Unspent(j)
  BY DEF Unspent
<1>2. CASE faults' > faults
  BY <1>1, <1>2, AccountShrinks
<1>3. CASE status[j] = "running" =>
             \A x \in execs \ execs' :
                 x.job = j /\ x.attempt = attempts[j] => x.phase # "handling" \/ x.heart # "beating"
  <2>1. status[j] = "running" /\ Attended(j) => Attended(j)'
    BY <1>3 DEF Attended
  <2>2. Spare(j)' <= Spare(j)
    BY <2>1 DEF Spare
  <2>. QED BY <1>1, <2>2, AccountShrinks
<1>. QED BY <1>2, <1>3

\* A claim is paid for by the place in the queue or the lease that ran out.
LEMMA AccountClaim ==
    ASSUME RowInv, RowInv', LatestAttemptOwnsLease, BeatInv,
           NEW w \in Workers, NEW e \in Clocks, ClaimBatch(w, e),
           NEW k \in Jobs, Account(k)
    PROVE  Account(k)'
<1>. USE JobAssumption DEF RowInv, TypeOK
<1>0. \A x \in execs : x \in Execution /\ x.job \in Jobs /\ x.attempt \in Nat
  BY DEF Execution
<1>1. PICK S \in SUBSET Claimable(w, e) :
        /\ status' = [j \in Jobs |-> IF j \in S THEN "running" ELSE status[j]]
        /\ attempts' = [j \in Jobs |-> IF j \in S THEN attempts[j] + 1 ELSE attempts[j]]
        /\ execs' = execs \cup
             {[job |-> j, attempt |-> attempts[j] + 1, worker |-> w,
               phase |-> "handling", heart |-> "beating"] : j \in S}
        /\ UNCHANGED <<faults, missed>>
  BY DEF ClaimBatch, ClaimedAttempt
<1>2. CASE k \notin S
  <2>1. {x \in execs' : x.job = k} = {x \in execs : x.job = k}
    BY <1>1, <1>2
  <2>. QED BY <1>1, <1>2, <2>1, AccountKept
<1>3. CASE k \in S
  <2>. DEFINE y == [job |-> k, attempt |-> attempts[k] + 1, worker |-> w,
                    phase |-> "handling", heart |-> "beating"]
  <2>0. /\ y.job = k /\ y.attempt = attempts[k] + 1 /\ y.phase = "handling"
        /\ y.heart = "beating" /\ y \in execs'
        /\ \A x \in execs' : x.job = k => x \in execs \/ x = y
    BY <1>1, <1>3
  <2>. HIDE DEF y
  <2>1. status'[k] = "running" /\ attempts'[k] = attempts[k] + 1 /\ attempts[k] \in Nat
    BY <1>1, <1>3
  <2>2. Spare(k) = 1
    <3>1. Attended(k) /\ status[k] = "running" => lease[k] >= Skew
      BY DEF Attended, BeatInv
    <3>2. \/ status[k] = "queued"
          \/ status[k] = "running" /\ lease[k] < e
      BY <1>3 DEF Claimable
    <3>3. e \in Int /\ e <= Skew /\ lease[k] \in Int
      BY DEF Clocks
    <3>. QED BY <3>1, <3>2, <3>3 DEF Spare
  <2>3. Spare(k)' = 0
    <3>1. Attended(k)'
      BY <2>0, <2>1 DEF Attended
    <3>. QED BY <2>1, <3>1 DEF Spare
  <2>4. Cardinality(Unspent(k)) \in Nat /\ IsFiniteSet(Unspent(k))
    BY FS_CardinalityType DEF Account
  <2>5. faults \in Nat /\ missed \in Nat
    OBVIOUS
  <2>6. CASE attempts[k] + 1 < MaxAttempts
    <3>1. Unspent(k)' = Unspent(k) \cup {y}
      BY <1>1, <2>0, <2>6 DEF Unspent
    <3>2. y \notin Unspent(k)
      BY <1>0, <2>0, <2>1 DEF LatestAttemptOwnsLease, Unspent
    <3>3. IsFiniteSet(Unspent(k)') /\ Cardinality(Unspent(k)') = Cardinality(Unspent(k)) + 1
      BY <2>4, <3>1, <3>2, FS_AddElement
    <3>4. Requeues(attempts[k])' = Requeues(attempts[k]) + 1 /\ Requeues(attempts[k]) \in Int
      BY <2>1, <2>6 DEF Requeues
    <3>. QED BY <1>1, <2>1, <2>2, <2>3, <2>4, <2>5, <3>3, <3>4 DEF Account
  <2>7. CASE ~(attempts[k] + 1 < MaxAttempts)
    <3>1. Unspent(k)' = Unspent(k)
      BY <1>1, <2>0, <2>7 DEF Unspent
    <3>4. Requeues(attempts[k])' = Requeues(attempts[k]) /\ Requeues(attempts[k]) \in Int
      BY <2>1, <2>7 DEF Requeues
    <3>5. attempts[k] + 1 + Cardinality(Unspent(k)) + 0
              <= 1 + faults + missed + Requeues(attempts[k])
      BY <2>1, <2>2, <2>4, <2>5, <3>4 DEF Account
    <3>6. (attempts[k] + Cardinality(Unspent(k)) + Spare(k)
              <= 1 + faults + missed + Requeues(attempts[k]))'
      BY <1>1, <2>1, <2>3, <3>1, <3>4, <3>5
    <3>. QED BY <2>1, <2>4, <3>1, <3>6 DEF Account
  <2>. QED BY <2>6, <2>7
<1>. QED BY <1>2, <1>3

\* Every step with timely heartbeats keeps the account of a job: a failed
\* execution gives its place in the account to the queue, and an execution that is
\* lost without a report is a fault.
LEMMA AccountStep ==
    ASSUME 2 * Skew <= LeaseDuration,
           RowInv, RowInv', LatestAttemptOwnsLease, BeatInv, [TimelyNext]_vars,
           NEW k \in Jobs, Account(k)
    PROVE  Account(k)'
<1>. USE JobAssumption DEF RowInv, TypeOK
<1>0. \A x \in execs : x \in Execution /\ x.job \in Jobs /\ x.attempt \in Nat \ {0}
  BY DEF Execution
<1>00. faults \in Nat /\ missed \in Nat /\ attempts[k] \in Nat
  OBVIOUS
\* A living latest claim holds its lease, on any clock.
<1>h. ASSUME NEW x \in execs, NEW e \in Clocks, status[x.job] = "running",
             x.attempt = attempts[x.job], x.phase = "handling", x.heart = "beating"
      PROVE  Held(x, e)
  BY <1>0, <1>h DEF BeatInv, LatestAttemptOwnsLease, Held, Clocks
<1>1. ASSUME NEW j \in Jobs, Enqueuing(j) PROVE Account(k)'
  <2>1. ASSUME NEW e \in Clocks, InsertJob(j, e) \/ EnqueueInTx(j, e) PROVE Account(k)'
    <3>0. UNCHANGED <<execs, attempts, faults, missed>>
      BY <2>1 DEF InsertJob, EnqueueInTx
    <3>1. CASE status'[k] = status[k]
      BY <1>00, <3>0, <3>1, AccountKept
    <3>2. CASE status'[k] # status[k]
      <4>1. status[k] = "none" /\ status'[k] = "queued"
        BY <2>1, <3>2 DEF InsertJob, EnqueueInTx, RowConsistent
      <4>2. attempts[k] = 0
        BY <4>1 DEF Account
      <4>3. Unspent(k)' = {}
        BY <1>0, <3>0, <4>2 DEF Unspent, LatestAttemptOwnsLease
      <4>4. Spare(k)' = 1 /\ Requeues(attempts[k])' = 0 /\ attempts'[k] = 0
        BY <3>0, <4>1, <4>2 DEF Spare, Requeues
      <4>. QED BY <1>00, <3>0, <4>1, <4>3, <4>4, FS_EmptySet DEF Account
    <3>. QED BY <3>1, <3>2
  <2>2. CASE FindActiveJob(j) \/ CheckAndIncrement(j)
    BY <1>00, <2>2, AccountKept DEF FindActiveJob, CheckAndIncrement, row
  <2>3. CASE CancelRejected(j)
    BY <1>00, <2>3, AccountKept DEF CancelRejected, CancelRow, Terminal, row
  <2>. QED BY <1>1, <2>1, <2>2, <2>3 DEF Enqueuing
<1>2. ASSUME NEW j \in Jobs, Canceling(j) PROVE Account(k)'
  <2>1. /\ UNCHANGED <<execs, attempts, faults, missed>>
        /\ status'[k] = status[k] \/ status'[k] \in Terminal
    BY <1>2 DEF Canceling, CancelJob, CancelExport, FreeExport, CancelRow, Terminal, row
  <2>. QED BY <1>00, <2>1, AccountKept
<1>3. ASSUME NEW w \in Workers, NEW e \in Clocks, ClaimBatch(w, e) PROVE Account(k)'
  BY <1>3, AccountClaim
<1>4. ASSUME NEW x \in execs, Executing(x) PROVE Account(k)'
  <2>1. ASSUME NEW e \in Clocks, Heartbeat(x, e) PROVE Account(k)'
    <3>0. UNCHANGED <<status, attempts, faults, missed>>
      BY <2>1 DEF Heartbeat
    <3>1. CASE UNCHANGED execs
      BY <1>00, <3>0, <3>1, AccountKept
    <3>2. CASE ~Held(x, e) /\ Replace(x, [x EXCEPT !.heart = "abandoned"])
      <4>1. PICK y \in Execution : y = [x EXCEPT !.heart = "abandoned"]
        BY <1>0 DEF Execution
      <4>2. /\ y.job = x.job /\ y.phase = x.phase /\ y.attempt = x.attempt
            /\ y.heart = "abandoned"
            /\ execs' = (execs \ {x}) \cup {y}
        BY <1>0, <3>2, <4>1 DEF Replace, Execution
      <4>3. Spare(k)' <= Spare(k)
        <5>1. Attended(k) /\ status[k] = "running" => Attended(k)'
          BY <1>h, <3>0, <3>2, <4>2 DEF Attended
        <5>. QED BY <3>0, <5>1 DEF Spare
      <4>4. CASE x \in Unspent(k)
        <5>1. Unspent(k)' = (Unspent(k) \ {x}) \cup {y}
          BY <4>2, <4>4 DEF Unspent
        <5>2. IsFiniteSet(Unspent(k)') /\ Cardinality(Unspent(k)') <= Cardinality(Unspent(k))
          <6>1. /\ IsFiniteSet((Unspent(k) \ {x}) \cup {y})
                /\ Cardinality((Unspent(k) \ {x}) \cup {y}) <= Cardinality(Unspent(k))
            BY <4>4, SwapOne, Zenon DEF Account
          <6>. QED BY <5>1, <6>1, Zenon
        <5>3. Cardinality(Unspent(k)') \in Nat /\ Cardinality(Unspent(k)) \in Nat
          BY <5>2, FS_CardinalityType DEF Account
        <5>4. Spare(k) \in {0, 1} /\ Spare(k)' \in {0, 1}
          BY DEF Spare
        <5>5. Cardinality(Unspent(k)') + Spare(k)' + faults + missed
                  <= Cardinality(Unspent(k)) + Spare(k) + faults' + missed'
          BY <1>00, <3>0, <4>3, <5>2, <5>3, <5>4
        <5>. QED BY <3>0, <5>2, <5>5, AccountQuiet
      <4>5. CASE x \notin Unspent(k)
        <5>1. Unspent(k)' \subseteq Unspent(k)
          BY <4>2, <4>5 DEF Unspent
        <5>. QED BY <1>00, <3>0, <4>3, <5>1, AccountShrinks
      <4>. QED BY <4>4, <4>5
    <3>. QED BY <2>1, <3>1, <3>2 DEF Heartbeat
  <2>2. ASSUME NEW e \in Clocks, Complete(x, e) PROVE Account(k)'
    <3>0. UNCHANGED <<attempts, faults, missed>>
      BY <2>2 DEF Complete
    <3>1. CASE ~Held(x, e)
      <4>1. UNCHANGED status /\ execs' = execs \ {x}
        BY <2>2, <3>1 DEF Complete, Drop
      <4>. QED BY <1>00, <1>h, <3>0, <3>1, <4>1, AccountDrop
    <3>2. CASE Held(x, e)
      <4>1. /\ status' = [status EXCEPT ![x.job] = "succeeded"]
            /\ execs' = (execs \ {x}) \cup {[x EXCEPT !.phase = "freeing"]}
        BY <2>2, <3>2 DEF Complete, Replace
      <4>2. [x EXCEPT !.phase = "freeing"].job = x.job /\ [x EXCEPT !.phase = "freeing"].phase = "freeing"
        BY <1>0 DEF Execution
      <4>3. CASE k = x.job
        <5>1. Unspent(k)' \subseteq Unspent(k)
          BY <4>1, <4>2 DEF Unspent
        <5>2. Spare(k)' = 0 /\ Spare(k) \in {0, 1} /\ status'[k] = "succeeded"
          BY <4>1, <4>3 DEF Spare
        <5>. QED BY <1>00, <3>0, <5>1, <5>2, AccountShrinks
      <4>4. CASE k # x.job
        <5>1. {z \in execs' : z.job = k} = {z \in execs : z.job = k}
          BY <4>1, <4>2, <4>4
        <5>. QED BY <1>00, <3>0, <4>1, <4>4, <5>1, AccountKept
      <4>. QED BY <4>3, <4>4
    <3>. QED BY <3>1, <3>2
  <2>3. ASSUME NEW e \in Clocks, Fail(x, e) PROVE Account(k)'
    <3>0. UNCHANGED <<attempts, faults, missed>>
      BY <2>3 DEF Fail
    <3>1. CASE ~Held(x, e)
      <4>1. UNCHANGED status /\ execs' = execs \ {x}
        BY <2>3, <3>1 DEF Fail, Drop
      <4>. QED BY <1>00, <1>h, <3>0, <3>1, <4>1, AccountDrop
    <3>2. CASE Held(x, e) /\ Exhausted(x)
      <4>1. /\ status' = [status EXCEPT ![x.job] = "failed"]
            /\ execs' = (execs \ {x}) \cup {[x EXCEPT !.phase = "freeing"]}
        BY <2>3, <3>2 DEF Fail, Replace
      <4>2. [x EXCEPT !.phase = "freeing"].job = x.job /\ [x EXCEPT !.phase = "freeing"].phase = "freeing"
        BY <1>0 DEF Execution
      <4>3. CASE k = x.job
        <5>1. Unspent(k)' \subseteq Unspent(k)
          BY <4>1, <4>2 DEF Unspent
        <5>2. Spare(k)' = 0 /\ Spare(k) \in {0, 1} /\ status'[k] = "failed"
          BY <4>1, <4>3 DEF Spare
        <5>. QED BY <1>00, <3>0, <5>1, <5>2, AccountShrinks
      <4>4. CASE k # x.job
        <5>1. {z \in execs' : z.job = k} = {z \in execs : z.job = k}
          BY <4>1, <4>2, <4>4
        <5>. QED BY <1>00, <3>0, <4>1, <4>4, <5>1, AccountKept
      <4>. QED BY <4>3, <4>4
    <3>3. CASE Held(x, e) /\ ~Exhausted(x)
      <4>1. /\ status' = [status EXCEPT ![x.job] = "queued"]
            /\ execs' = execs \ {x}
            /\ x.phase = "handling"
        BY <2>3, <3>3 DEF Fail, Drop
      <4>2. CASE k = x.job
        <5>1. x \in Unspent(k) /\ Unspent(k)' \subseteq Unspent(k) \ {x}
          BY <1>0, <3>3, <4>1, <4>2 DEF Unspent, Exhausted
        <5>2. /\ IsFiniteSet(Unspent(k)')
              /\ Cardinality(Unspent(k)') \in Nat
              /\ Cardinality(Unspent(k)') + 1 <= Cardinality(Unspent(k))
          BY <5>1, DropOne DEF Account
        <5>3. Cardinality(Unspent(k)) \in Nat
          BY FS_CardinalityType DEF Account
        <5>4. Spare(k) \in {0, 1} /\ Spare(k)' \in {0, 1} /\ status'[k] = "queued"
          BY <4>1, <4>2 DEF Spare
        <5>5. Cardinality(Unspent(k)') + Spare(k)' + faults + missed
                  <= Cardinality(Unspent(k)) + Spare(k) + faults' + missed'
          BY <1>00, <3>0, <5>2, <5>3, <5>4
        <5>. QED BY <3>0, <5>2, <5>4, <5>5, AccountQuiet
      <4>3. CASE k # x.job
        <5>1. {z \in execs' : z.job = k} = {z \in execs : z.job = k}
          BY <4>1, <4>3
        <5>. QED BY <1>00, <3>0, <4>1, <4>3, <5>1, AccountKept
      <4>. QED BY <4>2, <4>3
    <3>. QED BY <3>1, <3>2, <3>3
  <2>4. CASE FreeSlot(x) \/ Abandon(x)
    <3>1. /\ UNCHANGED <<status, attempts, faults, missed>>
          /\ execs' = execs \ {x}
          /\ x.phase = "freeing" \/ x.heart = "abandoned"
      BY <2>4 DEF FreeSlot, Abandon, Drop, row
    <3>. QED BY <1>00, <3>1, AccountDrop
  <2>. QED BY <1>4, <2>1, <2>2, <2>3, <2>4 DEF Executing
<1>5. CASE Failing
  <2>1. ASSUME NEW x \in execs, HeartbeatError(x) PROVE Account(k)'
    <3>0. UNCHANGED <<status, attempts, faults>> /\ missed' = missed + 1
      BY <2>1 DEF HeartbeatError, row
    <3>1. PICK y \in Execution : y = [x EXCEPT !.heart = "silent"]
      BY <1>0 DEF Execution
    <3>2. /\ y.job = x.job /\ y.phase = x.phase /\ y.attempt = x.attempt
          /\ execs' = (execs \ {x}) \cup {y}
      BY <1>0, <2>1, <3>1 DEF HeartbeatError, Replace, Execution
    <3>3. /\ IsFiniteSet(Unspent(k)')
          /\ Cardinality(Unspent(k)') <= Cardinality(Unspent(k))
      <4>1. CASE x \in Unspent(k)
        <5>1. Unspent(k)' = (Unspent(k) \ {x}) \cup {y}
          BY <3>2, <4>1 DEF Unspent
        <5>2. /\ IsFiniteSet((Unspent(k) \ {x}) \cup {y})
              /\ Cardinality((Unspent(k) \ {x}) \cup {y}) <= Cardinality(Unspent(k))
          BY <4>1, SwapOne, Zenon DEF Account
        <5>. QED BY <5>1, <5>2, Zenon
      <4>2. CASE x \notin Unspent(k)
        <5>1. Unspent(k)' \subseteq Unspent(k)
          BY <3>2, <4>2 DEF Unspent
        <5>. QED BY <5>1, FS_Subset DEF Account
      <4>. QED BY <4>1, <4>2
    <3>4. Cardinality(Unspent(k)') \in Nat /\ Cardinality(Unspent(k)) \in Nat
      BY <3>3, FS_CardinalityType DEF Account
    <3>5. Spare(k) \in {0, 1} /\ Spare(k)' \in {0, 1}
      BY DEF Spare
    <3>6. Cardinality(Unspent(k)') + Spare(k)' + faults + missed
              <= Cardinality(Unspent(k)) + Spare(k) + faults' + missed'
      BY <1>00, <3>0, <3>3, <3>4, <3>5
    <3>. QED BY <3>0, <3>3, <3>6, AccountQuiet
  <2>2. CASE \/ \E w \in Workers : Crash(w)
             \/ \E x \in execs : ReportError(x)
             \/ \E j \in Jobs : CallError(j)
    <3>1. /\ UNCHANGED <<status, attempts, missed>>
          /\ execs' \subseteq execs
          /\ faults' = faults + 1
      BY <2>2 DEF Crash, ReportError, CallError, Fault, Drop, row
    <3>. QED BY <1>00, <3>1, AccountDrop
  <2>. QED BY <1>5, <2>1, <2>2 DEF Failing
<1>6. CASE TimelyTick \/ UNCHANGED vars
  BY <1>00, <1>6, AccountKept DEF TimelyTick, Tick, vars
<1>. QED BY <1>1, <1>2, <1>3, <1>4, <1>5, <1>6 DEF TimelyNext, Step

\* With timely heartbeats, and a lease longer than the clocks of two workers can be
\* apart, a job is claimed more than max_attempts times only for executions that
\* were lost to a crash, an error or a heartbeat loop that ended.
THEOREM AttemptsPaid ==
    ASSUME 2 * Skew <= LeaseDuration
    PROVE  TimelySpec => []AttemptsBounded
<1>1. Init => LatestAttemptOwnsLease /\ AttemptInv
  <2>1. Init => \A j \in Jobs : Unspent(j) = {} /\ Spare(j) = 0 /\ Requeues(attempts[j]) = 0
    BY JobAssumption DEF Init, Unspent, Spare, Requeues
  <2>. QED BY <2>1, FS_EmptySet DEF Init, LatestAttemptOwnsLease, AttemptInv, BeatInv, Account
<1>2. RowInv /\ LatestAttemptOwnsLease /\ AttemptInv /\ [TimelyNext]_vars
        => LatestAttemptOwnsLease' /\ AttemptInv'
  <2>. SUFFICES ASSUME RowInv, LatestAttemptOwnsLease, AttemptInv, [TimelyNext]_vars
                PROVE  LatestAttemptOwnsLease' /\ AttemptInv'
    OBVIOUS
  <2>1. RowInv'
    BY TimelyType
  <2>2. LatestAttemptOwnsLease'
    BY LatestStep DEF TimelyNext, TimelyTick, Next
  <2>3. BeatInv'
    BY BeatStep DEF AttemptInv
  <2>4. ASSUME NEW k \in Jobs PROVE Account(k)'
    BY <2>1, AccountStep DEF AttemptInv
  <2>. QED BY <2>2, <2>3, <2>4 DEF AttemptInv
<1>3. RowInv /\ AttemptInv => AttemptsBounded
  <2>. SUFFICES ASSUME RowInv, NEW j \in Jobs, Account(j)
                PROVE  attempts[j] <= MaxAttempts + faults + missed
    BY DEF AttemptInv, AttemptsBounded
  <2>1. Cardinality(Unspent(j)) \in Nat /\ Spare(j) \in {0, 1}
    BY FS_CardinalityType DEF Account, Spare
  <2>2. attempts[j] \in Nat /\ faults \in Nat /\ missed \in Nat /\ MaxAttempts \in Nat
    BY JobAssumption DEF RowInv, TypeOK
  <2>3. CASE attempts[j] < MaxAttempts
    BY <2>2, <2>3
  <2>4. CASE ~(attempts[j] < MaxAttempts)
    BY <2>1, <2>2, <2>4 DEF Account, Requeues
  <2>. QED BY <2>3, <2>4
<1>. QED BY <1>1, <1>2, <1>3, InitType, TimelyType, PTL DEF TimelySpec
=============================================================================
