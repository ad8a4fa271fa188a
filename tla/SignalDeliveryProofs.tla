------------------------ MODULE SignalDeliveryProofs ------------------------
(***************************************************************************)
(* Proofs about SignalDelivery, for any numbers of streams, workers,       *)
(* deliveries and administration requests, any lease and backoff, and any  *)
(* number of faults.                                                       *)
(***************************************************************************)
EXTENDS SignalDelivery, FiniteSetTheorems, WellFoundedInduction, TLAPS

\* The group has rows in its hands.
AtWork == {"start", "push", "save"}

\* Only a row that has attempts left is unsettled.
RowOK(r) ==
  /\ r.status \in Unsettled => r.attempts < MaxAttempts
  /\ r.status = "dead_letter" => r.attempts = MaxAttempts

\* A batch holds rows of its stream, as they were when they were due.
GroupOK(w, s) ==
  /\ send[w][s].batch # {} <=> send[w][s].step \in AtWork
  /\ \A c \in send[w][s].batch : /\ c.id <= lastID
                                 /\ c.row.stream = s
                                 /\ c.row.attempts < MaxAttempts

\* A request that is under way is about a stream.
RequestOK(a) == admin[a].op # "none" => admin[a].stream \in Streams

SigInv ==
  /\ TypeOK
  /\ \A d \in DOMAIN rows : RowOK(rows[d])
  /\ \A w \in Workers, s \in Streams : GroupOK(w, s)
  /\ \A a \in Admins : RequestOK(a)

-----------------------------------------------------------------------------
(* Operators. *)

\* A set of numbers that is not empty has a least element.
LEMMA LeastNumber ==
  ASSUME NEW T \in SUBSET Nat, T # {}
  PROVE  \E x \in T : \A y \in T : x <= y
<1>1. PICK x \in T : \A y \in T : ~ (<<y, x>> \in OpToRel(<, Nat))
  BY WFMin, NatLessThanWellFounded
<1>2. \A y \in T : ~ (<<y, x>> \in {ss \in Nat \X Nat : ss[1] < ss[2]})
  BY <1>1, Zenon DEF OpToRel
<1>3. ASSUME NEW y \in T PROVE x <= y
  <2>1. y \in Nat /\ x \in Nat /\ <<y, x>> \in Nat \X Nat
    OBVIOUS
  <2>2. <<y, x>>[1] = y /\ <<y, x>>[2] = x
    OBVIOUS
  <2>3. ~ (y < x)
    BY <1>2, <2>1, <2>2, Zenon
  <2>. QED BY <2>1, <2>3
<1>. QED BY <1>3

\* A batch that is not empty has a first row.
LEMMA FirstOfBatch ==
  ASSUME NEW b \in SUBSET [id : IDs, row : Row], b # {}
  PROVE  First(b) \in b
<1>. DEFINE T == {c.id : c \in b}
<1>1. T \in SUBSET Nat /\ T # {}
  BY DEF IDs
<1>2. \E x \in T : \A y \in T : x <= y
  BY <1>1, LeastNumber, Zenon
<1>3. \E c \in b : \A e \in b : c.id <= e.id
  BY <1>2
<1>. QED BY <1>3 DEF First

\* SetToSeq lists a finite set.
LEMMA SetToSeqLists ==
  ASSUME NEW S, IsFiniteSet(S)
  PROVE  /\ SetToSeq(S) \in [1..Cardinality(S) -> S]
         /\ Len(SetToSeq(S)) = Cardinality(S)
         /\ Cardinality(S) \in Nat
<1>1. PICK f \in [1..Cardinality(S) -> S] : IsInjective(f)
  BY FS_CardinalityType DEF ExistsBijection, Bijection, Injection
<1>2. SetToSeq(S) \in [1..Cardinality(S) -> S]
  BY <1>1 DEF SetToSeq
<1>3. Cardinality(S) \in Nat
  BY FS_CardinalityType
<1>. QED BY <1>2, <1>3

\* Creation: rows keep their types, the old ones stay, the new ones are pending
\* under identities that were never used.
LEMMA AppendRowsStep ==
  ASSUME TypeOK, NEW ss \in SUBSET Streams, AppendRows(ss)
  PROVE  /\ lastID' \in lastID..MaxDeliveries
         /\ DOMAIN rows' \subseteq 1..lastID'
         /\ \A d \in DOMAIN rows : d \in DOMAIN rows' /\ rows'[d] = rows[d]
         /\ \A d \in DOMAIN rows' \ DOMAIN rows :
               d > lastID /\ \E s \in Streams : rows'[d] = NewRow(s)
<1>1. IsFiniteSet(ss)
  BY DeliveryAssumption, FS_Subset
<1>2. PICK n \in Nat : n = Len(SetToSeq(ss)) /\ SetToSeq(ss) \in [1..n -> ss]
  BY <1>1, SetToSeqLists
<1>3. /\ lastID + 1 .. lastID + n \subseteq IDs
      /\ lastID' = lastID + n
      /\ rows' = [d \in DOMAIN rows \union (lastID + 1 .. lastID + n) |->
                    IF d \in lastID + 1 .. lastID + n THEN NewRow(SetToSeq(ss)[d - lastID]) ELSE rows[d]]
  BY <1>2 DEF AppendRows
<1>4. lastID \in Nat /\ MaxDeliveries \in Nat /\ lastID <= MaxDeliveries
  BY DeliveryAssumption DEF TypeOK
<1>5. lastID + n <= MaxDeliveries
  <2>1. CASE n = 0
    BY <1>4, <2>1
  <2>2. CASE n # 0
    <3>1. lastID + n \in lastID + 1 .. lastID + n
      BY <1>4, <2>2
    <3>. QED BY <1>3, <1>4, <3>1 DEF IDs
  <2>. QED BY <2>1, <2>2
<1>6. \A d \in DOMAIN rows : d \in 1..lastID
  BY DEF TypeOK
<1>7. \A d \in lastID + 1 .. lastID + n : SetToSeq(ss)[d - lastID] \in Streams /\ d > lastID
  BY <1>2, <1>4
<1>. QED BY <1>3, <1>4, <1>5, <1>6, <1>7

\* The row that deliverOne writes.
LEMMA OutcomeStep ==
  ASSUME TypeOK, NEW w \in Workers, NEW r \in Row, r.attempts < MaxAttempts, NEW ok \in BOOLEAN
  PROVE  /\ Outcome(w, r, ok) \in Row
         /\ RowOK(Outcome(w, r, ok))
         /\ Outcome(w, r, ok).attempts = r.attempts + 1
         /\ Outcome(w, r, ok).stream = r.stream
         /\ Outcome(w, r, ok).status = "delivered" <=> ok
<1>1. r.attempts \in Nat /\ r.attempts + 1 \in 0..MaxAttempts /\ MaxAttempts \in Nat
  BY DeliveryAssumption DEF Row
<1>2. NextAttemptDelay(r.attempts + 1) \in Int
  BY DeliveryAssumption DEF NextAttemptDelay
<1>3. age[w] \in Int
  BY DEF TypeOK
<1>4. ASSUME NEW st \in {"delivered", "dead_letter", "failed"}, NEW nx \in Nat,
             Outcome(w, r, ok) = [r EXCEPT !.status = st, !.attempts = r.attempts + 1, !.next = nx],
             st = "delivered" <=> ok,
             st = "dead_letter" => r.attempts + 1 = MaxAttempts,
             st = "failed" => r.attempts + 1 < MaxAttempts
      PROVE  /\ Outcome(w, r, ok) \in Row
             /\ RowOK(Outcome(w, r, ok))
             /\ Outcome(w, r, ok).attempts = r.attempts + 1
             /\ Outcome(w, r, ok).stream = r.stream
             /\ Outcome(w, r, ok).status = "delivered" <=> ok
  <2>. DEFINE q == [r EXCEPT !.status = st, !.attempts = r.attempts + 1, !.next = nx]
  <2>1. /\ q \in Row
        /\ q.status = st /\ q.attempts = r.attempts + 1 /\ q.stream = r.stream
    <3>1. ASSUME NEW x \in Row
          PROVE  /\ [x EXCEPT !.status = st] \in Row
                 /\ [x EXCEPT !.status = st].status = st
                 /\ [x EXCEPT !.status = st].stream = x.stream
      BY DEF Row, Unsettled
    <3>2. ASSUME NEW x \in Row
          PROVE  /\ [x EXCEPT !.attempts = r.attempts + 1] \in Row
                 /\ [x EXCEPT !.attempts = r.attempts + 1].attempts = r.attempts + 1
                 /\ [x EXCEPT !.attempts = r.attempts + 1].status = x.status
                 /\ [x EXCEPT !.attempts = r.attempts + 1].stream = x.stream
      BY <1>1 DEF Row
    <3>3. ASSUME NEW x \in Row
          PROVE  /\ [x EXCEPT !.next = nx] \in Row
                 /\ [x EXCEPT !.next = nx].attempts = x.attempts
                 /\ [x EXCEPT !.next = nx].status = x.status
                 /\ [x EXCEPT !.next = nx].stream = x.stream
      BY DEF Row
    <3>4. q = [[[r EXCEPT !.status = st] EXCEPT !.attempts = r.attempts + 1] EXCEPT !.next = nx]
      OBVIOUS
    <3>5. PICK x \in Row : x = [r EXCEPT !.status = st] /\ x.status = st /\ x.stream = r.stream
      BY <3>1
    <3>6. PICK y \in Row : /\ y = [x EXCEPT !.attempts = r.attempts + 1]
                           /\ y.attempts = r.attempts + 1 /\ y.status = st /\ y.stream = r.stream
      BY <3>2, <3>5
    <3>7. PICK z \in Row : /\ z = [y EXCEPT !.next = nx]
                           /\ z.attempts = r.attempts + 1 /\ z.status = st /\ z.stream = r.stream
      BY <3>3, <3>6
    <3>8. q = z
      BY <3>4, <3>5, <3>6, <3>7
    <3>. HIDE DEF q
    <3>. QED BY <3>7, <3>8
  <2>. HIDE DEF q
  <2>2. RowOK(q)
    BY <1>4, <2>1 DEF RowOK, Unsettled
  <2>3. Outcome(w, r, ok) = q
    BY <1>4 DEF q
  <2>. QED BY <1>4, <2>1, <2>2, <2>3
<1>5. CASE ok
  <2>1. Outcome(w, r, ok) = [r EXCEPT !.status = "delivered", !.attempts = r.attempts + 1, !.next = 0]
    BY <1>5 DEF Outcome
  <2>. QED BY <1>4, <1>5, <2>1
<1>6. CASE ~ ok /\ Exhausted(r.attempts + 1)
  <2>1. Outcome(w, r, ok) = [r EXCEPT !.status = "dead_letter", !.attempts = r.attempts + 1, !.next = 0]
    BY <1>6 DEF Outcome
  <2>2. r.attempts + 1 = MaxAttempts
    BY <1>1, <1>6 DEF Exhausted
  <2>. QED BY <1>4, <1>6, <2>1, <2>2
<1>7. CASE ~ ok /\ ~ Exhausted(r.attempts + 1)
  <2>. DEFINE left == NextAttemptDelay(r.attempts + 1) - age[w]
              nx == IF left > 0 THEN left ELSE 0
  <2>1. nx \in Nat
    BY <1>2, <1>3
  <2>2. Outcome(w, r, ok) = [r EXCEPT !.status = "failed", !.attempts = r.attempts + 1, !.next = nx]
    BY <1>7 DEF Outcome
  <2>3. r.attempts + 1 < MaxAttempts
    BY <1>1, <1>7 DEF Exhausted
  <2>. HIDE DEF nx
  <2>. QED BY <1>4, <1>7, <2>1, <2>2, <2>3
<1>. QED BY <1>5, <1>6, <1>7

\* One group changes, the others stay.
LEMMA SetGroup ==
  ASSUME send \in [Workers -> [Streams -> Group]], NEW w \in Workers, NEW s \in Streams,
         NEW g \in Group, send' = [send EXCEPT ![w][s] = g]
  PROVE  /\ send' \in [Workers -> [Streams -> Group]]
         /\ send'[w][s] = g
         /\ \A v \in Workers, t \in Streams : (v # w \/ t # s) => send'[v][t] = send[v][t]
OBVIOUS

\* The empty group is one.
LEMMA NoGroupType == NoGroup \in Group /\ NoGroup.batch = {} /\ NoGroup.step = "idle"
BY DEF NoGroup, Group

\* The bounds are numbers.
LEMMA Numbers ==
  /\ MaxDeliveries \in Nat /\ MaxFaults \in Nat /\ MaxRedeliveries \in Nat
  /\ AutoDisableElapsed \in Nat /\ QuotaLimit \in Nat
  /\ MaxAttempts \in Nat \ {0} /\ PerStream \in Nat \ {0} /\ Lease \in Nat \ {0}
  /\ BackoffBase \in Nat \ {0} /\ BackoffCap \in Nat \ {0} /\ AutoDisableFailures \in Nat \ {0}
  /\ MaxAge \in Nat /\ MaxAge >= Lease
BY DeliveryAssumption

-----------------------------------------------------------------------------
(* Types, and what rows, batches and requests look like. *)

\* A created row is one.
LEMMA NewRowType ==
  ASSUME NEW s \in Streams
  PROVE  /\ NewRow(s) \in Row /\ RowOK(NewRow(s))
         /\ NewRow(s).status = "pending" /\ NewRow(s).attempts = 0
BY Numbers DEF NewRow, Row, RowOK, Unsettled

\* A group whose rows are as they were, or that has none, keeps its shape.
LEMMA GroupKept ==
  ASSUME NEW w \in Workers, NEW s \in Streams, GroupOK(w, s),
         lastID \in Nat, lastID' \in Nat, lastID' >= lastID,
         \A c \in send[w][s].batch : c.id \in Nat,
         \/ send'[w][s] = send[w][s]
         \/ send'[w][s].batch = {} /\ send'[w][s].step \notin AtWork
  PROVE  GroupOK(w, s)'
BY DEF GroupOK

\* The identities of a batch are numbers.
LEMMA BatchType ==
  ASSUME TypeOK, NEW w \in Workers, NEW s \in Streams
  PROVE  /\ send[w][s] \in Group
         /\ send[w][s].batch \in SUBSET [id : IDs, row : Row]
         /\ \A c \in send[w][s].batch : c.id \in IDs /\ c.id \in Nat /\ c.row \in Row
<1>1. send[w][s] \in Group
  BY DEF TypeOK
<1>2. send[w][s].batch \in SUBSET [id : IDs, row : Row]
  BY <1>1 DEF Group
<1>3. \A c \in send[w][s].batch : c.id \in IDs /\ c.row \in Row
  BY <1>2
<1>. QED BY <1>1, <1>2, <1>3, Numbers DEF IDs

\* Creation of rows.
LEMMA CreateInv ==
  ASSUME SigInv, NEW ss \in SUBSET Streams, AppendRows(ss),
         UNCHANGED <<streamVars, age, send, admin, faults, redeliveries, history>>
  PROVE  SigInv'
<1>0. TypeOK
  BY DEF SigInv
<1>1. /\ lastID' \in lastID..MaxDeliveries
      /\ DOMAIN rows' \subseteq 1..lastID'
      /\ \A d \in DOMAIN rows : d \in DOMAIN rows' /\ rows'[d] = rows[d]
      /\ \A d \in DOMAIN rows' \ DOMAIN rows :
            d > lastID /\ \E s \in Streams : rows'[d] = NewRow(s)
  BY <1>0, AppendRowsStep
<1>2. lastID \in Nat /\ lastID' \in Nat /\ lastID' >= lastID /\ lastID' \in 0..MaxDeliveries
  BY <1>0, <1>1, Numbers DEF TypeOK
<1>3. \A d \in DOMAIN rows' : rows'[d] \in Row /\ RowOK(rows'[d])
  BY <1>0, <1>1, NewRowType DEF SigInv, TypeOK
<1>4. TypeOK'
  BY <1>0, <1>1, <1>2, <1>3 DEF TypeOK, streamVars, history
<1>5. ASSUME NEW w \in Workers, NEW s \in Streams PROVE GroupOK(w, s)'
  <2>1. \A c \in send[w][s].batch : c.id \in Nat
    BY <1>0, BatchType
  <2>. QED BY <1>2, <2>1, GroupKept DEF SigInv
<1>. QED BY <1>3, <1>4, <1>5 DEF SigInv, RequestOK

\* Steps that create no row and lease none: the groups stay or end, rows stay, go or
\* are written as they should be.
LEMMA QuietInv ==
  ASSUME SigInv, TypeOK', lastID' = lastID,
         \A d \in DOMAIN rows' : RowOK(rows'[d]),
         \A w \in Workers, s \in Streams :
            \/ send'[w][s] = send[w][s]
            \/ send'[w][s].batch = {} /\ send'[w][s].step \notin AtWork,
         \A a \in Admins : RequestOK(a)'
  PROVE  SigInv'
<1>0. TypeOK /\ lastID \in Nat
  BY DEF SigInv, TypeOK
<1>1. ASSUME NEW w \in Workers, NEW s \in Streams PROVE GroupOK(w, s)'
  <2>1. \A c \in send[w][s].batch : c.id \in Nat
    BY <1>0, BatchType
  <2>. QED BY <1>0, <2>1, GroupKept DEF SigInv
<1>. QED BY <1>1 DEF SigInv

\* What ClaimDue does to the rows and to the groups of the worker.
LEMMA ClaimShape ==
  ASSUME TypeOK, NEW w \in Workers, ClaimDue(w)
  PROVE  /\ DOMAIN rows' = DOMAIN rows
         /\ \A d \in DOMAIN rows :
              \/ rows'[d] = rows[d] /\ \A s \in Streams : d \notin Batch(s)
              \/ /\ \E s \in Streams : d \in Batch(s)
                 /\ rows'[d] = [rows[d] EXCEPT !.next = Lease]
         /\ send' \in [Workers -> [Streams -> Group]]
         /\ \A v \in Workers \ {w}, s \in Streams : send'[v][s] = send[v][s]
         /\ \A s \in Streams :
              /\ send'[w][s].batch = {[id |-> d, row |-> rows[d]] : d \in Batch(s)}
              /\ send'[w][s].step = IF Batch(s) = {} THEN "idle" ELSE "start"
         /\ age' = [age EXCEPT ![w] = 0]
         /\ UNCHANGED <<streamVars, lastID, admin, faults, redeliveries, history>>
<1>1. ASSUME NEW s \in Streams
      PROVE  /\ Batch(s) \subseteq DOMAIN rows
             /\ {[id |-> d, row |-> rows[d]] : d \in Batch(s)} \in SUBSET [id : IDs, row : Row]
  <2>1. \A d \in DOMAIN rows : d \in IDs /\ rows[d] \in Row
    BY Numbers DEF TypeOK, IDs
  <2>2. Batch(s) \subseteq DOMAIN rows
    BY DEF Batch
  <2>. QED BY <2>1, <2>2
<1>2. \A d \in DOMAIN rows :
        rows'[d] = IF d \in UNION {Batch(s) : s \in Streams}
                   THEN [rows[d] EXCEPT !.next = Lease] ELSE rows[d]
  BY DEF ClaimDue
<1>3. DOMAIN rows' = DOMAIN rows
  BY DEF ClaimDue
<1>. DEFINE G(s) == IF Batch(s) = {} THEN NoGroup
                    ELSE [step |-> "start", ok |-> FALSE,
                          batch |-> {[id |-> d, row |-> rows[d]] : d \in Batch(s)}]
<1>4. send' = [send EXCEPT ![w] = [s \in Streams |-> G(s)]]
  BY DEF ClaimDue
<1>5. ASSUME NEW s \in Streams
      PROVE  /\ G(s) \in Group
             /\ G(s).batch = {[id |-> d, row |-> rows[d]] : d \in Batch(s)}
             /\ G(s).step = IF Batch(s) = {} THEN "idle" ELSE "start"
  <2>1. CASE Batch(s) = {}
    BY <2>1, NoGroupType
  <2>2. CASE Batch(s) # {}
    BY <1>1, <2>2 DEF Group
  <2>. QED BY <2>1, <2>2
<1>. HIDE DEF G
<1>6. send \in [Workers -> [Streams -> Group]]
  BY DEF TypeOK
<1>7. /\ send' \in [Workers -> [Streams -> Group]]
      /\ \A v \in Workers \ {w}, s \in Streams : send'[v][s] = send[v][s]
      /\ \A s \in Streams : send'[w][s] = G(s)
  BY <1>4, <1>5, <1>6
<1>8. /\ age' = [age EXCEPT ![w] = 0]
      /\ UNCHANGED <<streamVars, lastID, admin, faults, redeliveries, history>>
  BY DEF ClaimDue
<1>. QED BY <1>2, <1>3, <1>5, <1>7, <1>8

\* Rows are claimed while they are unsettled and due.
LEMMA BatchDue ==
  ASSUME NEW s \in Streams, NEW d \in Batch(s)
  PROVE  /\ d \in DOMAIN rows /\ rows[d].stream = s
         /\ rows[d].status \in Unsettled /\ rows[d].next = 0
BY DEF Batch, Due

\* A lease moves the time of the next attempt and nothing else.
LEMMA LeasedRow ==
  ASSUME NEW r \in Row, NEW n \in Nat
  PROVE  /\ [r EXCEPT !.next = n] \in Row
         /\ [r EXCEPT !.next = n].next = n
         /\ [r EXCEPT !.next = n].status = r.status
         /\ [r EXCEPT !.next = n].attempts = r.attempts
         /\ [r EXCEPT !.next = n].stream = r.stream
         /\ RowOK(r) => RowOK([r EXCEPT !.next = n])
BY DEF Row, RowOK

\* ClaimDue keeps the shapes.
LEMMA ClaimInv ==
  ASSUME SigInv, NEW w \in Workers, ClaimDue(w)
  PROVE  SigInv'
<1>0. TypeOK
  BY DEF SigInv
<1>1. /\ DOMAIN rows' = DOMAIN rows
      /\ \A d \in DOMAIN rows : rows'[d] = rows[d] \/ rows'[d] = [rows[d] EXCEPT !.next = Lease]
      /\ send' \in [Workers -> [Streams -> Group]]
      /\ \A v \in Workers \ {w}, s \in Streams : send'[v][s] = send[v][s]
      /\ \A s \in Streams :
           /\ send'[w][s].batch = {[id |-> d, row |-> rows[d]] : d \in Batch(s)}
           /\ send'[w][s].step = IF Batch(s) = {} THEN "idle" ELSE "start"
      /\ age' = [age EXCEPT ![w] = 0]
      /\ UNCHANGED <<streamVars, lastID, admin, faults, redeliveries, history>>
  BY <1>0, ClaimShape
<1>2. \A d \in DOMAIN rows : rows[d] \in Row /\ RowOK(rows[d]) /\ d \in 1..lastID
  BY <1>0 DEF SigInv, TypeOK
<1>3. \A d \in DOMAIN rows' : rows'[d] \in Row /\ RowOK(rows'[d])
  <2>1. Lease \in Nat
    BY Numbers
  <2>. QED BY <1>1, <1>2, <2>1, LeasedRow
<1>4. TypeOK'
  BY <1>0, <1>1, <1>3, Numbers DEF TypeOK, streamVars, history
<1>5. ASSUME NEW v \in Workers, NEW s \in Streams PROVE GroupOK(v, s)'
  <2>1. CASE v # w
    <3>1. send'[v][s] = send[v][s]
      BY <1>1, <2>1
    <3>2. UNCHANGED lastID
      BY <1>1
    <3>. QED BY <3>1, <3>2 DEF SigInv, GroupOK
  <2>2. CASE v = w
    <3>1. send'[w][s].batch # {} <=> send'[w][s].step \in AtWork
      <4>1. CASE Batch(s) = {}
        <5>1. send'[w][s].batch = {} /\ send'[w][s].step = "idle"
          BY <1>1, <4>1
        <5>. QED BY <5>1 DEF AtWork
      <4>2. CASE Batch(s) # {}
        <5>1. PICK d \in Batch(s) : TRUE
          BY <4>2
        <5>2. [id |-> d, row |-> rows[d]] \in send'[w][s].batch
          BY <1>1, <5>1
        <5>3. send'[w][s].step = "start"
          BY <1>1, <4>2
        <5>. QED BY <5>2, <5>3 DEF AtWork
      <4>. QED BY <4>1, <4>2
    <3>2. ASSUME NEW c \in send'[w][s].batch
          PROVE  c.id <= lastID' /\ c.row.stream = s /\ c.row.attempts < MaxAttempts
      <4>1. PICK d \in Batch(s) : c = [id |-> d, row |-> rows[d]]
        BY <1>1, <3>2
      <4>2. d \in DOMAIN rows /\ rows[d].stream = s /\ rows[d].status \in Unsettled
        BY BatchDue
      <4>3. c.id = d /\ c.row = rows[d]
        BY <4>1
      <4>4. UNCHANGED lastID
        BY <1>1
      <4>. QED BY <1>2, <4>2, <4>3, <4>4 DEF RowOK
    <3>. QED BY <2>2, <3>1, <3>2 DEF GroupOK
  <2>. QED BY <2>1, <2>2
<1>6. \A a \in Admins : RequestOK(a)'
  BY <1>1 DEF SigInv, RequestOK
<1>. QED BY <1>3, <1>4, <1>5, <1>6 DEF SigInv

\* A group that ends.
LEMMA EndGroupShape ==
  ASSUME TypeOK, NEW w \in Workers, NEW s \in Streams, EndGroup(w, s)
  PROVE  /\ send' \in [Workers -> [Streams -> Group]]
         /\ send'[w][s] = NoGroup
         /\ \A v \in Workers, t \in Streams :
              \/ send'[v][t] = send[v][t]
              \/ send'[v][t].batch = {} /\ send'[v][t].step \notin AtWork
         /\ \A v \in Workers, t \in Streams : (v # w \/ t # s) => send'[v][t] = send[v][t]
<1>1. /\ send' \in [Workers -> [Streams -> Group]]
      /\ send'[w][s] = NoGroup
      /\ \A v \in Workers, t \in Streams : (v # w \/ t # s) => send'[v][t] = send[v][t]
  BY NoGroupType, SetGroup DEF EndGroup, TypeOK
<1>2. NoGroup.batch = {} /\ NoGroup.step \notin AtWork
  BY NoGroupType DEF AtWork
<1>. QED BY <1>1, <1>2

\* What StartStream does to the groups.
LEMMA StartShape ==
  ASSUME TypeOK, NEW w \in Workers, NEW s \in Streams, StartStream(w, s)
  PROVE  /\ send' \in [Workers -> [Streams -> Group]]
         /\ \A v \in Workers, t \in Streams : (v # w \/ t # s) => send'[v][t] = send[v][t]
         /\ \/ send'[w][s] = NoGroup
            \/ /\ send'[w][s].batch = send[w][s].batch
               /\ send'[w][s].step = "push"
         /\ send[w][s].step = "start"
         /\ UNCHANGED <<streamVars, rows, lastID, age, admin, faults, redeliveries, history>>
<1>1. CASE EndGroup(w, s)
  BY <1>1, EndGroupShape DEF StartStream
<1>2. CASE send' = [send EXCEPT ![w][s].step = "push"]
  <2>. DEFINE g == [send[w][s] EXCEPT !.step = "push"]
  <2>1. g \in Group /\ g.batch = send[w][s].batch /\ g.step = "push"
    BY BatchType DEF Group
  <2>2. send' = [send EXCEPT ![w][s] = g]
    BY <1>2
  <2>. HIDE DEF g
  <2>. QED BY <2>1, <2>2, SetGroup DEF StartStream, TypeOK
<1>. QED BY <1>1, <1>2 DEF StartStream

\* What Push does to the groups and to the history.
LEMMA PushShape ==
  ASSUME SigInv, NEW w \in Workers, NEW s \in Streams, Push(w, s)
  PROVE  /\ send' \in [Workers -> [Streams -> Group]]
         /\ \A v \in Workers, t \in Streams : (v # w \/ t # s) => send'[v][t] = send[v][t]
         /\ send'[w][s].batch = send[w][s].batch
         /\ send'[w][s].step = "save"
         /\ send[w][s].step = "push"
         /\ First(send[w][s].batch) \in send[w][s].batch
         /\ received \subseteq received' /\ received' \subseteq IDs
         /\ send'[w][s].ok => First(send[w][s].batch).id \in received'
         /\ accepted' \subseteq Streams
         /\ pushes' = [pushes EXCEPT ![First(send[w][s].batch).id] =
                         IF @ < MaxAttempts THEN @ + 1 ELSE @]
         /\ UNCHANGED <<streamVars, rows, lastID, age, admin, faults, redeliveries, late>>
<1>0. TypeOK /\ GroupOK(w, s)
  BY DEF SigInv
<1>1. First(send[w][s].batch) \in send[w][s].batch
  <2>1. send[w][s].batch # {}
    BY <1>0 DEF Push, GroupOK, AtWork
  <2>. QED BY <1>0, <2>1, BatchType, FirstOfBatch
<1>2. First(send[w][s].batch).id \in IDs
  BY <1>0, <1>1, BatchType
<1>3. PICK ok \in BOOLEAN, taken \in BOOLEAN :
        /\ ok => taken
        /\ send' = [send EXCEPT ![w][s].step = "save", ![w][s].ok = ok]
        /\ received' = IF taken THEN received \union {First(send[w][s].batch).id} ELSE received
        /\ accepted' = IF ok /\ stream[s].first # Never THEN accepted \union {s} ELSE accepted
  BY DEF Push
<1>. DEFINE g == [[send[w][s] EXCEPT !.step = "save"] EXCEPT !.ok = ok]
<1>4. g \in Group /\ g.batch = send[w][s].batch /\ g.step = "save" /\ g.ok = ok
  BY <1>0, BatchType DEF Group
<1>5. send' = [send EXCEPT ![w][s] = g]
  BY <1>0, <1>3 DEF TypeOK
<1>. HIDE DEF g
<1>6. /\ send' \in [Workers -> [Streams -> Group]]
      /\ send'[w][s] = g
      /\ \A v \in Workers, t \in Streams : (v # w \/ t # s) => send'[v][t] = send[v][t]
  BY <1>0, <1>4, <1>5, SetGroup DEF TypeOK
<1>7. received \subseteq received' /\ received' \subseteq IDs /\ accepted' \subseteq Streams
  BY <1>0, <1>2, <1>3 DEF TypeOK
<1>8. send'[w][s].ok => First(send[w][s].batch).id \in received'
  BY <1>3, <1>4, <1>6
<1>9. /\ send[w][s].step = "push"
      /\ pushes' = [pushes EXCEPT ![First(send[w][s].batch).id] =
                         IF @ < MaxAttempts THEN @ + 1 ELSE @]
      /\ UNCHANGED <<streamVars, rows, lastID, age, admin, faults, redeliveries, late>>
  BY DEF Push
<1>. QED BY <1>1, <1>4, <1>6, <1>7, <1>8, <1>9

\* What SaveOutcome does: the row goes as the stream does, or is written from the row
\* that was claimed, and leaves the batch.
LEMMA SaveShape ==
  ASSUME SigInv, NEW w \in Workers, NEW s \in Streams, SaveOutcome(w, s)
  PROVE  \E c \in send[w][s].batch :
         /\ c = First(send[w][s].batch)
         /\ send[w][s].step = "save"
         /\ send' \in [Workers -> [Streams -> Group]]
         /\ \A v \in Workers, t \in Streams : (v # w \/ t # s) => send'[v][t] = send[v][t]
         /\ \/ send'[w][s] = NoGroup /\ UNCHANGED rows
            \/ /\ rows' = [d \in DOMAIN rows \union {c.id} |->
                             IF d = c.id THEN Outcome(w, c.row, send[w][s].ok) ELSE rows[d]]
               /\ send'[w][s].batch \subseteq send[w][s].batch \ {c}
               /\ \/ send'[w][s].batch = {} /\ send'[w][s].step \in {"failed", "succeeded"}
                  \/ send'[w][s].batch # {} /\ send'[w][s].step = "push"
         /\ UNCHANGED <<streamVars, lastID, age, admin, faults, redeliveries, history>>
<1>0. TypeOK /\ GroupOK(w, s)
  BY DEF SigInv
<1>. DEFINE g == send[w][s]
<1>1. g \in Group /\ g.batch \in SUBSET [id : IDs, row : Row]
  BY <1>0, BatchType
<1>2. g.step = "save" /\ \E c \in g.batch : c = First(g.batch)
  <2>1. g.step = "save"
    BY DEF SaveOutcome
  <2>2. g.batch # {}
    BY <1>0, <2>1 DEF GroupOK, AtWork
  <2>. QED BY <1>1, <2>1, <2>2, FirstOfBatch
<1>c. PICK c \in g.batch : c = First(g.batch)
  BY <1>2
<1>3. UNCHANGED <<streamVars, lastID, age, admin, faults, redeliveries, history>>
  BY DEF SaveOutcome
<1>4. CASE ~ Exists(s)
  <2>1. EndGroup(w, s) /\ UNCHANGED rows
    BY <1>4 DEF SaveOutcome
  <2>2. /\ send' \in [Workers -> [Streams -> Group]]
        /\ send'[w][s] = NoGroup
        /\ \A v \in Workers, t \in Streams : (v # w \/ t # s) => send'[v][t] = send[v][t]
    BY <1>0, <2>1, EndGroupShape
  <2>. QED BY <1>2, <1>c, <1>3, <2>1, <2>2
<1>5. CASE Exists(s)
  <2>. DEFINE h == CASE ~ g.ok -> [step |-> "failed", batch |-> {}, ok |-> FALSE]
                     [] g.ok /\ g.batch = {c} ->
                          [step |-> "succeeded", batch |-> {}, ok |-> FALSE]
                     [] OTHER -> [step |-> "push", batch |-> g.batch \ {c}, ok |-> FALSE]
  <2>1. /\ rows' = [d \in DOMAIN rows \union {c.id} |->
                      IF d = c.id THEN Outcome(w, c.row, g.ok) ELSE rows[d]]
        /\ send' = [send EXCEPT ![w][s] = h]
    BY <1>5, <1>c DEF SaveOutcome
  <2>2. /\ h \in Group
        /\ h.batch \subseteq g.batch \ {c}
        /\ \/ h.batch = {} /\ h.step \in {"failed", "succeeded"}
           \/ h.batch # {} /\ h.step = "push"
    <3>1. CASE ~ g.ok
      <4>1. h = [step |-> "failed", batch |-> {}, ok |-> FALSE]
        BY <3>1
      <4>. HIDE DEF h
      <4>. QED BY <4>1 DEF Group
    <3>2. CASE g.ok /\ g.batch = {c}
      <4>1. h = [step |-> "succeeded", batch |-> {}, ok |-> FALSE]
        BY <3>2
      <4>. HIDE DEF h
      <4>. QED BY <4>1 DEF Group
    <3>3. CASE g.ok /\ g.batch # {c}
      <4>1. h = [step |-> "push", batch |-> g.batch \ {c}, ok |-> FALSE]
        BY <3>3
      <4>2. g.batch \ {c} # {} /\ g.batch \ {c} \in SUBSET [id : IDs, row : Row]
        BY <1>1, <1>2, <3>3
      <4>. HIDE DEF h, g
      <4>. QED BY <4>1, <4>2 DEF Group
    <3>. QED BY <3>1, <3>2, <3>3
  <2>. HIDE DEF h
  <2>3. /\ send' \in [Workers -> [Streams -> Group]]
        /\ send'[w][s] = h
        /\ \A v \in Workers, t \in Streams : (v # w \/ t # s) => send'[v][t] = send[v][t]
    BY <1>0, <2>1, <2>2, SetGroup DEF TypeOK
  <2>. QED BY <1>2, <1>c, <1>3, <2>1, <2>2, <2>3
<1>. QED BY <1>4, <1>5

\* StartStream keeps the shapes.
LEMMA StartInv ==
  ASSUME SigInv, NEW w \in Workers, NEW s \in Streams, StartStream(w, s)
  PROVE  SigInv'
<1>0. TypeOK
  BY DEF SigInv
<1>1. /\ send' \in [Workers -> [Streams -> Group]]
      /\ \A v \in Workers, t \in Streams : (v # w \/ t # s) => send'[v][t] = send[v][t]
      /\ \/ send'[w][s] = NoGroup
         \/ /\ send'[w][s].batch = send[w][s].batch
            /\ send'[w][s].step = "push"
      /\ send[w][s].step = "start"
      /\ UNCHANGED <<streamVars, rows, lastID, age, admin, faults, redeliveries, history>>
  BY <1>0, StartShape
<1>2. TypeOK'
  BY <1>0, <1>1 DEF TypeOK, streamVars, history
<1>3. ASSUME NEW v \in Workers, NEW t \in Streams PROVE GroupOK(v, t)'
  BY <1>1, NoGroupType DEF SigInv, GroupOK, AtWork
<1>. QED BY <1>1, <1>2, <1>3 DEF SigInv, RequestOK

\* A push keeps the shapes.
LEMMA PushInv ==
  ASSUME SigInv, NEW w \in Workers, NEW s \in Streams, Push(w, s)
  PROVE  SigInv'
<1>0. TypeOK
  BY DEF SigInv
<1>1. /\ send' \in [Workers -> [Streams -> Group]]
      /\ \A v \in Workers, t \in Streams : (v # w \/ t # s) => send'[v][t] = send[v][t]
      /\ send'[w][s].batch = send[w][s].batch
      /\ send'[w][s].step = "save"
      /\ send[w][s].step = "push"
      /\ First(send[w][s].batch) \in send[w][s].batch
      /\ received' \subseteq IDs /\ accepted' \subseteq Streams
      /\ pushes' = [pushes EXCEPT ![First(send[w][s].batch).id] =
                      IF @ < MaxAttempts THEN @ + 1 ELSE @]
      /\ UNCHANGED <<streamVars, rows, lastID, age, admin, faults, redeliveries, late>>
  BY PushShape
<1>2. pushes' \in [IDs -> 0..MaxAttempts]
  <2>1. PICK d \in IDs : d = First(send[w][s].batch).id
    BY <1>0, <1>1, BatchType
  <2>2. pushes' = [pushes EXCEPT ![d] = IF @ < MaxAttempts THEN @ + 1 ELSE @]
    BY <1>1, <2>1
  <2>3. pushes \in [IDs -> 0..MaxAttempts]
    BY <1>0 DEF TypeOK
  <2>. QED BY <2>2, <2>3, Numbers
<1>3. TypeOK'
  BY <1>0, <1>1, <1>2 DEF TypeOK, streamVars
<1>4. ASSUME NEW v \in Workers, NEW t \in Streams PROVE GroupOK(v, t)'
  BY <1>1 DEF SigInv, GroupOK, AtWork
<1>. QED BY <1>1, <1>3, <1>4 DEF SigInv, RequestOK

\* SaveOutcome keeps the shapes.
LEMMA SaveInv ==
  ASSUME SigInv, NEW w \in Workers, NEW s \in Streams, SaveOutcome(w, s)
  PROVE  SigInv'
<1>0. TypeOK /\ GroupOK(w, s)
  BY DEF SigInv
<1>2. PICK c \in send[w][s].batch :
      /\ send[w][s].step = "save"
      /\ send' \in [Workers -> [Streams -> Group]]
      /\ \A v \in Workers, t \in Streams : (v # w \/ t # s) => send'[v][t] = send[v][t]
      /\ \/ send'[w][s] = NoGroup /\ UNCHANGED rows
         \/ /\ rows' = [d \in DOMAIN rows \union {c.id} |->
                          IF d = c.id THEN Outcome(w, c.row, send[w][s].ok) ELSE rows[d]]
            /\ send'[w][s].batch \subseteq send[w][s].batch \ {c}
            /\ \/ send'[w][s].batch = {} /\ send'[w][s].step \in {"failed", "succeeded"}
               \/ send'[w][s].batch # {} /\ send'[w][s].step = "push"
      /\ UNCHANGED <<streamVars, lastID, age, admin, faults, redeliveries, history>>
  BY SaveShape
<1>3. c.id \in 1..lastID /\ c.row \in Row /\ c.row.attempts < MaxAttempts
  <2>1. c.id \in IDs /\ c.row \in Row /\ c.id <= lastID /\ c.row.attempts < MaxAttempts
    BY <1>0, BatchType DEF GroupOK
  <2>2. lastID \in Nat /\ MaxDeliveries \in Nat
    BY <1>0, Numbers DEF TypeOK
  <2>3. c.id \in 1..lastID
    BY <2>1, <2>2 DEF IDs
  <2>. QED BY <2>1, <2>3
<1>4. send[w][s].ok \in BOOLEAN
  BY <1>0, BatchType DEF Group
<1>5. \A d \in DOMAIN rows' : d \in 1..lastID /\ rows'[d] \in Row /\ RowOK(rows'[d])
  <2>1. Outcome(w, c.row, send[w][s].ok) \in Row /\ RowOK(Outcome(w, c.row, send[w][s].ok))
    BY <1>0, <1>3, <1>4, OutcomeStep
  <2>2. \A d \in DOMAIN rows : d \in 1..lastID /\ rows[d] \in Row /\ RowOK(rows[d])
    BY <1>0 DEF SigInv, TypeOK
  <2>. QED BY <1>2, <1>3, <2>1, <2>2
<1>6. TypeOK'
  BY <1>0, <1>2, <1>5 DEF TypeOK, streamVars, history
<1>7. ASSUME NEW v \in Workers, NEW t \in Streams PROVE GroupOK(v, t)'
  <2>1. CASE v # w \/ t # s
    BY <1>2, <2>1 DEF SigInv, GroupOK
  <2>2. CASE v = w /\ t = s
    <3>1. send'[w][s].batch \subseteq send[w][s].batch
      BY <1>2, NoGroupType
    <3>2. send'[w][s].batch # {} <=> send'[w][s].step \in AtWork
      BY <1>2, NoGroupType DEF AtWork
    <3>. QED BY <1>0, <1>2, <2>2, <3>1, <3>2 DEF GroupOK
  <2>. QED BY <2>1, <2>2
<1>. QED BY <1>2, <1>5, <1>6, <1>7 DEF SigInv, RequestOK

\* Every state of a stream that a statement writes is one.
StreamRow == [state : {"absent", "enabled", "disabled", "deleted"},
              failures : 0..AutoDisableFailures,
              first : Never..(AutoDisableElapsed + MaxAge)]

\* Failures are cleared.
LEMMA ClearType ==
  ASSUME stream \in [Streams -> StreamRow], NEW s \in Streams, ClearFailures(s)
  PROVE  stream' \in [Streams -> StreamRow] /\ accepted' \subseteq accepted
<1>1. 0 \in 0..AutoDisableFailures /\ Never \in Never..(AutoDisableElapsed + MaxAge)
  BY Numbers DEF Never
<1>2. [[stream[s] EXCEPT !.failures = 0] EXCEPT !.first = Never] \in StreamRow
  BY <1>1 DEF StreamRow
<1>3. stream' = [stream EXCEPT ![s] = [[stream[s] EXCEPT !.failures = 0] EXCEPT !.first = Never]]
  BY DEF ClearFailures
<1>. QED BY <1>2, <1>3 DEF ClearFailures

\* The ends of a group keep the shapes.
LEMMA RecordInv ==
  ASSUME SigInv, NEW w \in Workers, NEW s \in Streams,
         RecordDeliverySuccess(w, s) \/ RecordDeliveryFailure(w, s) \/ Abandon(w, s)
  PROVE  SigInv'
<1>0. TypeOK /\ stream \in [Streams -> StreamRow]
  BY DEF SigInv, TypeOK, StreamRow
<1>1. EndGroup(w, s)
  BY DEF RecordDeliverySuccess, RecordDeliveryFailure, Abandon
<1>2. /\ send' \in [Workers -> [Streams -> Group]]
      /\ \A v \in Workers, t \in Streams :
           \/ send'[v][t] = send[v][t]
           \/ send'[v][t].batch = {} /\ send'[v][t].step \notin AtWork
  BY <1>0, <1>1, EndGroupShape
<1>3. stream' \in [Streams -> StreamRow] /\ accepted' \subseteq accepted
  <2>1. CASE RecordDeliverySuccess(w, s)
    BY <1>0, <2>1, ClearType DEF RecordDeliverySuccess
  <2>2. CASE RecordDeliveryFailure(w, s)
    <3>. DEFINE n == stream[s].failures + 1
                elapsed == IF stream[s].first = Never THEN 0 ELSE stream[s].first - age[w]
                new == [state |-> IF Disables(s, n, elapsed) THEN "disabled" ELSE stream[s].state,
                        failures |-> IF n > AutoDisableFailures THEN AutoDisableFailures ELSE n,
                        first |-> IF stream[s].first = Never THEN age[w] ELSE stream[s].first]
    <3>1. age[w] \in 0..MaxAge
      BY <1>0 DEF TypeOK
    <3>2. age[w] \in Never..(AutoDisableElapsed + MaxAge)
      BY <3>1, Numbers DEF Never
    <3>3. new \in StreamRow
      <4>1. stream[s] \in StreamRow
        BY <1>0
      <4>2. n \in Nat /\ n >= 0
        BY <4>1 DEF StreamRow
      <4>3. (IF n > AutoDisableFailures THEN AutoDisableFailures ELSE n) \in 0..AutoDisableFailures
        BY <4>2, Numbers
      <4>. HIDE DEF n, elapsed
      <4>. QED BY <3>2, <4>1, <4>3 DEF StreamRow
    <3>4. stream' = stream \/ stream' = [stream EXCEPT ![s] = new]
      BY <2>2 DEF RecordDeliveryFailure
    <3>. HIDE DEF new
    <3>. QED BY <1>0, <2>2, <3>3, <3>4 DEF RecordDeliveryFailure, history
  <2>3. CASE Abandon(w, s)
    BY <1>0, <2>3 DEF Abandon, streamVars, history
  <2>. QED BY <2>1, <2>2, <2>3
<1>4. /\ UNCHANGED <<config, usage, rows, lastID, age, admin, redeliveries, received, pushes, late>>
      /\ faults' \in 0..MaxFaults
  BY <1>0, Numbers DEF RecordDeliverySuccess, RecordDeliveryFailure, Abandon, streamVars, history, TypeOK
<1>5. TypeOK'
  BY <1>0, <1>2, <1>3, <1>4 DEF TypeOK, StreamRow
<1>. QED BY <1>2, <1>4, <1>5, QuietInv DEF SigInv, RequestOK

\* Requests that are read, given up or answered.
LEMMA RequestType ==
  ASSUME admin \in [Admins -> Request], \A a \in Admins : RequestOK(a), NEW a \in Admins
  PROVE  /\ Answer(a) => admin' \in [Admins -> Request] /\ \A b \in Admins : RequestOK(b)'
         /\ \A op \in {"register", "status", "update", "delete", "redeliver"},
               s \in Streams, st \in {"enabled", "disabled"} :
              Await(a, op, s, st)
                => admin' \in [Admins -> Request] /\ \A b \in Admins : RequestOK(b)'
         /\ \A op \in {"clear", "drop"} :
              admin[a].op # "none" /\ admin' = [admin EXCEPT ![a].op = op]
                => admin' \in [Admins -> Request] /\ \A b \in Admins : RequestOK(b)'
<1>1. ASSUME Answer(a) PROVE admin' \in [Admins -> Request] /\ \A b \in Admins : RequestOK(b)'
  <2>1. NoRequest \in Request /\ NoRequest.op = "none"
    BY DEF NoRequest, Request
  <2>. QED BY <1>1, <2>1 DEF Answer, RequestOK
<1>2. ASSUME NEW op \in {"register", "status", "update", "delete", "redeliver"},
             NEW s \in Streams, NEW st \in {"enabled", "disabled"}, Await(a, op, s, st)
      PROVE  admin' \in [Admins -> Request] /\ \A b \in Admins : RequestOK(b)'
  <2>. DEFINE q == [op |-> op, stream |-> s, status |-> st]
  <2>1. q \in Request /\ q.stream = s
    BY DEF Request
  <2>2. admin' = [admin EXCEPT ![a] = q]
    BY <1>2 DEF Await
  <2>. HIDE DEF q
  <2>. QED BY <2>1, <2>2 DEF RequestOK
<1>3. ASSUME NEW op \in {"clear", "drop"}, admin[a].op # "none",
             admin' = [admin EXCEPT ![a].op = op]
      PROVE  admin' \in [Admins -> Request] /\ \A b \in Admins : RequestOK(b)'
  <2>. DEFINE q == [admin[a] EXCEPT !.op = op]
  <2>1. q \in Request /\ q.stream = admin[a].stream
    BY DEF Request
  <2>2. admin' = [admin EXCEPT ![a] = q]
    BY <1>3
  <2>. HIDE DEF q
  <2>. QED BY <1>3, <2>1, <2>2 DEF RequestOK
<1>. QED BY <1>1, <1>2, <1>3

\* Reading requests keep the shapes.
LEMMA AskInv ==
  ASSUME SigInv, NEW a \in Admins, NEW s \in Streams, Ask(a, s)
  PROVE  SigInv'
<1>0. TypeOK
  BY DEF SigInv
<1>1. /\ admin \in [Admins -> Request]
      /\ \A b \in Admins : RequestOK(b)
  BY <1>0 DEF SigInv, TypeOK
<1>2. \E op \in {"register", "status", "update", "delete", "redeliver"},
         st \in {"enabled", "disabled"} : Await(a, op, s, st)
  <2>1. CASE Reserve(a, s) \/ ReadForDelete(a, s) \/ ReadForRedelivery(a, s)
    BY <2>1 DEF Reserve, ReadForDelete, ReadForRedelivery
  <2>2. CASE ReadForUpdate(a, s)
    <3>1. stream[s].state \in {"enabled", "disabled"} /\ Await(a, "update", s, stream[s].state)
      BY <2>2 DEF ReadForUpdate, Exists
    <3>. QED BY <3>1
  <2>3. ASSUME NEW st \in {"enabled", "disabled"}, ReadForStatus(a, s, st)
        PROVE  \E op \in {"register", "status", "update", "delete", "redeliver"},
                  stt \in {"enabled", "disabled"} : Await(a, op, s, stt)
    BY <2>3 DEF ReadForStatus
  <2>. QED BY <2>1, <2>2, <2>3 DEF Ask
<1>3. admin' \in [Admins -> Request] /\ \A b \in Admins : RequestOK(b)'
  BY <1>1, <1>2, RequestType
<1>4. /\ UNCHANGED <<stream, config, rows, lastID, age, send, faults, received, late, pushes, accepted>>
      /\ usage' \in 0..QuotaLimit /\ redeliveries' \in 0..MaxRedeliveries
  BY <1>0, Numbers DEF Ask, Reserve, ReadForUpdate, ReadForDelete, ReadForRedelivery, ReadForStatus,
     TypeOK, streamVars, unchangedByAdmin
<1>5. TypeOK'
  BY <1>0, <1>3, <1>4 DEF TypeOK
<1>. QED BY <1>3, <1>4, <1>5, QuietInv DEF SigInv

\* Writing requests keep the shapes.
LEMMA ServeInv ==
  ASSUME SigInv, NEW a \in Admins, Serve(a) \/ GiveUp(a)
  PROVE  SigInv'
<1>0. TypeOK /\ stream \in [Streams -> StreamRow]
  BY DEF SigInv, TypeOK, StreamRow
<1>1. /\ admin \in [Admins -> Request]
      /\ \A b \in Admins : RequestOK(b)
      /\ RequestOK(a) /\ admin[a] \in Request
  BY <1>0 DEF SigInv, TypeOK
<1>2. \/ Answer(a)
      \/ \E op \in {"clear", "drop"} :
           admin[a].op # "none" /\ admin' = [admin EXCEPT ![a].op = op]
  BY DEF Serve, GiveUp, Register, SaveStream, ClearOnEnable, DeleteConfig, DeleteStream, Redeliver,
     Answer, Doing
<1>3. admin' \in [Admins -> Request] /\ \A b \in Admins : RequestOK(b)'
  BY <1>1, <1>2, RequestType
<1>4. Serve(a) => admin[a].stream \in Streams
  BY <1>1 DEF RequestOK, Serve, Register, SaveStream, ClearOnEnable, DeleteConfig, DeleteStream,
     Redeliver, Doing
<1>5. UNCHANGED <<lastID, age, send, redeliveries, received, late>>
  BY DEF Serve, GiveUp, Register, SaveStream, ClearOnEnable, DeleteConfig, DeleteStream, Redeliver,
     streamVars, history, unchangedByAdmin
<1>6. /\ faults' \in 0..MaxFaults /\ usage' \in 0..QuotaLimit
      /\ config' \subseteq Streams /\ accepted' \subseteq Streams
  <2>1. faults' \in 0..MaxFaults
    BY <1>0, Numbers DEF Serve, GiveUp, Register, SaveStream, ClearOnEnable, DeleteConfig,
       DeleteStream, Redeliver, streamVars, history, unchangedByAdmin, TypeOK
  <2>2. usage' \in 0..QuotaLimit
    BY <1>0, Numbers DEF Serve, GiveUp, Register, SaveStream, ClearOnEnable, DeleteConfig,
       DeleteStream, Redeliver, ReleaseSlot, streamVars, history, unchangedByAdmin, TypeOK
  <2>3. config' \subseteq Streams
    BY <1>0, <1>4 DEF Serve, GiveUp, Register, SaveStream, ClearOnEnable, DeleteConfig,
       DeleteStream, Redeliver, streamVars, history, unchangedByAdmin, TypeOK
  <2>4. accepted' \subseteq Streams
    BY <1>0, <1>4 DEF Serve, GiveUp, Register, SaveStream, ClearOnEnable, ClearFailures,
       DeleteConfig, DeleteStream, Redeliver, streamVars, history, unchangedByAdmin, TypeOK
  <2>. QED BY <2>1, <2>2, <2>3, <2>4
<1>7. stream' \in [Streams -> StreamRow]
  <2>1. ASSUME NEW st \in {"enabled", "disabled"}, admin[a].stream \in Streams
        PROVE  [stream EXCEPT ![admin[a].stream].state = st] \in [Streams -> StreamRow]
    <3>1. [stream[admin[a].stream] EXCEPT !.state = st] \in StreamRow
      BY <1>0, <2>1 DEF StreamRow
    <3>. QED BY <1>0, <2>1, <3>1
  <2>2. CASE Register(a)
    BY <1>0, <1>4, <2>1, <2>2 DEF Register, Serve
  <2>3. CASE SaveStream(a)
    <3>1. admin[a].status \in {"enabled", "disabled"}
      BY <1>1 DEF Request
    <3>. QED BY <1>4, <2>1, <2>3, <3>1 DEF SaveStream, Serve
  <2>4. CASE ClearOnEnable(a)
    BY <1>0, <1>4, <2>4, ClearType DEF ClearOnEnable, Serve
  <2>5. CASE DeleteStream(a)
    <3>1. [state |-> "deleted", failures |-> 0, first |-> Never] \in StreamRow
      BY Numbers DEF StreamRow, Never
    <3>. QED BY <1>0, <2>5, <3>1 DEF DeleteStream
  <2>6. CASE GiveUp(a) \/ DeleteConfig(a) \/ Redeliver(a)
    BY <1>0, <2>6 DEF GiveUp, DeleteConfig, Redeliver, streamVars
  <2>. QED BY <2>2, <2>3, <2>4, <2>5, <2>6 DEF Serve
<1>8. /\ DOMAIN rows' \subseteq DOMAIN rows
      /\ \A d \in DOMAIN rows' : rows'[d] = rows[d] \/ rows'[d] = NewRow(rows[d].stream)
  BY DEF Serve, GiveUp, Register, SaveStream, ClearOnEnable, DeleteConfig, DeleteStream, Redeliver
<1>9. \A d \in DOMAIN rows' : rows'[d] \in Row /\ RowOK(rows'[d])
  <2>1. \A d \in DOMAIN rows : rows[d] \in Row /\ RowOK(rows[d]) /\ rows[d].stream \in Streams
    BY <1>0 DEF SigInv, TypeOK, Row
  <2>. QED BY <1>8, <2>1, NewRowType
<1>10. pushes' \in [IDs -> 0..MaxAttempts]
  <2>1. CASE Redeliver(a)
    BY <1>0, <2>1, Numbers DEF Redeliver, TypeOK
  <2>2. CASE ~ Redeliver(a)
    BY <1>0, <2>2 DEF Serve, GiveUp, Register, SaveStream, ClearOnEnable, DeleteConfig,
       DeleteStream, history, TypeOK
  <2>. QED BY <2>1, <2>2
<1>11. TypeOK'
  BY <1>0, <1>3, <1>5, <1>6, <1>7, <1>8, <1>9, <1>10 DEF TypeOK, StreamRow
<1>. QED BY <1>3, <1>5, <1>9, <1>11, QuietInv

\* The sweep keeps the shapes.
LEMMA PurgeInv ==
  ASSUME SigInv, PurgeSettled
  PROVE  SigInv'
<1>0. TypeOK
  BY DEF SigInv
<1>1. /\ DOMAIN rows' \subseteq DOMAIN rows
      /\ \A d \in DOMAIN rows' : rows'[d] = rows[d]
      /\ UNCHANGED <<streamVars, lastID, age, send, admin, faults, redeliveries, history>>
  BY DEF PurgeSettled
<1>2. TypeOK'
  BY <1>0, <1>1 DEF TypeOK, streamVars, history
<1>. QED BY <1>1, <1>2, QuietInv DEF SigInv, RequestOK

\* Time keeps the shapes.
LEMMA TickInv ==
  ASSUME SigInv, Tick
  PROVE  SigInv'
<1>0. TypeOK /\ stream \in [Streams -> StreamRow]
  BY DEF SigInv, TypeOK, StreamRow
<1>1. /\ DOMAIN rows' = DOMAIN rows
      /\ \A d \in DOMAIN rows :
           rows'[d] = [rows[d] EXCEPT !.next = IF rows[d].next > 0 THEN rows[d].next - 1 ELSE 0]
  BY DEF Tick
<1>2. \A d \in DOMAIN rows' : rows'[d] \in Row /\ RowOK(rows'[d])
  <2>1. ASSUME NEW d \in DOMAIN rows PROVE rows'[d] \in Row /\ RowOK(rows'[d])
    <3>1. rows[d] \in Row /\ RowOK(rows[d])
      BY <1>0 DEF SigInv, TypeOK
    <3>2. PICK n \in Nat : n = IF rows[d].next > 0 THEN rows[d].next - 1 ELSE 0
      BY <3>1 DEF Row
    <3>3. rows'[d] = [rows[d] EXCEPT !.next = n]
      BY <1>1, <3>2
    <3>. QED BY <3>1, <3>3, LeasedRow
  <2>. QED BY <1>1, <2>1
<1>3. stream' \in [Streams -> StreamRow]
  <2>1. ASSUME NEW s \in Streams, stream[s].first \in 0..(AutoDisableElapsed + MaxAge - 1)
        PROVE  [stream[s] EXCEPT !.first = @ + 1] \in StreamRow
    <3>1. stream[s].first + 1 \in Never..(AutoDisableElapsed + MaxAge)
      BY <2>1, Numbers DEF Never
    <3>. QED BY <1>0, <3>1 DEF StreamRow
  <2>2. \A s \in Streams : stream[s] \in StreamRow
    BY <1>0
  <2>. QED BY <2>1, <2>2 DEF Tick
<1>4. age' \in [Workers -> 0..MaxAge]
  BY <1>0, Numbers DEF Tick, TypeOK
<1>5. UNCHANGED <<config, usage, lastID, send, admin, faults, redeliveries, received, pushes, accepted>>
  BY DEF Tick
<1>6. late' \in BOOLEAN
  BY <1>0 DEF Tick, TypeOK
<1>7. TypeOK'
  BY <1>0, <1>1, <1>2, <1>3, <1>4, <1>5, <1>6 DEF TypeOK, StreamRow
<1>. QED BY <1>2, <1>5, <1>7, QuietInv DEF SigInv, RequestOK

\* Every step keeps the types and the shapes of rows, batches and requests.
LEMMA SigStep == SigInv /\ [Next]_vars => SigInv'
<1>. SUFFICES ASSUME SigInv, [Next]_vars PROVE SigInv'
  OBVIOUS
<1>1. CASE CaptureAuditEvent
  <2>1. {s \in Streams : Enabled(s)} \in SUBSET Streams
    OBVIOUS
  <2>. QED BY <1>1, <2>1, CreateInv DEF CaptureAuditEvent
<1>2. CASE ProjectSessionRevoked
  <2>1. PICK ss \in SUBSET {s \in config : Enabled(s)} : AppendRows(ss)
    BY <1>2 DEF ProjectSessionRevoked
  <2>2. ss \in SUBSET Streams
    BY DEF SigInv, TypeOK
  <2>. QED BY <1>2, <2>1, <2>2, CreateInv DEF ProjectSessionRevoked
<1>3. ASSUME NEW w \in Workers, NEW s \in Streams,
             \/ StartStream(w, s) \/ Push(w, s) \/ SaveOutcome(w, s)
             \/ RecordDeliverySuccess(w, s) \/ RecordDeliveryFailure(w, s) \/ Abandon(w, s)
      PROVE  SigInv'
  BY <1>3, StartInv, PushInv, SaveInv, RecordInv
<1>4. ASSUME NEW w \in Workers, Work(w) PROVE SigInv'
  BY <1>3, <1>4, ClaimInv DEF Work
<1>5. ASSUME NEW a \in Admins, Serve(a) \/ GiveUp(a) PROVE SigInv'
  BY <1>5, ServeInv
<1>6. ASSUME NEW a \in Admins, NEW s \in Streams, Ask(a, s) PROVE SigInv'
  BY <1>6, AskInv
<1>7. CASE PurgeSettled
  BY <1>7, PurgeInv
<1>8. CASE Tick
  BY <1>8, TickInv
<1>9. CASE UNCHANGED vars
  <2>1. TypeOK'
    BY <1>9 DEF vars, SigInv, TypeOK, streamVars, history
  <2>. QED BY <1>9, <2>1, QuietInv DEF vars, SigInv, RequestOK
<1>. QED BY <1>1, <1>2, <1>3, <1>4, <1>5, <1>6, <1>7, <1>8, <1>9 DEF Next

\* The shapes hold at the start.
LEMMA SigInit == Init => SigInv
<1>. SUFFICES ASSUME Init PROVE SigInv
  OBVIOUS
<1>1. stream \in [Streams -> StreamRow]
  BY Numbers DEF Init, StreamRow, Never
<1>2. DOMAIN rows = {}
  BY DEF Init
<1>3. send \in [Workers -> [Streams -> Group]]
  BY NoGroupType DEF Init
<1>4. admin \in [Admins -> Request]
  BY DEF Init, NoRequest, Request
<1>5. TypeOK
  <2>1. /\ config = {} /\ usage = 0 /\ lastID = 0 /\ faults = 0 /\ redeliveries = 0
        /\ received = {} /\ accepted = {} /\ late \in BOOLEAN
    BY DEF Init
  <2>2. age \in [Workers -> 0..MaxAge] /\ pushes \in [IDs -> 0..MaxAttempts]
    BY Numbers DEF Init
  <2>3. usage \in 0..QuotaLimit /\ lastID \in 0..MaxDeliveries /\ faults \in 0..MaxFaults
        /\ redeliveries \in 0..MaxRedeliveries
    BY <2>1, Numbers
  <2>. QED BY <1>1, <1>2, <1>3, <1>4, <2>1, <2>2, <2>3 DEF TypeOK, StreamRow
<1>6. \A w \in Workers, s \in Streams : GroupOK(w, s)
  BY NoGroupType DEF Init, GroupOK, AtWork
<1>7. \A a \in Admins : RequestOK(a)
  BY DEF Init, NoRequest, RequestOK
<1>. QED BY <1>2, <1>5, <1>6, <1>7 DEF SigInv

\* The columns, the batches in the workers' hands and the requests under way keep
\* their types, in any instance.
THEOREM SignalTypes == Spec => []TypeOK
<1>1. SigInv => TypeOK
  BY DEF SigInv
<1>. QED BY <1>1, SigInit, SigStep, PTL DEF Spec

-----------------------------------------------------------------------------
(* Receipts, leases and attempts. *)

\* A worker that is about to record a delivery has seen the receiver take it.
ReceiptInv ==
  /\ DeliveredWasReceived
  /\ \A w \in Workers, s \in Streams :
       send[w][s].step = "save" /\ send[w][s].ok => First(send[w][s].batch).id \in received

\* A row in the hands of a worker is unsettled and leased for as long as the cycle
\* may last, and every attempt that is counted has been made.
InTime(w, s, c) ==
  /\ age[w] < Lease
  /\ c.id \in DOMAIN rows =>
       rows[c.id].status \in Unsettled /\ rows[c.id].next + age[w] >= Lease
  /\ c.row.attempts <= pushes[c.id]
  /\ send[w][s].step = "save" /\ c = First(send[w][s].batch)
       => c.row.attempts + 1 <= pushes[c.id]

\* As long as no lease has run out under a working process, a row is in one hand,
\* in time, and no row counts more attempts than were made.
OneHand ==
  \A v, w \in Workers, s, t \in Streams :
    \A c \in send[v][s].batch, e \in send[w][t].batch :
      c.id = e.id => v = w /\ s = t /\ c = e

Counted == \A d \in DOMAIN rows : rows[d].attempts <= pushes[d]

AllInTime == \A w \in Workers, s \in Streams : \A c \in send[w][s].batch : InTime(w, s, c)

LeaseInv == ~ late => OneHand /\ AllInTime /\ Counted

\* Steps that lease no row and send nothing: groups stay or end, rows stay or go, and
\* a row that is created or redelivered starts to count anew.
Fresh(d) == rows'[d].attempts = 0 /\ rows'[d].status = "pending"
DeadLetter(d) == d \in DOMAIN rows /\ rows[d].status = "dead_letter"
QuietGroups == \A w \in Workers, s \in Streams :
                 send'[w][s] = send[w][s] \/ (send'[w][s].batch = {} /\ send'[w][s].step \notin AtWork)
QuietRows == \A d \in DOMAIN rows' : \/ d \in DOMAIN rows /\ rows'[d] = rows[d]
                                     \/ Fresh(d) /\ (d > lastID \/ DeadLetter(d))
QuietPushes == \A d \in IDs : \/ pushes'[d] = pushes[d]
                              \/ /\ DeadLetter(d) /\ pushes'[d] = 0
                                 /\ d \in DOMAIN rows' => rows'[d].attempts = 0
Quiet == /\ late' = late /\ age' = age /\ received' = received
         /\ QuietGroups /\ QuietRows /\ QuietPushes

\* Such steps keep what is known of leases and attempts.
LEMMA LeaseQuiet ==
  ASSUME SigInv, SigInv', LeaseInv, Quiet
  PROVE  LeaseInv'
<1>q. /\ late' = late /\ age' = age
      /\ \A w \in Workers, s \in Streams :
            send'[w][s] = send[w][s] \/ send'[w][s].batch = {}
      /\ \A d \in DOMAIN rows' :
            \/ d \in DOMAIN rows /\ rows'[d] = rows[d]
            \/ rows'[d].attempts = 0 /\ d > lastID
            \/ rows'[d].attempts = 0 /\ d \in DOMAIN rows /\ rows[d].status = "dead_letter"
      /\ \A d \in IDs :
            \/ pushes'[d] = pushes[d]
            \/ /\ d \in DOMAIN rows /\ rows[d].status = "dead_letter" /\ pushes'[d] = 0
               /\ d \in DOMAIN rows' => rows'[d].attempts = 0
  BY DEF Quiet, QuietGroups, QuietRows, QuietPushes, Fresh, DeadLetter
<1>. SUFFICES ASSUME ~ late PROVE OneHand' /\ AllInTime' /\ Counted'
  BY <1>q DEF LeaseInv
<1>0. TypeOK /\ OneHand /\ AllInTime /\ Counted /\ TypeOK'
  BY DEF SigInv, LeaseInv
<1>1. OneHand'
  BY <1>q, <1>0 DEF OneHand
<1>2. AllInTime'
  <2>. SUFFICES ASSUME NEW w \in Workers, NEW s \in Streams, NEW c \in send'[w][s].batch
                PROVE  InTime(w, s, c)'
    BY DEF AllInTime
  <2>1. send'[w][s] = send[w][s] /\ c \in send[w][s].batch
    BY <1>q
  <2>2. InTime(w, s, c)
    BY <1>0, <2>1 DEF AllInTime
  <2>3. c.id \in IDs /\ c.id <= lastID /\ lastID \in Nat /\ c.id \in Nat
    BY <1>0, <2>1, BatchType DEF SigInv, GroupOK, TypeOK
  <2>4. c.id \in DOMAIN rows => rows[c.id].status # "dead_letter"
    BY <2>2 DEF InTime, Unsettled
  <2>5. pushes'[c.id] = pushes[c.id]
    BY <1>q, <2>3, <2>4
  <2>6. c.id \in DOMAIN rows' => c.id \in DOMAIN rows /\ rows'[c.id] = rows[c.id]
    BY <1>q, <2>3, <2>4
  <2>. QED BY <1>q, <2>1, <2>2, <2>5, <2>6 DEF InTime
<1>3. ASSUME NEW d \in DOMAIN rows' PROVE rows'[d].attempts <= pushes'[d]
  <2>1. d \in IDs
    BY <1>0, Numbers DEF TypeOK, IDs
  <2>2. pushes'[d] \in 0..MaxAttempts
    BY <1>0, <2>1 DEF TypeOK
  <2>3. CASE rows'[d].attempts = 0
    BY <2>2, <2>3
  <2>4. CASE rows'[d].attempts # 0
    BY <1>q, <1>0, <2>1, <2>4 DEF Counted
  <2>. QED BY <2>3, <2>4
<1>. QED BY <1>1, <1>2, <1>3 DEF Counted

\* A claim takes rows that nobody has in hand.
LEMMA LeaseClaim ==
  ASSUME SigInv, SigInv', LeaseInv, NEW w \in Workers, ClaimDue(w)
  PROVE  LeaseInv'
<1>0. TypeOK /\ TypeOK'
  BY DEF SigInv
<1>1. /\ DOMAIN rows' = DOMAIN rows
      /\ \A d \in DOMAIN rows :
           \/ rows'[d] = rows[d] /\ \A s \in Streams : d \notin Batch(s)
           \/ /\ \E s \in Streams : d \in Batch(s)
              /\ rows'[d] = [rows[d] EXCEPT !.next = Lease]
      /\ \A v \in Workers \ {w}, s \in Streams : send'[v][s] = send[v][s]
      /\ \A s \in Streams :
           /\ send'[w][s].batch = {[id |-> d, row |-> rows[d]] : d \in Batch(s)}
           /\ send'[w][s].step = IF Batch(s) = {} THEN "idle" ELSE "start"
      /\ age' = [age EXCEPT ![w] = 0]
      /\ UNCHANGED <<late, pushes>>
  BY <1>0, ClaimShape DEF history
<1>. SUFFICES ASSUME ~ late PROVE OneHand' /\ AllInTime' /\ Counted'
  BY <1>1 DEF LeaseInv
<1>2. OneHand /\ AllInTime /\ Counted
  BY DEF LeaseInv
<1>3. \A d \in DOMAIN rows : rows[d] \in Row /\ d \in IDs
  BY <1>0, Numbers DEF TypeOK, IDs
<1>4. ASSUME NEW s \in Streams, NEW c \in send'[w][s].batch
      PROVE  /\ c.id \in Batch(s) /\ c = [id |-> c.id, row |-> rows[c.id]] /\ c.row = rows[c.id]
             /\ c.id \in DOMAIN rows /\ rows[c.id].stream = s
             /\ rows[c.id].status \in Unsettled /\ rows[c.id].next = 0
  <2>1. PICK d \in Batch(s) : c = [id |-> d, row |-> rows[d]]
    BY <1>1
  <2>2. d = c.id /\ c.row = rows[d]
    BY <2>1
  <2>. QED BY <2>1, <2>2, BatchDue
<1>5. ASSUME NEW v \in Workers \ {w}, NEW s \in Streams, NEW c \in send[v][s].batch,
             NEW t \in Streams
      PROVE  c.id \notin Batch(t)
  <2>1. InTime(v, s, c)
    BY <1>2 DEF AllInTime
  <2>2. c.id \in Batch(t) => c.id \in DOMAIN rows /\ rows[c.id].next = 0
    BY BatchDue
  <2>3. age[v] \in Int /\ Lease \in Int
    BY <1>0, Numbers DEF TypeOK
  <2>. QED BY <2>1, <2>2, <2>3 DEF InTime
<1>6. OneHand'
  <2>. SUFFICES ASSUME NEW u \in Workers, NEW v \in Workers, NEW s \in Streams, NEW t \in Streams,
                       NEW c \in send'[u][s].batch, NEW e \in send'[v][t].batch, c.id = e.id
                PROVE  u = v /\ s = t /\ c = e
    BY DEF OneHand
  <2>1. CASE u = w /\ v = w
    BY <1>4, <2>1
  <2>2. CASE u = w /\ v # w
    <3>1. e \in send[v][t].batch /\ v \in Workers \ {w}
      BY <1>1, <2>2
    <3>2. c.id \in Batch(s)
      BY <1>4, <2>2
    <3>. QED BY <1>5, <3>1, <3>2
  <2>3. CASE u # w /\ v = w
    <3>1. c \in send[u][s].batch /\ u \in Workers \ {w}
      BY <1>1, <2>3
    <3>2. e.id \in Batch(t)
      BY <1>4, <2>3
    <3>. QED BY <1>5, <3>1, <3>2
  <2>4. CASE u # w /\ v # w
    <3>1. c \in send[u][s].batch /\ e \in send[v][t].batch
      BY <1>1, <2>4
    <3>. QED BY <1>2, <3>1 DEF OneHand
  <2>. QED BY <2>1, <2>2, <2>3, <2>4
<1>7. AllInTime'
  <2>. SUFFICES ASSUME NEW v \in Workers, NEW s \in Streams, NEW c \in send'[v][s].batch
                PROVE  InTime(v, s, c)'
    BY DEF AllInTime
  <2>1. CASE v = w
    <3>1. /\ c.id \in Batch(s) /\ c.row = rows[c.id] /\ c.id \in DOMAIN rows
          /\ rows[c.id].status \in Unsettled
      BY <1>4, <2>1
    <3>2. age'[w] = 0
      BY <1>0, <1>1 DEF TypeOK
    <3>3. rows'[c.id].status \in Unsettled /\ rows'[c.id].next = Lease
      <4>1. rows'[c.id] = [rows[c.id] EXCEPT !.next = Lease]
        BY <1>1, <3>1
      <4>2. rows[c.id] \in Row /\ Lease \in Nat
        BY <1>3, <3>1, Numbers
      <4>. QED BY <3>1, <4>1, <4>2, LeasedRow
    <3>4. c.row.attempts <= pushes'[c.id]
      BY <1>1, <1>2, <3>1 DEF Counted
    <3>5. send'[w][s].step # "save"
      BY <1>1
    <3>. QED BY <2>1, <3>2, <3>3, <3>4, <3>5, Numbers DEF InTime
  <2>2. CASE v # w
    <3>1. send'[v][s] = send[v][s] /\ v \in Workers \ {w} /\ c \in send[v][s].batch
      BY <1>1, <2>2
    <3>2. InTime(v, s, c) /\ \A t \in Streams : c.id \notin Batch(t)
      BY <1>2, <1>5, <3>1 DEF AllInTime
    <3>3. c.id \in DOMAIN rows' => c.id \in DOMAIN rows /\ rows'[c.id] = rows[c.id]
      BY <1>1, <3>2
    <3>4. age'[v] = age[v] /\ pushes' = pushes
      BY <1>0, <1>1, <3>1 DEF TypeOK
    <3>. QED BY <3>1, <3>2, <3>3, <3>4 DEF InTime
  <2>. QED BY <2>1, <2>2
<1>8. Counted'
  <2>. SUFFICES ASSUME NEW d \in DOMAIN rows PROVE rows'[d].attempts <= pushes'[d]
    BY <1>1 DEF Counted
  <2>1. rows'[d].attempts = rows[d].attempts
    <3>1. rows[d] \in Row /\ Lease \in Nat
      BY <1>3, Numbers
    <3>2. [rows[d] EXCEPT !.next = Lease].attempts = rows[d].attempts
      BY <3>1, LeasedRow
    <3>3. rows'[d] = rows[d] \/ rows'[d] = [rows[d] EXCEPT !.next = Lease]
      BY <1>1, Zenon
    <3>. QED BY <3>2, <3>3, Zenon
  <2>. QED BY <1>1, <1>2, <2>1 DEF Counted
<1>. QED BY <1>6, <1>7, <1>8

\* Creation is quiet.
LEMMA CreateQuiet ==
  ASSUME SigInv, NEW ss \in SUBSET Streams, AppendRows(ss),
         UNCHANGED <<streamVars, age, send, admin, faults, redeliveries, history>>
  PROVE  Quiet
<1>0. TypeOK
  BY DEF SigInv
<1>1. /\ \A d \in DOMAIN rows : d \in DOMAIN rows' /\ rows'[d] = rows[d]
      /\ \A d \in DOMAIN rows' \ DOMAIN rows :
            d > lastID /\ \E s \in Streams : rows'[d] = NewRow(s)
  BY <1>0, AppendRowsStep
<1>2. QuietRows
  BY <1>1, NewRowType DEF QuietRows, Fresh
<1>. QED BY <1>2 DEF Quiet, QuietGroups, QuietPushes, history

\* The ends of a group are quiet.
LEMMA RecordQuiet ==
  ASSUME SigInv, NEW w \in Workers, NEW s \in Streams,
         RecordDeliverySuccess(w, s) \/ RecordDeliveryFailure(w, s) \/ Abandon(w, s)
  PROVE  Quiet
<1>0. TypeOK
  BY DEF SigInv
<1>1. EndGroup(w, s)
  BY DEF RecordDeliverySuccess, RecordDeliveryFailure, Abandon
<1>2. QuietGroups
  BY <1>0, <1>1, EndGroupShape DEF QuietGroups
<1>3. UNCHANGED <<rows, age, received, pushes, late>>
  BY DEF RecordDeliverySuccess, RecordDeliveryFailure, Abandon, history
<1>. QED BY <1>2, <1>3 DEF Quiet, QuietRows, QuietPushes

\* Administration is quiet: it deletes rows or sends dead letters back.
LEMMA AdminQuiet ==
  ASSUME SigInv, NEW a \in Admins, NEW s, Serve(a) \/ GiveUp(a) \/ Ask(a, s)
  PROVE  Quiet
<1>0. TypeOK
  BY DEF SigInv
<1>1. UNCHANGED <<age, send, received, late>>
  BY DEF Serve, GiveUp, Register, SaveStream, ClearOnEnable, DeleteConfig, DeleteStream, Redeliver,
     Ask, Reserve, ReadForUpdate, ReadForDelete, ReadForRedelivery, ReadForStatus,
     streamVars, history, unchangedByAdmin
<1>2. QuietRows /\ QuietPushes
  <2>1. CASE Redeliver(a)
    <3>. DEFINE back == DeadLetters(admin[a].stream)
    <3>1. \A d \in back : DeadLetter(d) /\ rows[d].stream \in Streams
      BY <1>0 DEF DeadLetters, DeadLetter, TypeOK, Row
    <3>2. /\ rows' = [d \in DOMAIN rows |-> IF d \in back THEN NewRow(rows[d].stream) ELSE rows[d]]
          /\ pushes' = [d \in IDs |-> IF d \in back THEN 0 ELSE pushes[d]]
      BY <2>1 DEF Redeliver
    <3>. HIDE DEF back
    <3>3. \A d \in DOMAIN rows : IF d \in back THEN Fresh(d) ELSE rows'[d] = rows[d]
      BY <3>1, <3>2, NewRowType DEF Fresh
    <3>4. DOMAIN rows' = DOMAIN rows
      BY <3>2
    <3>5. QuietRows
      BY <3>1, <3>3, <3>4 DEF QuietRows
    <3>6. QuietPushes
      BY <3>1, <3>2, <3>3, <3>4 DEF QuietPushes, Fresh
    <3>. QED BY <3>5, <3>6
  <2>2. CASE DeleteStream(a)
    BY <2>2 DEF DeleteStream, QuietRows, QuietPushes
  <2>3. CASE ~ Redeliver(a) /\ ~ DeleteStream(a)
    <3>1. UNCHANGED <<rows, pushes>>
      BY <2>3 DEF Serve, GiveUp, Register, SaveStream, ClearOnEnable, DeleteConfig,
         Ask, Reserve, ReadForUpdate, ReadForDelete, ReadForRedelivery, ReadForStatus, history
    <3>. QED BY <3>1 DEF QuietRows, QuietPushes
  <2>. QED BY <2>1, <2>2, <2>3
<1>. QED BY <1>1, <1>2 DEF Quiet, QuietGroups

\* Every step is quiet, or claims, sends, saves or lets time pass.
LEMMA StepKinds ==
  ASSUME SigInv, [Next]_vars
  PROVE  \/ Quiet
         \/ Tick
         \/ \E w \in Workers : ClaimDue(w)
         \/ \E w \in Workers, s \in Streams : StartStream(w, s) \/ Push(w, s) \/ SaveOutcome(w, s)
<1>1. CASE CaptureAuditEvent
  <2>1. {s \in Streams : Enabled(s)} \in SUBSET Streams
    OBVIOUS
  <2>. QED BY <1>1, <2>1, CreateQuiet DEF CaptureAuditEvent
<1>2. CASE ProjectSessionRevoked
  <2>1. PICK ss \in SUBSET {s \in config : Enabled(s)} : AppendRows(ss)
    BY <1>2 DEF ProjectSessionRevoked
  <2>2. ss \in SUBSET Streams
    BY DEF SigInv, TypeOK
  <2>. QED BY <1>2, <2>1, <2>2, CreateQuiet DEF ProjectSessionRevoked
<1>3. CASE PurgeSettled
  BY <1>3 DEF PurgeSettled, Quiet, QuietGroups, QuietRows, QuietPushes, history
<1>4. CASE UNCHANGED vars
  BY <1>4 DEF vars, Quiet, QuietGroups, QuietRows, QuietPushes, history
<1>5. ASSUME NEW w \in Workers, NEW s \in Streams,
             RecordDeliverySuccess(w, s) \/ RecordDeliveryFailure(w, s) \/ Abandon(w, s)
      PROVE  Quiet
  BY <1>5, RecordQuiet
<1>6. ASSUME NEW a \in Admins, NEW s, Serve(a) \/ GiveUp(a) \/ Ask(a, s)
      PROVE  Quiet
  BY <1>6, AdminQuiet
<1>7. ASSUME NEW w \in Workers, Work(w) \/ \E s \in Streams : Abandon(w, s)
      PROVE  \/ Quiet
             \/ ClaimDue(w)
             \/ \E s \in Streams : StartStream(w, s) \/ Push(w, s) \/ SaveOutcome(w, s)
  BY <1>5, <1>7, Zenon DEF Work
<1>8. ASSUME NEW a \in Admins, Serve(a) \/ GiveUp(a) \/ \E s \in Streams : Ask(a, s)
      PROVE  Quiet
  BY <1>6, <1>8, Zenon
<1>. QED BY <1>1, <1>2, <1>3, <1>4, <1>7, <1>8, Zenon DEF Next

\* Batches that do not grow stay in one hand.
LEMMA OneHandKept ==
  ASSUME OneHand,
         \A w \in Workers, s \in Streams : send'[w][s].batch \subseteq send[w][s].batch
  PROVE  OneHand'
BY DEF OneHand

\* StartStream sends the rows it has, or leaves them.
LEMMA LeaseStart ==
  ASSUME SigInv, LeaseInv, NEW w \in Workers, NEW s \in Streams, StartStream(w, s)
  PROVE  LeaseInv'
<1>0. TypeOK
  BY DEF SigInv
<1>1. /\ \A v \in Workers, t \in Streams : (v # w \/ t # s) => send'[v][t] = send[v][t]
      /\ \/ send'[w][s].batch = {}
         \/ send'[w][s].batch = send[w][s].batch /\ send'[w][s].step = "push"
      /\ UNCHANGED <<rows, age, pushes, late>>
  BY <1>0, StartShape, NoGroupType DEF history
<1>. SUFFICES ASSUME ~ late PROVE OneHand' /\ AllInTime' /\ Counted'
  BY <1>1 DEF LeaseInv
<1>2. OneHand /\ AllInTime /\ Counted
  BY DEF LeaseInv
<1>3. \A v \in Workers, t \in Streams : send'[v][t].batch \subseteq send[v][t].batch
  BY <1>1
<1>4. OneHand'
  BY <1>2, <1>3, OneHandKept
<1>5. AllInTime'
  <2>. SUFFICES ASSUME NEW v \in Workers, NEW t \in Streams, NEW c \in send'[v][t].batch
                PROVE  InTime(v, t, c)'
    BY DEF AllInTime
  <2>1. InTime(v, t, c)
    BY <1>2, <1>3 DEF AllInTime
  <2>2. send'[v][t].step = "save" => send'[v][t] = send[v][t]
    BY <1>1
  <2>. QED BY <1>1, <2>1, <2>2 DEF InTime
<1>6. Counted'
  BY <1>1, <1>2 DEF Counted
<1>. QED BY <1>4, <1>5, <1>6

\* A push is an attempt at the row that is about to be saved.
LEMMA LeasePush ==
  ASSUME SigInv, LeaseInv, NEW w \in Workers, NEW s \in Streams, Push(w, s)
  PROVE  LeaseInv'
<1>0. TypeOK /\ GroupOK(w, s)
  BY DEF SigInv
<1>1. /\ \A v \in Workers, t \in Streams : (v # w \/ t # s) => send'[v][t] = send[v][t]
      /\ send'[w][s].batch = send[w][s].batch
      /\ First(send[w][s].batch) \in send[w][s].batch
      /\ pushes' = [pushes EXCEPT ![First(send[w][s].batch).id] =
                      IF @ < MaxAttempts THEN @ + 1 ELSE @]
      /\ UNCHANGED <<rows, age, late>>
  BY PushShape
<1>. SUFFICES ASSUME ~ late PROVE OneHand' /\ AllInTime' /\ Counted'
  BY <1>1 DEF LeaseInv
<1>2. OneHand /\ AllInTime /\ Counted
  BY DEF LeaseInv
<1>3. PICK f \in send[w][s].batch : f = First(send[w][s].batch)
  BY <1>1
<1>4. f.id \in IDs /\ f.row.attempts \in Nat /\ f.row.attempts < MaxAttempts
  BY <1>0, <1>3, BatchType DEF GroupOK, Row
<1>5. /\ pushes \in [IDs -> 0..MaxAttempts]
      /\ pushes' = [pushes EXCEPT ![f.id] = IF @ < MaxAttempts THEN @ + 1 ELSE @]
  BY <1>0, <1>1, <1>3 DEF TypeOK
<1>6. \A d \in IDs : pushes'[d] \in Nat /\ pushes[d] \in Nat /\ pushes[d] <= pushes'[d]
  BY <1>5, Numbers
<1>7. f.row.attempts + 1 <= pushes'[f.id]
  <2>1. f.row.attempts <= pushes[f.id]
    BY <1>2, <1>3 DEF AllInTime, InTime
  <2>. QED BY <1>4, <1>5, <2>1, Numbers
<1>8. \A v \in Workers, t \in Streams : send'[v][t].batch = send[v][t].batch
  BY <1>1
<1>9. OneHand'
  BY <1>2, <1>8, OneHandKept
<1>10. AllInTime'
  <2>. SUFFICES ASSUME NEW v \in Workers, NEW t \in Streams, NEW c \in send'[v][t].batch
                PROVE  InTime(v, t, c)'
    BY DEF AllInTime
  <2>1. InTime(v, t, c) /\ c \in send[v][t].batch
    BY <1>2, <1>8 DEF AllInTime
  <2>2. c.id \in IDs /\ c.row.attempts \in Nat
    BY <1>0, <2>1, BatchType DEF Row
  <2>3. c.row.attempts <= pushes'[c.id]
    BY <1>6, <2>1, <2>2 DEF InTime
  <2>4. ASSUME send'[v][t].step = "save", c = First(send'[v][t].batch)
        PROVE  c.row.attempts + 1 <= pushes'[c.id]
    <3>1. CASE v = w /\ t = s
      BY <1>3, <1>7, <1>8, <2>4, <3>1
    <3>2. CASE v # w \/ t # s
      <4>1. send'[v][t] = send[v][t]
        BY <1>1, <3>2
      <4>2. c.row.attempts + 1 <= pushes[c.id]
        BY <2>1, <2>4, <4>1 DEF InTime
      <4>. QED BY <1>6, <2>2, <4>2
    <3>. QED BY <3>1, <3>2
  <2>. QED BY <1>1, <2>1, <2>3, <2>4 DEF InTime
<1>11. Counted'
  <2>. SUFFICES ASSUME NEW d \in DOMAIN rows PROVE rows[d].attempts <= pushes'[d]
    BY <1>1 DEF Counted
  <2>1. d \in IDs /\ rows[d].attempts \in Nat
    BY <1>0, Numbers DEF TypeOK, IDs, Row
  <2>. QED BY <1>2, <1>6, <2>1 DEF Counted
<1>. QED BY <1>9, <1>10, <1>11

\* The outcome is written to a row that nobody else has in hand.
LEMMA LeaseSave ==
  ASSUME SigInv, LeaseInv, NEW w \in Workers, NEW s \in Streams, SaveOutcome(w, s)
  PROVE  LeaseInv'
<1>0. TypeOK /\ GroupOK(w, s)
  BY DEF SigInv
<1>1. PICK c \in send[w][s].batch :
      /\ c = First(send[w][s].batch)
      /\ send[w][s].step = "save"
      /\ \A v \in Workers, t \in Streams : (v # w \/ t # s) => send'[v][t] = send[v][t]
      /\ \/ send'[w][s] = NoGroup /\ UNCHANGED rows
         \/ /\ rows' = [d \in DOMAIN rows \union {c.id} |->
                          IF d = c.id THEN Outcome(w, c.row, send[w][s].ok) ELSE rows[d]]
            /\ send'[w][s].batch \subseteq send[w][s].batch \ {c}
            /\ \/ send'[w][s].batch = {} /\ send'[w][s].step \in {"failed", "succeeded"}
               \/ send'[w][s].batch # {} /\ send'[w][s].step = "push"
      /\ UNCHANGED <<age, pushes, late>>
  BY SaveShape DEF history
<1>. SUFFICES ASSUME ~ late PROVE OneHand' /\ AllInTime' /\ Counted'
  BY <1>1 DEF LeaseInv
<1>2. OneHand /\ AllInTime /\ Counted
  BY DEF LeaseInv
<1>3. \A v \in Workers, t \in Streams : send'[v][t].batch \subseteq send[v][t].batch
  BY <1>1, NoGroupType
<1>4. OneHand'
  BY <1>2, <1>3, OneHandKept
<1>5. \/ UNCHANGED rows /\ send'[w][s].batch = {}
      \/ /\ rows' = [d \in DOMAIN rows \union {c.id} |->
                       IF d = c.id THEN Outcome(w, c.row, send[w][s].ok) ELSE rows[d]]
         /\ c \notin send'[w][s].batch
  BY <1>1, NoGroupType
<1>6. AllInTime'
  <2>. SUFFICES ASSUME NEW v \in Workers, NEW t \in Streams, NEW e \in send'[v][t].batch
                PROVE  InTime(v, t, e)'
    BY DEF AllInTime
  <2>1. InTime(v, t, e) /\ e \in send[v][t].batch
    BY <1>2, <1>3 DEF AllInTime
  <2>2. UNCHANGED rows \/ e.id # c.id
    <3>1. CASE v = w /\ t = s /\ e.id = c.id
      <4>1. e = c
        BY <1>2, <2>1, <3>1 DEF OneHand
      <4>. QED BY <1>5, <3>1, <4>1
    <3>2. CASE (v # w \/ t # s) /\ e.id = c.id
      BY <1>2, <2>1, <3>2 DEF OneHand
    <3>. QED BY <3>1, <3>2
  <2>3. e.id \in DOMAIN rows' => e.id \in DOMAIN rows /\ rows'[e.id] = rows[e.id]
    BY <1>5, <2>2
  <2>4. send'[v][t].step = "save" => send'[v][t] = send[v][t]
    BY <1>1, NoGroupType
  <2>. QED BY <1>1, <2>1, <2>3, <2>4 DEF InTime
<1>7. Counted'
  <2>. SUFFICES ASSUME NEW d \in DOMAIN rows' PROVE rows'[d].attempts <= pushes[d]
    BY <1>1 DEF Counted
  <2>1. CASE d \in DOMAIN rows /\ rows'[d] = rows[d]
    BY <1>2, <2>1 DEF Counted
  <2>2. CASE d = c.id /\ rows'[d] = Outcome(w, c.row, send[w][s].ok)
    <3>1. c.row \in Row /\ c.row.attempts < MaxAttempts /\ send[w][s].ok \in BOOLEAN
      BY <1>0, BatchType DEF GroupOK, Group
    <3>2. Outcome(w, c.row, send[w][s].ok).attempts = c.row.attempts + 1
      BY <1>0, <3>1, OutcomeStep
    <3>3. c.row.attempts + 1 <= pushes[c.id]
      BY <1>1, <1>2 DEF AllInTime, InTime
    <3>. QED BY <2>2, <3>2, <3>3
  <2>. QED BY <1>5, <2>1, <2>2
<1>. QED BY <1>4, <1>6, <1>7

\* A tick shortens the lease of a row by as much as it ages the cycle that holds it.
LEMMA LeaseTick ==
  ASSUME SigInv, LeaseInv, Tick
  PROVE  LeaseInv'
<1>0. TypeOK
  BY DEF SigInv
<1>1. /\ DOMAIN rows' = DOMAIN rows
      /\ \A d \in DOMAIN rows :
           rows'[d] = [rows[d] EXCEPT !.next = IF rows[d].next > 0 THEN rows[d].next - 1 ELSE 0]
      /\ age' = [w \in Workers |-> IF InCycle(w) THEN age[w] + 1 ELSE 0]
      /\ UNCHANGED <<send, pushes>>
  BY DEF Tick
<1>2. ~ late' => ~ late /\ \A w \in Workers : Held(w) = {} \/ ~ (age'[w] >= Lease)
  BY <1>0 DEF Tick, TypeOK
<1>. SUFFICES ASSUME ~ late' PROVE OneHand' /\ AllInTime' /\ Counted'
  BY DEF LeaseInv
<1>3. OneHand /\ AllInTime /\ Counted
  BY <1>2 DEF LeaseInv
<1>4. ASSUME NEW d \in DOMAIN rows
      PROVE  /\ rows'[d].status = rows[d].status /\ rows'[d].attempts = rows[d].attempts
             /\ rows[d].next \in Nat /\ rows'[d].next \in Nat
             /\ rows'[d].next = IF rows[d].next > 0 THEN rows[d].next - 1 ELSE 0
  <2>1. rows[d] \in Row /\ rows[d].next \in Nat
    BY <1>0 DEF TypeOK, Row
  <2>2. PICK n \in Nat : n = IF rows[d].next > 0 THEN rows[d].next - 1 ELSE 0
    BY <2>1
  <2>3. rows'[d] = [rows[d] EXCEPT !.next = n]
    BY <1>1, <2>2
  <2>. QED BY <2>1, <2>2, <2>3, LeasedRow
<1>5. OneHand'
  BY <1>1, <1>3, OneHandKept
<1>6. AllInTime'
  <2>. SUFFICES ASSUME NEW w \in Workers, NEW s \in Streams, NEW c \in send[w][s].batch
                PROVE  InTime(w, s, c)'
    BY <1>1 DEF AllInTime
  <2>1. InTime(w, s, c)
    BY <1>3 DEF AllInTime
  <2>2. InCycle(w) /\ Held(w) # {}
    BY NoGroupType DEF InCycle, Held
  <2>3. age'[w] = age[w] + 1 /\ age[w] \in Nat /\ Lease \in Nat
    BY <1>0, <1>1, <2>2, Numbers DEF TypeOK
  <2>4. age'[w] < Lease
    BY <1>2, <2>2, <2>3
  <2>5. c.id \in DOMAIN rows =>
          rows'[c.id].status \in Unsettled /\ rows'[c.id].next + age'[w] >= Lease
    BY <1>4, <2>1, <2>3 DEF InTime
  <2>. QED BY <1>1, <2>1, <2>4, <2>5 DEF InTime
<1>7. Counted'
  BY <1>1, <1>3, <1>4 DEF Counted
<1>. QED BY <1>5, <1>6, <1>7

\* Every step keeps what is known of leases and attempts.
LEMMA LeaseStep == SigInv /\ LeaseInv /\ [Next]_vars => LeaseInv'
<1>. SUFFICES ASSUME SigInv, LeaseInv, [Next]_vars PROVE LeaseInv'
  OBVIOUS
<1>1. SigInv'
  BY SigStep
<1>2. CASE Quiet
  BY <1>1, <1>2, LeaseQuiet
<1>3. CASE Tick
  BY <1>3, LeaseTick
<1>4. CASE \E w \in Workers : ClaimDue(w)
  BY <1>1, <1>4, LeaseClaim
<1>5. CASE \E w \in Workers, s \in Streams : StartStream(w, s) \/ Push(w, s) \/ SaveOutcome(w, s)
  BY <1>5, LeaseStart, LeasePush, LeaseSave
<1>. QED BY <1>2, <1>3, <1>4, <1>5, StepKinds

\* No row and no batch at the start.
LEMMA LeaseInit == Init => LeaseInv /\ ReceiptInv
<1>. SUFFICES ASSUME Init PROVE LeaseInv /\ ReceiptInv
  OBVIOUS
<1>1. DOMAIN rows = {} /\ \A w \in Workers, s \in Streams : send[w][s] = NoGroup
  BY DEF Init
<1>2. OneHand /\ AllInTime /\ Counted
  BY <1>1, NoGroupType DEF OneHand, AllInTime, Counted
<1>3. ReceiptInv
  BY <1>1, NoGroupType DEF ReceiptInv, DeliveredWasReceived
<1>. QED BY <1>2, <1>3 DEF LeaseInv

\* Every step keeps the receipts: what is recorded as delivered was received before.
LEMMA ReceiptStep == SigInv /\ ReceiptInv /\ [Next]_vars => ReceiptInv'
<1>. SUFFICES ASSUME SigInv, ReceiptInv, [Next]_vars PROVE ReceiptInv'
  OBVIOUS
<1>0. TypeOK
  BY DEF SigInv
<1>1. ASSUME NEW w \in Workers, NEW s \in Streams, StartStream(w, s)
      PROVE  ReceiptInv'
  <2>1. /\ \A v \in Workers, t \in Streams : (v # w \/ t # s) => send'[v][t] = send[v][t]
        /\ send'[w][s].step # "save"
        /\ UNCHANGED <<rows, received>>
    BY <1>0, <1>1, StartShape, NoGroupType DEF history
  <2>. QED BY <2>1 DEF ReceiptInv, DeliveredWasReceived
<1>2. ASSUME NEW w \in Workers, NEW s \in Streams, Push(w, s)
      PROVE  ReceiptInv'
  <2>1. /\ \A v \in Workers, t \in Streams : (v # w \/ t # s) => send'[v][t] = send[v][t]
        /\ send'[w][s].batch = send[w][s].batch
        /\ received \subseteq received'
        /\ send'[w][s].ok => First(send[w][s].batch).id \in received'
        /\ rows' = rows
    BY <1>2, PushShape
  <2>2. \A v \in Workers, t \in Streams :
          send'[v][t].step = "save" /\ send'[v][t].ok => First(send'[v][t].batch).id \in received'
    BY <2>1 DEF ReceiptInv
  <2>. QED BY <2>1, <2>2 DEF ReceiptInv, DeliveredWasReceived
<1>3. ASSUME NEW w \in Workers, NEW s \in Streams, SaveOutcome(w, s)
      PROVE  ReceiptInv'
  <2>1. PICK c \in send[w][s].batch :
        /\ c = First(send[w][s].batch)
        /\ send[w][s].step = "save"
        /\ \A v \in Workers, t \in Streams : (v # w \/ t # s) => send'[v][t] = send[v][t]
        /\ \/ send'[w][s] = NoGroup /\ UNCHANGED rows
           \/ /\ rows' = [d \in DOMAIN rows \union {c.id} |->
                            IF d = c.id THEN Outcome(w, c.row, send[w][s].ok) ELSE rows[d]]
              /\ send'[w][s].step # "save"
        /\ UNCHANGED received
    BY <1>3, SaveShape DEF history
  <2>2. c.row \in Row /\ c.row.attempts < MaxAttempts /\ send[w][s].ok \in BOOLEAN
    BY <1>0, BatchType DEF SigInv, GroupOK, Group
  <2>3. Outcome(w, c.row, send[w][s].ok).status = "delivered" => c.id \in received
    BY <1>0, <2>1, <2>2, OutcomeStep DEF ReceiptInv
  <2>4. ASSUME NEW d \in DOMAIN rows', rows'[d].status = "delivered" PROVE d \in received'
    BY <2>1, <2>3, <2>4 DEF ReceiptInv, DeliveredWasReceived
  <2>5. \A v \in Workers, t \in Streams :
          send'[v][t].step = "save" /\ send'[v][t].ok => First(send'[v][t].batch).id \in received'
    BY <2>1, NoGroupType DEF ReceiptInv
  <2>. QED BY <2>4, <2>5 DEF ReceiptInv, DeliveredWasReceived
<1>4. ASSUME NEW w \in Workers, ClaimDue(w) PROVE ReceiptInv'
  <2>1. /\ DOMAIN rows' = DOMAIN rows
        /\ \A d \in DOMAIN rows : rows'[d] = rows[d] \/ rows'[d] = [rows[d] EXCEPT !.next = Lease]
        /\ \A v \in Workers \ {w}, s \in Streams : send'[v][s] = send[v][s]
        /\ \A s \in Streams : send'[w][s].step # "save"
        /\ received' = received
    BY <1>0, <1>4, ClaimShape DEF history
  <2>2. \A d \in DOMAIN rows : [rows[d] EXCEPT !.next = Lease].status = rows[d].status
    BY <1>0, LeasedRow, Numbers DEF TypeOK
  <2>3. \A d \in DOMAIN rows : rows'[d].status = rows[d].status
    BY <2>1, <2>2, Zenon
  <2>. QED BY <2>1, <2>3 DEF ReceiptInv, DeliveredWasReceived
<1>5. CASE Tick
  <2>1. /\ DOMAIN rows' = DOMAIN rows
        /\ \A d \in DOMAIN rows :
             rows'[d] = [rows[d] EXCEPT !.next = IF rows[d].next > 0 THEN rows[d].next - 1 ELSE 0]
        /\ UNCHANGED <<send, received>>
    BY <1>5 DEF Tick
  <2>2. \A d \in DOMAIN rows : rows[d] \in Row
    BY <1>0 DEF TypeOK
  <2>3. \A d \in DOMAIN rows : rows'[d].status = rows[d].status
    BY <2>1, <2>2 DEF Row
  <2>. QED BY <2>1, <2>3 DEF ReceiptInv, DeliveredWasReceived
<1>6. CASE Quiet
  <2>1. \A d \in DOMAIN rows' : rows'[d].status = "delivered" => d \in received'
    BY <1>6 DEF Quiet, QuietRows, Fresh, ReceiptInv, DeliveredWasReceived
  <2>2. \A v \in Workers, t \in Streams :
          send'[v][t].step = "save" /\ send'[v][t].ok => First(send'[v][t].batch).id \in received'
    BY <1>6 DEF Quiet, QuietGroups, AtWork, ReceiptInv
  <2>. QED BY <2>1, <2>2 DEF ReceiptInv, DeliveredWasReceived
<1>. QED BY <1>1, <1>2, <1>3, <1>4, <1>5, <1>6, StepKinds

\* A delivery is reported delivered only if its receiver has taken the SET, whatever
\* answers are lost, whatever calls fail and however late a worker writes.
THEOREM DeliveredIsReceived == Spec => []DeliveredWasReceived
<1>1. SigInv /\ ReceiptInv => DeliveredWasReceived
  BY DEF ReceiptInv
<1>. QED BY <1>1, SigInit, SigStep, LeaseInit, ReceiptStep, PTL DEF Spec

\* While no lease has run out under a working process, no delivery is in the hands of
\* two workers: the rows ClaimDue takes have run out of the lease of an earlier cycle.
THEOREM LeasesExclude == Spec => []LeaseExclusive
<1>1. LeaseInv => LeaseExclusive
  <2>. SUFFICES ASSUME LeaseInv, ~ late, NEW v \in Workers, NEW w \in Workers, v # w,
                       NEW d \in Held(v), d \in Held(w)
                PROVE  FALSE
    BY DEF LeaseExclusive
  <2>1. PICK s \in Streams : \E c \in send[v][s].batch : c.id = d
    BY DEF Held
  <2>2. PICK t \in Streams : \E e \in send[w][t].batch : e.id = d
    BY DEF Held
  <2>. QED BY <2>1, <2>2 DEF LeaseInv, OneHand
<1>. QED BY <1>1, SigInit, SigStep, LeaseInit, LeaseStep, PTL DEF Spec

\* While no lease has run out under a working process, a dead letter has had all of its
\* max_delivery_attempts attempts since it was created or redelivered.
THEOREM DeadLettersEarned == Spec => []DeadLetterEarned
<1>1. SigInv /\ LeaseInv => DeadLetterEarned
  <2>. SUFFICES ASSUME SigInv, LeaseInv, ~ late, NEW d \in DOMAIN rows, rows[d].status = "dead_letter"
                PROVE  pushes[d] >= MaxAttempts
    BY DEF DeadLetterEarned
  <2>1. rows[d].attempts = MaxAttempts /\ rows[d].attempts <= pushes[d]
    BY DEF SigInv, RowOK, LeaseInv, Counted
  <2>2. d \in IDs /\ pushes[d] \in Nat /\ MaxAttempts \in Nat
    BY Numbers DEF SigInv, TypeOK, IDs
  <2>. QED BY <2>1, <2>2
<1>. QED BY <1>1, SigInit, SigStep, LeaseInit, LeaseStep, PTL DEF Spec

\* While no lease has run out under a working process, a delivered row stays delivered
\* until it is deleted: the outcome of an attempt is written to an unsettled row only,
\* and only dead letters are sent again.
THEOREM DeliveryIsFinal == Spec => DeliveredIsFinal
<1>1. SigInv /\ LeaseInv /\ [Next]_vars
        => [\A d \in DOMAIN rows :
              rows[d].status = "delivered" /\ d \in DOMAIN rows' /\ ~ late
                => rows'[d].status = "delivered"]_vars
  <2>. SUFFICES ASSUME SigInv, LeaseInv, [Next]_vars, ~ late,
                       NEW d \in DOMAIN rows, rows[d].status = "delivered", d \in DOMAIN rows'
                PROVE  rows'[d].status = "delivered"
    BY Zenon
  <2>0. TypeOK /\ d \in IDs /\ d \in 1..lastID /\ lastID \in Nat /\ rows[d] \in Row
    BY Numbers DEF SigInv, TypeOK, IDs
  <2>1. CASE Quiet
    <3>1. ~ DeadLetter(d) /\ ~ (d > lastID)
      BY <2>0 DEF DeadLetter
    <3>2. rows'[d] = rows[d]
      BY <2>1, <3>1 DEF Quiet, QuietRows
    <3>. QED BY <3>2
  <2>2. CASE Tick
    BY <2>0, <2>2 DEF Tick, Row
  <2>3. ASSUME NEW w \in Workers, ClaimDue(w) PROVE rows'[d].status = "delivered"
    <3>1. rows'[d] = rows[d] \/ rows'[d] = [rows[d] EXCEPT !.next = Lease]
      BY <2>0, <2>3, ClaimShape
    <3>2. [rows[d] EXCEPT !.next = Lease].status = rows[d].status
      BY <2>0, LeasedRow, Numbers
    <3>. QED BY <3>1, <3>2, Zenon
  <2>4. ASSUME NEW w \in Workers, NEW s \in Streams,
               StartStream(w, s) \/ Push(w, s) \/ SaveOutcome(w, s)
        PROVE  rows'[d].status = "delivered"
    <3>1. CASE StartStream(w, s) \/ Push(w, s)
      BY <3>1 DEF StartStream, Push
    <3>2. CASE SaveOutcome(w, s)
      <4>1. PICK c \in send[w][s].batch :
              \/ UNCHANGED rows
              \/ rows' = [e \in DOMAIN rows \union {c.id} |->
                            IF e = c.id THEN Outcome(w, c.row, send[w][s].ok) ELSE rows[e]]
        BY <3>2, SaveShape
      <4>2. c.id # d
        BY DEF LeaseInv, AllInTime, InTime, Unsettled
      <4>. QED BY <4>1, <4>2
    <3>. QED BY <2>4, <3>1, <3>2
  <2>. QED BY <2>1, <2>2, <2>3, <2>4, StepKinds
<1>. QED BY <1>1, SigInit, SigStep, LeaseInit, LeaseStep, PTL DEF Spec, DeliveredIsFinal
=============================================================================
