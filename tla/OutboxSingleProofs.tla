------------------------- MODULE OutboxSingleProofs -------------------------
(* Theorems about an outbox table that one poller drains, for every set of *)
(* events, every MaxRetries and BatchSize and every set of faults: counts, *)
(* bounded retries and the order of first attempts.  Where the database's  *)
(* replies are not lost, also that a settled row is final and that the     *)
(* outbox implements EventDelivery.                                        *)
EXTENDS OutboxProofs

USE OutboxAssumption

(***************************************************************************)
(* The inductive invariant.  With one poller a snapshot cannot grow old:   *)
(* until the poller writes a row of its batch, the row is as it was read,  *)
(* and only the row being published is one attempt ahead of its count.     *)
(***************************************************************************)

CountInv(e) ==
    /\ status[e] = "absent" => attempts[e] = 0 /\ retryCount[e] = 0
    /\ status[e] = "PENDING" =>
          attempts[e] = retryCount[e] /\ retryCount[e] < MaxRetries
    /\ status[e] = "PROCESSING" =>
          /\ attempts[e] = retryCount[e] \/ attempts[e] = retryCount[e] + 1
          /\ retryCount[e] < MaxRetries
    /\ status[e] = "COMPLETED" =>
          attempts[e] = retryCount[e] + 1 /\ retryCount[e] < MaxRetries
    /\ status[e] = "DEAD" =>
          attempts[e] = retryCount[e] /\ retryCount[e] = MaxRetries
    /\ delivered[e] <= attempts[e]
    /\ e \in dlq => status[e] = "DEAD"

\* The first row of the batch has been published and is being settled.
InFlight(p, i) == i = 1 /\ pc[p] \in {"published", "failed", "deadletter"}

EntryInv(p, i) ==
    LET row == batch[p][i]
        e   == batch[p][i].id
    IN  /\ ~InFlight(p, i) =>
              /\ row.retryCount = retryCount[e]
              /\ attempts[e] = retryCount[e]
              /\ status[e] = IF pc[p] = "found" THEN "PENDING" ELSE "PROCESSING"
        /\ i = 1 /\ pc[p] \in {"published", "failed"} =>
              /\ row.retryCount = retryCount[e]
              /\ attempts[e] = retryCount[e] + 1
              /\ retryCount[e] < MaxRetries
        /\ i = 1 /\ pc[p] = "published" => status[e] = "PROCESSING"
        /\ i = 1 /\ pc[p] = "failed" =>
              \/ status[e] = "PROCESSING"
              \/ "dback" \in Faults /\ status[e] = "COMPLETED"
        /\ i = 1 /\ pc[p] = "deadletter" => status[e] = "DEAD"

BatchInv(p) ==
    /\ \A i \in 1..Len(batch[p]) : EntryInv(p, i)
    /\ \A i, j \in 1..Len(batch[p]) : i # j => batch[p][i].id # batch[p][j].id

SingleInv ==
    /\ SharedInv
    /\ \A e \in Event : CountInv(e)
    /\ \A p \in Poller : BatchInv(p)

LEMMA InitSingle == Init => SingleInv
<1> SUFFICES ASSUME Init PROVE SingleInv
  OBVIOUS
<1>1. ASSUME NEW e \in Event
      PROVE  CountInv(e)
  <2>1. status[e] = "absent" /\ e \notin dlq
    BY DEF Init
  <2>2. retryCount[e] = 0 /\ attempts[e] = 0 /\ delivered[e] = 0
    BY DEF Init
  <2>3. delivered[e] <= attempts[e]
    BY <2>2
  <2> QED
    BY <2>1, <2>2, <2>3 DEF CountInv
<1>2. \A p \in Poller : BatchInv(p)
  BY DEF Init, BatchInv
<1> QED
  BY <1>1, <1>2, InitShared DEF SingleInv

(***************************************************************************)
(* Facts about the only poller's batch.                                    *)
(***************************************************************************)

LEMMA EntryType ==
    ASSUME TypeOK, NEW p \in Poller, NEW i \in 1..Len(batch[p])
    PROVE  batch[p][i].id \in Event /\ batch[p][i].retryCount \in Nat
<1>1. batch[p] \in Seq(Row)
  BY DEF TypeOK
<1>2. batch[p][i] \in Row
  BY <1>1
<1> QED
  BY <1>2 DEF Row

\* The current row and the rest of the batch.
LEMMA SingleCurrent ==
    ASSUME SingleInv, NEW p \in Poller, pc[p] \notin {"down", "idle"}
    PROVE  /\ batch[p] \in Seq(Row) /\ batch[p] # <<>>
           /\ 1 \in 1..Len(batch[p])
           /\ Current(p) \in Event /\ Current(p) = batch[p][1].id
           /\ NewRetryCount(p) = batch[p][1].retryCount + 1
           /\ EntryInv(p, 1)
           /\ retryCount[Current(p)] \in Nat /\ attempts[Current(p)] \in Nat
           /\ delivered[Current(p)] \in Nat
           /\ CountInv(Current(p))
<1>1. TypeOK /\ BatchInv(p)
  BY DEF SingleInv, SharedInv
<1>2. /\ batch[p] \in Seq(Row) /\ batch[p] # <<>>
      /\ Len(batch[p]) \in Nat \ {0}
      /\ Current(p) \in Event
      /\ Head(batch[p]) = batch[p][1]
  BY <1>1, CurrentType
<1>3. 1 \in 1..Len(batch[p])
  BY <1>2
<1> QED
  BY <1>1, <1>2, <1>3 DEF SingleInv, BatchInv, Current, NewRetryCount, TypeOK

\* Going on to the next row keeps the batch's invariant if the step wrote the
\* current row only.
LEMMA BatchInvAdvance ==
    ASSUME SingleInv, NEW p \in Poller,
           pc[p] \in {"published", "failed", "deadletter"}, Advance(p),
           \A e \in Event \ {Current(p)} :
              /\ status'[e] = status[e]
              /\ retryCount'[e] = retryCount[e]
              /\ attempts'[e] = attempts[e]
    PROVE  BatchInv(p)'
<1>1. /\ batch[p] \in Seq(Row) /\ batch[p] # <<>>
      /\ Current(p) = batch[p][1].id
      /\ 1 \in 1..Len(batch[p])
  BY SingleCurrent
<1>2. /\ batch'[p] = Tail(batch[p])
      /\ pc'[p] \in {"idle", "publish"}
  BY DEF SingleInv, SharedInv, TypeOK, Advance
<1>3. /\ Len(batch'[p]) = Len(batch[p]) - 1
      /\ \A i \in 1..Len(batch'[p]) : batch'[p][i] = batch[p][i + 1]
      /\ \A i \in 1..Len(batch'[p]) : i + 1 \in 1..Len(batch[p]) /\ i + 1 # 1
  BY <1>1, <1>2
<1>4. BatchInv(p)
  BY DEF SingleInv
<1>5. \A i, j \in 1..Len(batch'[p]) : i # j => batch'[p][i].id # batch'[p][j].id
  <2> SUFFICES ASSUME NEW i \in 1..Len(batch'[p]), NEW j \in 1..Len(batch'[p]),
                      i # j
               PROVE  batch'[p][i].id # batch'[p][j].id
    OBVIOUS
  <2>1. /\ batch'[p][i] = batch[p][i + 1] /\ i + 1 \in 1..Len(batch[p])
        /\ batch'[p][j] = batch[p][j + 1] /\ j + 1 \in 1..Len(batch[p])
        /\ i + 1 # j + 1
    BY <1>3
  <2> QED
    BY <1>4, <2>1 DEF BatchInv
<1>6. ASSUME NEW i \in 1..Len(batch'[p])
      PROVE  EntryInv(p, i)'
  <2> DEFINE k == i + 1
  <2>1. /\ k \in 1..Len(batch[p]) /\ k # 1
        /\ batch'[p][i] = batch[p][k]
    BY <1>3
  <2>2. EntryInv(p, k) /\ ~InFlight(p, k)
    BY <1>4, <2>1 DEF BatchInv, InFlight
  <2>3. batch[p][k].id \in Event \ {Current(p)}
    <3>1. batch[p][k].id \in Event
      BY <2>1, EntryType DEF SingleInv, SharedInv
    <3> QED
      BY <1>1, <1>4, <2>1, <3>1 DEF BatchInv
  <2>4. /\ status'[batch[p][k].id] = status[batch[p][k].id]
        /\ retryCount'[batch[p][k].id] = retryCount[batch[p][k].id]
        /\ attempts'[batch[p][k].id] = attempts[batch[p][k].id]
    BY <2>3
  <2>5. pc[p] # "found" /\ pc'[p] # "found" /\ ~InFlight(p, i)'
        /\ pc'[p] \notin {"published", "failed", "deadletter"}
    BY <1>2 DEF InFlight
  <2> HIDE DEF k
  <2> QED
    BY <2>1, <2>2, <2>4, <2>5 DEF EntryInv
<1> QED
  BY <1>5, <1>6 DEF BatchInv

LEMMA BatchInvAbandon ==
    ASSUME SingleInv, NEW p \in Poller, NEW to \in {"down", "idle"},
           Abandon(p, to)
    PROVE  BatchInv(p)'
<1>1. batch'[p] = <<>>
  BY DEF SingleInv, SharedInv, TypeOK, Abandon
<1> QED
  BY <1>1 DEF BatchInv

\* A step inside processEvent that keeps the batch and writes the current row
\* only keeps the entries behind it.
LEMMA BatchInvInPlace ==
    ASSUME SingleInv, NEW p \in Poller,
           pc[p] \in {"publish", "published", "failed"},
           pc'[p] \in {"published", "failed", "deadletter"},
           batch'[p] = batch[p],
           \A e \in Event \ {Current(p)} :
              /\ status'[e] = status[e]
              /\ retryCount'[e] = retryCount[e]
              /\ attempts'[e] = attempts[e],
           EntryInv(p, 1)'
    PROVE  BatchInv(p)'
<1>1. /\ batch[p] \in Seq(Row)
      /\ Current(p) = batch[p][1].id
      /\ 1 \in 1..Len(batch[p])
  BY SingleCurrent
<1>2. BatchInv(p)
  BY DEF SingleInv
<1>3. ASSUME NEW i \in 1..Len(batch[p]), i # 1
      PROVE  EntryInv(p, i)'
  <2>1. EntryInv(p, i) /\ ~InFlight(p, i) /\ ~InFlight(p, i)'
    BY <1>2, <1>3 DEF BatchInv, InFlight
  <2>2. batch[p][i].id \in Event \ {Current(p)}
    <3>1. batch[p][i].id \in Event
      BY EntryType DEF SingleInv, SharedInv
    <3> QED
      BY <1>1, <1>2, <1>3, <3>1 DEF BatchInv
  <2>3. /\ status'[batch[p][i].id] = status[batch[p][i].id]
        /\ retryCount'[batch[p][i].id] = retryCount[batch[p][i].id]
        /\ attempts'[batch[p][i].id] = attempts[batch[p][i].id]
    BY <2>2
  <2>4. pc[p] # "found" /\ pc'[p] # "found"
    OBVIOUS
  <2> QED
    BY <1>3, <2>1, <2>3, <2>4 DEF EntryInv
<1> QED
  BY <1>2, <1>3 DEF BatchInv

(***************************************************************************)
(* Inductiveness.                                                          *)
(***************************************************************************)

LEMMA NextSingle == SinglePoller => (SingleInv /\ [Next]_vars => SingleInv')
<1> SUFFICES ASSUME SinglePoller, SingleInv, [Next]_vars
             PROVE  SingleInv'
  OBVIOUS
<1>t. TypeOK /\ SharedInv /\ SharedInv' /\ TypeOK'
  BY NextShared DEF SingleInv, SharedInv
<1>c. \A e \in Event : CountInv(e)
  BY DEF SingleInv
<1>b. \A p \in Poller : BatchInv(p)
  BY DEF SingleInv
<1>1. ASSUME NEW e \in Event, EventStep(e)
      PROVE  SingleInv'
  <2>1. UNCHANGED <<pollerVars, brokerVars, retryCount>>
    BY <1>1 DEF EventStep, WriteOutboxEvent, Commit, Rollback, LockExpires, rowVars
  <2>2. \A x \in Event : status[x] # "absent" => status'[x] = status[x]
    <3>1. tx[e] = "open" => status[e] = "absent"
      BY <1>t DEF SharedInv, RowInv
    <3> QED
      BY <1>1, <3>1, <1>t
      DEF EventStep, WriteOutboxEvent, Commit, Rollback, LockExpires, rowVars, TypeOK
  <2>3. \A x \in Event : status'[x] # status[x] =>
                            status[x] = "absent" /\ status'[x] = "PENDING"
    BY <1>1, <2>2, <1>t
    DEF EventStep, WriteOutboxEvent, Commit, Rollback, LockExpires, rowVars, TypeOK
  <2>4. ASSUME NEW x \in Event
        PROVE  CountInv(x)'
    <3>1. CountInv(x) /\ UNCHANGED <<retryCount, attempts, delivered, dlq>>
      BY <2>1, <1>c DEF brokerVars
    <3>2. CASE status'[x] = status[x]
      BY <3>1, <3>2 DEF CountInv
    <3>3. CASE status'[x] # status[x]
      <4>1. status[x] = "absent" /\ status'[x] = "PENDING"
        BY <2>3, <3>3
      <4>2. 0 < MaxRetries
        OBVIOUS
      <4> QED
        BY <3>1, <4>1, <4>2 DEF CountInv
    <3> QED
      BY <3>2, <3>3
  <2>5. ASSUME NEW p \in Poller
        PROVE  BatchInv(p)'
    <3>1. ASSUME NEW i \in 1..Len(batch[p])
          PROVE  EntryInv(p, i)'
      <4>1. EntryInv(p, i) /\ batch[p][i].id \in Event
        BY <1>b, <1>t, EntryType DEF BatchInv
      <4>2. pc[p] \notin {"down", "idle"}
        BY <1>t DEF TypeOK
      <4>3. pc[p] \in {"found", "publish", "published", "failed", "deadletter"}
        BY <4>2, <1>t DEF TypeOK, PollerPC
      <4>4. status[batch[p][i].id] # "absent"
        BY <4>1, <4>3 DEF EntryInv, InFlight
      <4>5. status'[batch[p][i].id] = status[batch[p][i].id]
        BY <2>2, <4>1, <4>4
      <4> QED
        BY <2>1, <4>1, <4>5 DEF EntryInv, InFlight, pollerVars, brokerVars
    <3> QED
      BY <2>1, <3>1, <1>b DEF BatchInv, pollerVars
  <2> QED
    BY <1>t, <2>4, <2>5 DEF SingleInv
<1>2. ASSUME NEW p \in Poller, PollerStep(p) \/ Crash(p)
      PROVE  SingleInv'
  <2>1. SUFFICES (\A e \in Event : CountInv(e)') /\ BatchInv(p)'
    BY <1>t DEF SingleInv, SinglePoller
  <2>2. CASE Start(p) \/ FindNothing(p) \/ Crash(p)
    <3>1. UNCHANGED <<rowVars, brokerVars>>
      BY <2>2 DEF Start, FindNothing, Crash, vars, rowVars, brokerVars
    <3>2. \A e \in Event : CountInv(e)'
      BY <3>1, <1>c DEF CountInv, rowVars, brokerVars
    <3>3. CASE Start(p)
      <4>1. batch[p] = <<>> /\ batch' = batch
        BY <3>3, <1>t DEF Start, TypeOK
      <4> QED
        BY <3>2, <4>1 DEF BatchInv
    <3>4. CASE FindNothing(p)
      BY <3>2, <3>4, <1>b DEF FindNothing, vars, BatchInv, EntryInv, InFlight
    <3>5. CASE Crash(p)
      BY <3>2, <3>5, BatchInvAbandon DEF Crash
    <3> QED
      BY <2>2, <3>3, <3>4, <3>5
  <2>3. CASE Find(p)
    <3>1. PICK n \in 1..BatchSize :
             \E b \in [1..n -> Event] :
                IsBatch(b) /\ batch' = [batch EXCEPT ![p] = Rows(b)]
      BY <2>3 DEF Find
    <3>. PICK b \in [1..n -> Event] :
             IsBatch(b) /\ batch' = [batch EXCEPT ![p] = Rows(b)]
      BY <3>1
    <3>2. n \in Nat \ {0} /\ retryCount \in [Event -> Nat]
      BY <1>t DEF TypeOK
    <3>3. /\ Len(Rows(b)) = n
          /\ \A i \in 1..n : Rows(b)[i].id = b[i]
          /\ \A i \in 1..n : Rows(b)[i].retryCount = retryCount[b[i]]
      BY <3>2, RowsType
    <3>4. batch'[p] = Rows(b) /\ pc'[p] = "found"
      BY <2>3, <1>t DEF Find, TypeOK
    <3>5. \A i \in 1..n : b[i] \in Event /\ status[b[i]] = "PENDING"
      BY DEF IsBatch, Claimable
    <3>6. UNCHANGED <<rowVars, brokerVars>>
      BY <2>3 DEF Find
    <3>7. \A i \in 1..n : EntryInv(p, i)'
      BY <3>3, <3>4, <3>5, <3>6, <1>c
      DEF EntryInv, InFlight, CountInv, rowVars, brokerVars
    <3>8. \A i, j \in 1..n : i # j => b[i] # b[j]
      <4>1. \A i, j \in 1..n : i < j => b[i] # b[j]
        BY DEF IsBatch
      <4> QED
        BY <4>1
    <3>9. BatchInv(p)'
      BY <3>3, <3>4, <3>7, <3>8 DEF BatchInv
    <3> QED
      BY <3>6, <3>9, <1>c DEF CountInv, rowVars, brokerVars
  <2>4. CASE Claim(p) \/ ClaimFails(p)
    <3>1. pc[p] = "found" /\ UNCHANGED brokerVars
      BY <2>4 DEF Claim, ClaimFails
    <3>2. \A i \in 1..Len(batch[p]) : EntryInv(p, i) /\ batch[p][i].id \in Event
      BY <1>b, <1>t, EntryType DEF BatchInv
    <3>3. \A e \in Event : InBatch(p, e) => status[e] = "PENDING"
      <4>1. DOMAIN batch[p] = 1..Len(batch[p])
        BY <1>t DEF TypeOK
      <4> QED
        BY <3>1, <3>2, <4>1 DEF InBatch, EntryInv, InFlight
    <3>4. ASSUME UNCHANGED rowVars
          PROVE  \A e \in Event : CountInv(e)'
      BY <3>1, <3>4, <1>c DEF CountInv, rowVars, brokerVars
    <3>5. ASSUME LockRows(p)
          PROVE  \A e \in Event : CountInv(e)'
      <4>1. ASSUME NEW e \in Event
            PROVE  CountInv(e)'
        <5>1. CASE InBatch(p, e)
          BY <3>1, <3>3, <3>5, <5>1, <1>c, <1>t
          DEF LockRows, CountInv, brokerVars, SharedInv, RowInv, TypeOK
        <5>2. CASE ~InBatch(p, e)
          BY <3>1, <3>5, <5>2, <1>c DEF LockRows, CountInv, brokerVars
        <5> QED
          BY <5>1, <5>2
      <4> QED
        BY <4>1
    <3>6. \A e \in Event : CountInv(e)'
      BY <2>4, <3>4, <3>5 DEF Claim, ClaimFails
    <3>7. CASE Claim(p)
      <4>1. pc'[p] = "publish" /\ batch' = batch
        BY <3>7, <1>t DEF Claim, TypeOK
      <4>2. ASSUME NEW i \in 1..Len(batch[p])
            PROVE  EntryInv(p, i)'
        <5>1. InBatch(p, batch[p][i].id) /\ batch[p][i].id \in Event
          <6>1. i \in DOMAIN batch[p]
            BY <1>t DEF TypeOK
          <6> QED
            BY <3>2, <6>1 DEF InBatch
        <5>2. /\ status'[batch[p][i].id] = "PROCESSING"
              /\ retryCount' = retryCount
          BY <3>7, <5>1 DEF Claim, LockRows
        <5> QED
          BY <3>1, <3>2, <4>1, <5>2 DEF EntryInv, InFlight, brokerVars
      <4>3. BatchInv(p)'
        BY <4>1, <4>2, <1>b DEF BatchInv
      <4> QED
        BY <3>6, <4>3
    <3>8. CASE ClaimFails(p)
      BY <3>6, <3>8, BatchInvAbandon DEF ClaimFails
    <3> QED
      BY <2>4, <3>7, <3>8
  <2>5. CASE PublishOk(p) \/ PublishFails(p)
    <3>1. PICK n \in {0, 1}, to \in {"published", "failed"} : Publish(p, n, to)
      BY <2>5 DEF PublishOk, PublishFails
    <3>2. pc[p] = "publish" /\ pc'[p] = to /\ batch' = batch
      BY <3>1, <1>t DEF Publish, TypeOK
    <3>3. /\ batch[p] \in Seq(Row)
          /\ Current(p) \in Event /\ Current(p) = batch[p][1].id
          /\ EntryInv(p, 1) /\ CountInv(Current(p))
          /\ retryCount[Current(p)] \in Nat /\ attempts[Current(p)] \in Nat
          /\ delivered[Current(p)] \in Nat
      BY <3>2, SingleCurrent
    <3>4. /\ batch[p][1].retryCount = retryCount[Current(p)]
          /\ attempts[Current(p)] = retryCount[Current(p)]
          /\ status[Current(p)] = "PROCESSING"
          /\ retryCount[Current(p)] < MaxRetries
      BY <3>2, <3>3 DEF EntryInv, InFlight, CountInv
    <3>5. /\ attempts'[Current(p)] = attempts[Current(p)] + 1
          /\ delivered'[Current(p)] = delivered[Current(p)] + n
          /\ UNCHANGED <<rowVars, dlq>>
          /\ \A e \in Event \ {Current(p)} :
                attempts'[e] = attempts[e] /\ delivered'[e] = delivered[e]
      BY <3>1, <3>3, <1>t DEF Publish, TypeOK
    <3>6. CountInv(Current(p))'
      <4>1. /\ status'[Current(p)] = "PROCESSING"
            /\ retryCount'[Current(p)] = retryCount[Current(p)]
            /\ Current(p) \notin dlq'
        BY <3>3, <3>4, <3>5 DEF CountInv, rowVars
      <4>2. delivered'[Current(p)] <= attempts'[Current(p)]
        BY <3>3, <3>5 DEF CountInv
      <4>3. \A x \in Event : x = Current(p) => CountInv(x)'
        BY <3>3, <3>4, <3>5, <4>1, <4>2 DEF CountInv
      <4>4. Current(p)' = Current(p)
        BY <3>2 DEF Current
      <4> QED
        BY <3>3, <4>3, <4>4
    <3>7. \A e \in Event : CountInv(e)'
      <4>1. Current(p)' = Current(p)
        BY <3>2 DEF Current
      <4>2. \A e \in Event \ {Current(p)} : CountInv(e)'
        BY <3>5, <1>c DEF CountInv, rowVars
      <4>3. \A e \in Event : e = Current(p) => CountInv(e)'
        BY <3>6, <4>1 DEF CountInv
      <4> QED
        BY <4>2, <4>3
    <3>8. EntryInv(p, 1)'
      BY <3>2, <3>3, <3>4, <3>5 DEF EntryInv, InFlight, rowVars
    <3>9. BatchInv(p)'
      BY <3>2, <3>5, <3>8, BatchInvInPlace DEF rowVars
    <3> QED
      BY <3>7, <3>9
  <2>6. CASE Complete(p) \/ CompleteFails(p)
    <3>1. pc[p] = "published" /\ UNCHANGED brokerVars
      BY <2>6 DEF Complete, CompleteFails
    <3>2. /\ batch[p] \in Seq(Row)
          /\ Current(p) \in Event /\ Current(p) = batch[p][1].id
          /\ EntryInv(p, 1) /\ CountInv(Current(p))
          /\ retryCount[Current(p)] \in Nat /\ attempts[Current(p)] \in Nat
      BY <3>1, SingleCurrent
    <3>3. /\ batch[p][1].retryCount = retryCount[Current(p)]
          /\ attempts[Current(p)] = retryCount[Current(p)] + 1
          /\ status[Current(p)] = "PROCESSING"
          /\ retryCount[Current(p)] < MaxRetries
          /\ Current(p) \notin dlq
      BY <3>1, <3>2 DEF EntryInv, InFlight, CountInv
    <3>4. /\ \A e \in Event \ {Current(p)} :
                status'[e] = status[e] /\ retryCount'[e] = retryCount[e]
          /\ retryCount'[Current(p)] = retryCount[Current(p)]
          /\ \/ status'[Current(p)] = "PROCESSING"
             \/ /\ status'[Current(p)] = "COMPLETED"
                /\ Complete(p) \/ "dback" \in Faults
      BY <2>6, <3>2, <3>3, <1>t
      DEF Complete, CompleteFails, MarkCompleted, Release, rowVars, TypeOK
    <3>5. \A e \in Event : CountInv(e)'
      <4>1. \A e \in Event \ {Current(p)} : CountInv(e)'
        BY <3>1, <3>4, <1>c DEF CountInv, brokerVars
      <4>2. \A e \in Event : e = Current(p) => CountInv(e)'
        BY <3>1, <3>2, <3>3, <3>4 DEF CountInv, brokerVars
      <4> QED
        BY <4>1, <4>2
    <3>6. CASE Complete(p)
      BY <3>1, <3>4, <3>5, <3>6, BatchInvAdvance DEF Complete, brokerVars
    <3>7. CASE CompleteFails(p)
      <4>1. pc'[p] = "failed" /\ batch' = batch
        BY <3>7, <1>t DEF CompleteFails, TypeOK
      <4>2. EntryInv(p, 1)'
        <5>1. ~Complete(p) \/ "dback" \in Faults
          BY <4>1, <1>t, <3>1 DEF Complete, Advance, TypeOK
        <5> QED
          BY <3>1, <3>2, <3>3, <3>4, <4>1, <5>1 DEF EntryInv, InFlight, brokerVars
      <4>3. BatchInv(p)'
        BY <3>1, <3>4, <4>1, <4>2, BatchInvInPlace DEF brokerVars
      <4> QED
        BY <3>5, <4>3
    <3> QED
      BY <2>6, <3>6, <3>7
  <2>7. CASE Retry(p) \/ Exhaust(p) \/ FailureUpdateFails(p)
    <3>1. pc[p] = "failed" /\ UNCHANGED brokerVars
      BY <2>7 DEF Retry, Exhaust, FailureUpdateFails
    <3>2. /\ batch[p] \in Seq(Row)
          /\ Current(p) \in Event /\ Current(p) = batch[p][1].id
          /\ NewRetryCount(p) = batch[p][1].retryCount + 1
          /\ EntryInv(p, 1) /\ CountInv(Current(p))
          /\ retryCount[Current(p)] \in Nat /\ attempts[Current(p)] \in Nat
      BY <3>1, SingleCurrent
    <3>3. /\ batch[p][1].retryCount = retryCount[Current(p)]
          /\ attempts[Current(p)] = retryCount[Current(p)] + 1
          /\ status[Current(p)] \in {"PROCESSING", "COMPLETED"}
          /\ retryCount[Current(p)] < MaxRetries
          /\ Current(p) \notin dlq
      BY <3>1, <3>2 DEF EntryInv, InFlight, CountInv
    <3>4. /\ \A e \in Event \ {Current(p)} :
                status'[e] = status[e] /\ retryCount'[e] = retryCount[e]
          /\ \/ UNCHANGED rowVars
             \/ /\ status'[Current(p)] = "PENDING"
                /\ retryCount'[Current(p)] = retryCount[Current(p)] + 1
                /\ retryCount[Current(p)] + 1 < MaxRetries
             \/ /\ status'[Current(p)] = "DEAD"
                /\ retryCount'[Current(p)] = retryCount[Current(p)] + 1
                /\ retryCount[Current(p)] + 1 >= MaxRetries
      <4>1. UNCHANGED rowVars \/ RestorePending(p) \/ MarkDead(p)
        BY <2>7 DEF Retry, Exhaust, FailureUpdateFails
      <4>2. CASE UNCHANGED rowVars
        BY <4>2 DEF rowVars
      <4>3. CASE RestorePending(p)
        BY <4>3, <3>2, <3>3, <1>t DEF RestorePending, Release, TypeOK
      <4>4. CASE MarkDead(p)
        BY <4>4, <3>2, <3>3, <1>t DEF MarkDead, Release, TypeOK
      <4> QED
        BY <4>1, <4>2, <4>3, <4>4
    <3>5. \A e \in Event : CountInv(e)'
      <4>1. \A e \in Event \ {Current(p)} : CountInv(e)'
        BY <3>1, <3>4, <1>c DEF CountInv, brokerVars
      <4>2. CASE UNCHANGED rowVars
        BY <3>1, <4>2, <1>c DEF CountInv, rowVars, brokerVars
      <4>3. CASE ~UNCHANGED rowVars
        <5> SUFFICES ASSUME NEW e \in Event, e = Current(p)
                     PROVE  CountInv(e)'
          BY <4>1
        <5>1. /\ attempts'[e] = retryCount[e] + 1
              /\ retryCount[e] < MaxRetries
              /\ retryCount'[e] = retryCount[e] + 1
              /\ delivered'[e] <= attempts'[e]
              /\ e \notin dlq'
              /\ retryCount[e] \in Nat
          BY <3>1, <3>2, <3>3, <3>4, <4>3 DEF CountInv, brokerVars
        <5>2. \/ status'[e] = "PENDING" /\ retryCount[e] + 1 < MaxRetries
              \/ status'[e] = "DEAD" /\ retryCount[e] + 1 >= MaxRetries
          BY <3>4, <4>3
        <5>3. status'[e] = "DEAD" => retryCount[e] + 1 = MaxRetries
          BY <5>1, <5>2
        <5> QED
          BY <5>1, <5>2, <5>3 DEF CountInv
      <4> QED
        BY <4>2, <4>3
    <3>6. CASE Retry(p)
      BY <3>1, <3>4, <3>5, <3>6, BatchInvAdvance DEF Retry, brokerVars
    <3>7. CASE Exhaust(p)
      <4>1. pc'[p] = "deadletter" /\ batch' = batch
        BY <3>7, <1>t DEF Exhaust, TypeOK
      <4>2. status'[Current(p)] = "DEAD"
        BY <3>2, <3>7, <1>t DEF Exhaust, MarkDead, Release, TypeOK
      <4>3. EntryInv(p, 1)'
        BY <3>2, <4>1, <4>2 DEF EntryInv, InFlight
      <4>4. BatchInv(p)'
        BY <3>1, <3>4, <4>1, <4>3, BatchInvInPlace DEF brokerVars
      <4> QED
        BY <3>5, <4>4
    <3>8. CASE FailureUpdateFails(p)
      BY <3>5, <3>8, BatchInvAbandon DEF FailureUpdateFails
    <3> QED
      BY <2>7, <3>6, <3>7, <3>8
  <2>8. CASE DeadLetter(p)
    <3>1. pc[p] = "deadletter" /\ UNCHANGED <<rowVars, attempts, delivered>>
      BY <2>8 DEF DeadLetter
    <3>2. status[Current(p)] = "DEAD" /\ Current(p) \in Event
      BY <3>1, SingleCurrent DEF EntryInv
    <3>3. \A e \in Event : CountInv(e)'
      BY <2>8, <3>1, <3>2, <1>c DEF DeadLetter, CountInv, rowVars
    <3>4. BatchInv(p)'
      BY <2>8, <3>1, BatchInvAdvance DEF DeadLetter, rowVars
    <3> QED
      BY <3>3, <3>4
  <2> QED
    BY <1>2, <2>2, <2>3, <2>4, <2>5, <2>6, <2>7, <2>8 DEF PollerStep
<1>3. CASE UNCHANGED vars
  <2>1. \A e \in Event : CountInv(e)'
    BY <1>3, <1>c DEF vars, CountInv
  <2>2. \A p \in Poller : BatchInv(p)'
    BY <1>3, <1>b DEF vars, BatchInv, EntryInv, InFlight
  <2> QED
    BY <1>t, <2>1, <2>2 DEF SingleInv
<1> QED
  BY <1>1, <1>2, <1>3 DEF Next

LEMMA SingleInvariant == SinglePoller => (Spec => []SingleInv)
<1> SUFFICES ASSUME SinglePoller PROVE Spec => []SingleInv
  OBVIOUS
<1>1. SingleInv /\ [Next]_vars => SingleInv'
  BY NextSingle
<1> QED
  BY <1>1, InitSingle, PTL DEF Spec

\* With one poller, whatever crashes, publish errors and database errors occur,
\* the broker gets an event at most MaxRetries times and only a DEAD event is
\* dead-lettered.
THEOREM SingleBounded == SinglePoller => (Spec => []BoundedDelivery)
<1> SUFFICES ASSUME SinglePoller PROVE Spec => []BoundedDelivery
  OBVIOUS
<1>1. SingleInv => BoundedDelivery
  <2> SUFFICES ASSUME SingleInv PROVE BoundedDelivery
    OBVIOUS
  <2>1. ASSUME NEW e \in Event
        PROVE  attempts[e] <= MaxRetries /\ delivered[e] <= MaxRetries
    <3>1. /\ CountInv(e)
          /\ status[e] \in Status
          /\ retryCount[e] \in Nat /\ attempts[e] \in Nat /\ delivered[e] \in Nat
      BY DEF SingleInv, SharedInv, TypeOK
    <3>2. attempts[e] <= MaxRetries
      <4>1. status[e] \in {"absent", "PENDING", "PROCESSING", "COMPLETED", "DEAD"}
        BY <3>1 DEF Status
      <4>2. \/ attempts[e] = 0
            \/ attempts[e] = retryCount[e] /\ retryCount[e] <= MaxRetries
            \/ attempts[e] = retryCount[e] + 1 /\ retryCount[e] < MaxRetries
        <5>1. CASE status[e] = "absent"
          BY <3>1, <5>1 DEF CountInv
        <5>2. CASE status[e] \in {"PENDING", "PROCESSING"}
          BY <3>1, <5>2 DEF CountInv
        <5>3. CASE status[e] = "COMPLETED"
          BY <3>1, <5>3 DEF CountInv
        <5>4. CASE status[e] = "DEAD"
          BY <3>1, <5>4 DEF CountInv
        <5> QED
          BY <4>1, <5>1, <5>2, <5>3, <5>4
      <4> QED
        BY <3>1, <4>2
    <3> QED
      BY <3>1, <3>2 DEF CountInv
  <2>2. \A e \in dlq : status[e] = "DEAD"
    BY DEF SingleInv, SharedInv, TypeOK, CountInv
  <2> QED
    BY <2>1, <2>2 DEF BoundedDelivery
<1> QED
  BY <1>1, SingleInvariant, PTL

\* With one poller retryCount is exact.
THEOREM SingleCounts == SinglePoller => (Spec => []RetryCountIsFailures)
<1> SUFFICES ASSUME SinglePoller PROVE Spec => []RetryCountIsFailures
  OBVIOUS
<1>1. SingleInv => RetryCountIsFailures
  <2> SUFFICES ASSUME SingleInv, NEW e \in Event
               PROVE  CASE status[e] = "PENDING"    -> attempts[e] = retryCount[e]
                        [] status[e] = "PROCESSING" -> attempts[e] - retryCount[e] \in {0, 1}
                        [] status[e] = "COMPLETED"  -> attempts[e] = retryCount[e] + 1
                        [] status[e] = "DEAD"       -> attempts[e] = retryCount[e]
                        [] OTHER                    -> attempts[e] = 0
    BY DEF RetryCountIsFailures
  <2>1. /\ CountInv(e)
        /\ status[e] \in Status
        /\ retryCount[e] \in Nat /\ attempts[e] \in Nat
    BY DEF SingleInv, SharedInv, TypeOK
  <2> QED
    BY <2>1 DEF CountInv, Status
<1> QED
  BY <1>1, SingleInvariant, PTL

(***************************************************************************)
(* Order.  An event that was committed before another was written is       *)
(* attempted, an orphan or ahead of the other in the batch: a batch is the *)
(* oldest of what waits, and the loop only shortens it.                    *)
(***************************************************************************)

Covered(o) == attempts[o] > 0 \/ Orphan(o)

Ahead(p, i, o) == \E j \in 1..Len(batch[p]) : j < i /\ batch[p][j].id = o

BeforeInv ==
    /\ \A e \in Event : tx[e] = "committed" => status[e] # "absent"
    /\ \A e \in Event : \A o \in before[e] :
          tx[o] = "committed" /\ createdAt[o] < createdAt[e]

AheadInv(p) ==
    \A i \in 1..Len(batch[p]) : \A o \in before[batch[p][i].id] :
        Covered(o) \/ Ahead(p, i, o)

OrderInv == BeforeInv /\ CommittedFirst /\ \A p \in Poller : AheadInv(p)

\* A step leaves a poller's batch alone, drops it, drops its head or reads one.
LEMMA BatchSteps ==
    ASSUME TypeOK, [Next]_vars, NEW p \in Poller
    PROVE  \/ batch'[p] = batch[p]
           \/ batch'[p] = <<>>
           \/ pc[p] \notin {"down", "idle"} /\ batch'[p] = Tail(batch[p])
           \/ Find(p)
<1>1. CASE UNCHANGED vars
  BY <1>1 DEF vars
<1>2. ASSUME NEW e \in Event, EventStep(e)
      PROVE  batch' = batch
  BY <1>2
  DEF EventStep, WriteOutboxEvent, Commit, Rollback, LockExpires, pollerVars
<1>3. ASSUME NEW q \in Poller,
             \/ Start(q) \/ FindNothing(q) \/ Claim(q) \/ PublishOk(q)
             \/ PublishFails(q) \/ CompleteFails(q) \/ Exhaust(q)
      PROVE  batch' = batch
  BY <1>3 DEF Start, FindNothing, Claim, PublishOk, PublishFails, Publish,
              CompleteFails, Exhaust, vars
<1>4. ASSUME NEW q \in Poller,
             ClaimFails(q) \/ FailureUpdateFails(q) \/ Crash(q)
      PROVE  batch'[p] = batch[p] \/ batch'[p] = <<>>
  BY <1>4 DEF ClaimFails, FailureUpdateFails, Crash, Abandon, TypeOK
<1>5. ASSUME NEW q \in Poller, Complete(q) \/ Retry(q) \/ DeadLetter(q)
      PROVE  \/ batch'[p] = batch[p]
             \/ pc[p] \notin {"down", "idle"} /\ batch'[p] = Tail(batch[p])
  BY <1>5 DEF Complete, Retry, DeadLetter, Advance, TypeOK
<1>6. ASSUME NEW q \in Poller, Find(q)
      PROVE  batch'[p] = batch[p] \/ Find(p)
  BY <1>6 DEF Find, TypeOK
<1> QED
  BY <1>1, <1>2, <1>3, <1>4, <1>5, <1>6 DEF Next, PollerStep

\* A batch gets shorter, and not empty, only when its current row is finished.
LEMMA BatchShrinks ==
    ASSUME TypeOK, [Next]_vars, NEW p \in Poller,
           pc[p] \notin {"down", "idle"}, Len(batch'[p]) > 0,
           Len(batch[p]) = Len(batch'[p]) + 1
    PROVE  pc[p] \in {"published", "failed", "deadletter"}
<1>l. batch'[p] # batch[p] /\ batch'[p] # <<>>
  <2>1. batch[p] \in Seq(Row) /\ batch'[p] \in Seq(Row)
    BY NextType DEF TypeOK
  <2>2. Len(batch'[p]) \in Nat /\ Len(batch[p]) \in Nat
    BY <2>1
  <2> QED
    BY <2>2
<1>1. ASSUME NEW q \in Poller, Complete(q) \/ Retry(q) \/ DeadLetter(q)
      PROVE  pc[p] \in {"published", "failed", "deadletter"}
  BY <1>l, <1>1 DEF Complete, Retry, DeadLetter, Advance, TypeOK
<1>2. ASSUME NEW q \in Poller,
             ClaimFails(q) \/ FailureUpdateFails(q) \/ Crash(q) \/ Find(q)
      PROVE  FALSE
  BY <1>l, <1>2 DEF ClaimFails, FailureUpdateFails, Crash, Find, Abandon, TypeOK
<1>3. ~UNCHANGED batch
  BY <1>l
<1> QED
  BY <1>1, <1>2, <1>3 DEF Next, EventStep, WriteOutboxEvent, Commit, Rollback,
     LockExpires, PollerStep, Start, FindNothing, Claim, PublishOk,
     PublishFails, Publish, CompleteFails, Exhaust, vars, pollerVars

\* A poller writes the status of rows of its batch only.
LEMMA StatusOfBatch ==
    ASSUME TypeOK, NEW p \in Poller, PollerStep(p) \/ Crash(p),
           NEW o \in Event, ~InBatch(p, o)
    PROVE  status'[o] = status[o]
<1>1. CASE \/ Start(p) \/ FindNothing(p) \/ Find(p) \/ PublishOk(p)
           \/ PublishFails(p) \/ DeadLetter(p) \/ Crash(p)
  BY <1>1 DEF Start, FindNothing, Find, PublishOk, PublishFails, Publish,
     DeadLetter, Crash, vars, rowVars
<1>2. CASE Claim(p) \/ ClaimFails(p)
  BY <1>2 DEF Claim, ClaimFails, LockRows, rowVars
<1>3. CASE \/ Complete(p) \/ CompleteFails(p) \/ Retry(p) \/ Exhaust(p)
           \/ FailureUpdateFails(p)
  <2>1. pc[p] \notin {"down", "idle"}
    BY <1>3 DEF Complete, CompleteFails, Retry, Exhaust, FailureUpdateFails
  <2>2. o # Current(p)
    <3>1. Current(p) = batch[p][1].id /\ 1 \in DOMAIN batch[p]
      BY <2>1, CurrentType DEF Current
    <3> QED
      BY <3>1 DEF InBatch
  <2> QED
    BY <1>3, <2>2 DEF Complete, CompleteFails, Retry, Exhaust,
       FailureUpdateFails, MarkCompleted, RestorePending, MarkDead, Release,
       rowVars, TypeOK
<1> QED
  BY <1>1, <1>2, <1>3 DEF PollerStep

\* What Find reads: rows that wait, and of the waiting rows the oldest.
LEMMA FoundRows ==
    ASSUME SharedInv, NEW p \in Poller, Find(p)
    PROVE  /\ \A i \in 1..Len(batch'[p]) :
                 /\ batch'[p][i].id \in Event
                 /\ status[batch'[p][i].id] = "PENDING"
           /\ \A i \in 1..Len(batch'[p]) : \A o \in Event :
                 /\ status[o] = "PENDING"
                 /\ createdAt[o] < createdAt[batch'[p][i].id]
                 => Ahead(p, i, o)'
<1>t. TypeOK
  BY DEF SharedInv
<1>0. PICK n \in 1..BatchSize :
         \E b \in [1..n -> Event] :
            IsBatch(b) /\ batch' = [batch EXCEPT ![p] = Rows(b)]
  BY DEF Find
<1>1. PICK b \in [1..n -> Event] :
         IsBatch(b) /\ batch' = [batch EXCEPT ![p] = Rows(b)]
  BY <1>0
<1>2. Len(Rows(b)) = n /\ \A k \in 1..n : Rows(b)[k].id = b[k]
  <2>1. n \in Nat \ {0} /\ retryCount \in [Event -> Nat]
    BY <1>t DEF TypeOK
  <2> QED
    BY <2>1, RowsType
<1>3. /\ batch'[p] = Rows(b) /\ Len(batch'[p]) = n
      /\ \A k \in 1..n : batch'[p][k].id = b[k]
  BY <1>t, <1>1, <1>2 DEF TypeOK
<1>4. \A k \in 1..n : b[k] \in Event /\ status[b[k]] = "PENDING"
  BY <1>1 DEF IsBatch, Claimable
<1>5. ASSUME NEW i \in 1..n, NEW o \in Event, status[o] = "PENDING",
             createdAt[o] < createdAt[b[i]]
      PROVE  \E j \in 1..n : j < i /\ b[j] = o
  <2>n. createdAt[o] \in Nat /\ createdAt[b[i]] \in Nat
    BY <1>4, <1>t DEF TypeOK
  <2>1. Claimable(o)
    BY <1>5 DEF SharedInv, RowInv, Claimable
  <2>2. \E j \in 1..n : b[j] = o
    BY <1>1, <1>5, <2>1, <2>n DEF IsBatch
  <2>3. PICK j \in 1..n : b[j] = o
    BY <2>2
  <2>4. ~(i < j)
    BY <1>1, <1>5, <2>3, <2>n DEF IsBatch
  <2>5. i # j
    BY <1>5, <2>3, <2>n
  <2> QED
    BY <2>3, <2>4, <2>5
<1>6. \A i \in 1..n : \A o \in Event :
         /\ status[o] = "PENDING"
         /\ createdAt[o] < createdAt[batch'[p][i].id]
         => \E j \in 1..n : j < i /\ batch'[p][j].id = o
  BY <1>3, <1>5
<1> QED
  BY <1>3, <1>4, <1>6 DEF Ahead

\* Attempts are only added, and for the row at the head of a batch.
LEMMA AttemptsGrow ==
    ASSUME TypeOK, [Next]_vars, NEW e \in Event
    PROVE  /\ attempts'[e] >= attempts[e]
           /\ \/ attempts'[e] = attempts[e]
              \/ \E p \in Poller : /\ pc[p] = "publish" /\ e = Current(p)
                                   /\ UNCHANGED batch
<1>t. attempts[e] \in Nat
  BY DEF TypeOK
<1>1. CASE attempts' = attempts
  BY <1>t, <1>1
<1>2. ASSUME NEW p \in Poller, PublishOk(p) \/ PublishFails(p)
      PROVE  /\ attempts'[e] >= attempts[e]
             /\ \/ attempts'[e] = attempts[e]
                \/ pc[p] = "publish" /\ e = Current(p) /\ UNCHANGED batch
  BY <1>t, <1>2 DEF PublishOk, PublishFails, Publish, TypeOK
<1> QED
  BY <1>1, <1>2 DEF Next, EventStep, WriteOutboxEvent, Commit, Rollback,
     LockExpires, PollerStep, Start, FindNothing, Find, Claim, ClaimFails,
     Complete, CompleteFails, Retry, Exhaust, FailureUpdateFails, DeadLetter,
     Crash, vars, brokerVars

\* What is attempted or an orphan stays so: nothing reaps an orphan.
LEMMA CoveredStays ==
    ASSUME SinglePoller, SingleInv, [Next]_vars, NEW o \in Event, Covered(o)
    PROVE  Covered(o)'
<1>t. TypeOK /\ SharedInv
  BY DEF SingleInv, SharedInv
<1>1. CASE attempts[o] > 0
  <2>1. attempts'[o] >= attempts[o] /\ attempts[o] \in Nat /\ attempts'[o] \in Nat
    BY <1>t, AttemptsGrow, NextType DEF TypeOK
  <2> QED
    BY <1>1, <2>1 DEF Covered
<1>2. CASE Orphan(o)
  <2>1. status[o] = "PROCESSING" /\ \A p \in Poller : ~InBatch(p, o)
    BY <1>2 DEF Orphan
  <2>2. CASE UNCHANGED vars
    BY <2>1, <2>2 DEF vars, Covered, Orphan, InBatch
  <2>3. ASSUME NEW e \in Event, EventStep(e)
        PROVE  Orphan(o)'
    <3>1. tx[o] = "committed"
      BY <1>t, <2>1 DEF SharedInv, RowInv
    <3>2. batch' = batch /\ status'[o] = status[o]
      BY <2>3, <3>1, <1>t DEF EventStep, WriteOutboxEvent, Commit, Rollback,
         LockExpires, rowVars, pollerVars, TypeOK
    <3> QED
      BY <2>1, <3>2 DEF Orphan, InBatch
  <2>4. ASSUME NEW p \in Poller, PollerStep(p) \/ Crash(p)
        PROVE  Orphan(o)'
    <3>1. status'[o] = "PROCESSING"
      BY <1>t, <2>1, <2>4, StatusOfBatch
    <3>2. ASSUME NEW i \in DOMAIN batch'[p], batch'[p][i].id = o
          PROVE  FALSE
      <4>t. batch[p] \in Seq(Row) /\ batch'[p] \in Seq(Row)
        BY <1>t, NextType DEF TypeOK
      <4>1. CASE batch'[p] = batch[p]
        BY <2>1, <3>2, <4>1 DEF InBatch
      <4>2. CASE batch'[p] = <<>>
        BY <3>2, <4>2
      <4>3. CASE pc[p] \notin {"down", "idle"} /\ batch'[p] = Tail(batch[p])
        <5>1. batch[p] # <<>>
          BY <1>t, <4>3, CurrentType
        <5>2. i + 1 \in DOMAIN batch[p] /\ batch[p][i + 1].id = o
          BY <3>2, <4>t, <4>3, <5>1
        <5> QED
          BY <2>1, <5>2 DEF InBatch
      <4>4. CASE Find(p)
        <5>1. i \in 1..Len(batch'[p])
          BY <3>2, <4>t
        <5> QED
          BY <1>t, <2>1, <3>2, <4>4, <5>1, FoundRows
      <4> QED
        BY <1>t, <4>1, <4>2, <4>3, <4>4, BatchSteps
    <3>3. ~InBatch(p, o)'
      BY <3>2 DEF InBatch
    <3> QED
      BY <3>1, <3>3 DEF Orphan, SinglePoller
  <2> QED
    BY <2>2, <2>3, <2>4 DEF Next, Covered
<1> QED
  BY <1>1, <1>2 DEF Covered

\* What was committed before an event was written is only added when it is.
LEMMA BeforeNext ==
    ASSUME TypeOK, BeforeInv, [Next]_vars
    PROVE  /\ BeforeInv'
           /\ \A e \in Event : before'[e] = before[e] \/ tx[e] = "none"
<1>1. ASSUME NEW e \in Event, EventStep(e)
      PROVE  /\ BeforeInv'
             /\ \A x \in Event : before'[x] = before[x] \/ tx[x] = "none"
  <2>1. CASE WriteOutboxEvent(e)
    <3>1. /\ tx[e] = "none" /\ tx' = [tx EXCEPT ![e] = "open"]
          /\ createdAt' = [createdAt EXCEPT ![e] = clock']
          /\ before' = [before EXCEPT ![e] =
                           {o \in Event : tx[o] = "committed" /\ createdAt[o] < clock'}]
          /\ status' = status
      BY <2>1 DEF WriteOutboxEvent, rowVars
    <3> QED
      BY <3>1 DEF BeforeInv, TypeOK
  <2>2. CASE Commit(e) \/ Rollback(e) \/ LockExpires(e)
    BY <2>2 DEF Commit, Rollback, LockExpires, rowVars, txVars, BeforeInv, TypeOK
  <2> QED
    BY <1>1, <2>1, <2>2 DEF EventStep
<1>2. ASSUME NEW p \in Poller, PollerStep(p) \/ Crash(p)
      PROVE  /\ BeforeInv'
             /\ \A x \in Event : before'[x] = before[x] \/ tx[x] = "none"
  <2>1. UNCHANGED txVars
    BY <1>2 DEF PollerStep, Start, FindNothing, Find, Claim, ClaimFails,
       PublishOk, PublishFails, Publish, Complete, CompleteFails, Retry, Exhaust,
       FailureUpdateFails, DeadLetter, Crash, vars, txVars
  <2>2. \A x \in Event : status'[x] # status[x] => status'[x] # "absent"
    BY <1>2 DEF PollerStep, Start, FindNothing, Find, Claim, ClaimFails,
       PublishOk, PublishFails, Publish, Complete, CompleteFails, Retry, Exhaust,
       FailureUpdateFails, DeadLetter, Crash, vars, rowVars, LockRows,
       MarkCompleted, RestorePending, MarkDead, Release, TypeOK
  <2> QED
    BY <2>1, <2>2 DEF BeforeInv, txVars
<1>3. CASE UNCHANGED vars
  BY <1>3 DEF vars, BeforeInv
<1> QED
  BY <1>1, <1>2, <1>3 DEF Next

\* The rows of a batch are as its poller read them, less what it has finished.
LEMMA AheadNext ==
    ASSUME SinglePoller, SingleInv, OrderInv, [Next]_vars, NEW p \in Poller
    PROVE  AheadInv(p)'
<1>t. TypeOK /\ SharedInv /\ TypeOK'
  BY NextType DEF SingleInv, SharedInv
<1> SUFFICES ASSUME NEW i \in 1..Len(batch'[p]),
                    NEW o \in before'[batch'[p][i].id]
             PROVE  Covered(o)' \/ Ahead(p, i, o)'
  BY DEF AheadInv, Ahead, Covered, Orphan, InBatch
<1>o. /\ o \in Event /\ batch'[p][i].id \in Event
      /\ batch'[p] \in Seq(Row) /\ batch[p] \in Seq(Row)
  <2>1. batch'[p] \in Seq(Row) /\ batch[p] \in Seq(Row)
    BY <1>t DEF TypeOK
  <2>2. batch'[p][i] \in Row
    BY <2>1
  <2>3. batch'[p][i].id \in Event
    BY <2>2 DEF Row
  <2> QED
    BY <1>t, <2>1, <2>3 DEF TypeOK
<1>k. ASSUME NEW k \in 1..Len(batch[p]), batch[p][k].id = batch'[p][i].id
      PROVE  Covered(o)' \/ Ahead(p, k, o)
  <2>1. tx[batch[p][k].id] = "committed"
    BY DEF SingleInv, SharedInv, PollerInv
  <2>2. o \in before[batch[p][k].id]
    BY <1>t, <1>k, <1>o, <2>1, BeforeNext DEF OrderInv
  <2>3. Covered(o) \/ Ahead(p, k, o)
    BY <2>2 DEF OrderInv, AheadInv
  <2> QED
    BY <1>o, <2>3, CoveredStays
<1>1. CASE batch'[p] = batch[p]
  BY <1>k, <1>1 DEF Ahead
<1>2. CASE batch'[p] = <<>>
  BY <1>2
<1>3. CASE pc[p] \notin {"down", "idle"} /\ batch'[p] = Tail(batch[p])
  <2>1. batch[p] # <<>>
    BY <1>t, <1>3, CurrentType
  <2>2. /\ \A k \in 1..Len(batch'[p]) : batch'[p][k] = batch[p][k + 1]
        /\ Len(batch[p]) = Len(batch'[p]) + 1 /\ Len(batch'[p]) \in Nat
    BY <1>o, <1>3, <2>1
  <2>3. Covered(o)' \/ Ahead(p, i + 1, o)
    BY <1>k, <2>2
  <2>4. CASE Ahead(p, i + 1, o)
    <3>1. PICK j \in 1..Len(batch[p]) : j < i + 1 /\ batch[p][j].id = o
      BY <2>4 DEF Ahead
    <3>2. CASE j = 1
      <4>1. Len(batch'[p]) > 0
        BY <2>2
      <4>2. pc[p] \in {"published", "failed", "deadletter"}
        BY <1>t, <1>3, <2>2, <4>1, BatchShrinks
      <4>3. /\ EntryInv(p, 1) /\ CountInv(Current(p)) /\ Current(p) = batch[p][1].id
            /\ retryCount[Current(p)] \in Nat /\ attempts[Current(p)] \in Nat
        BY <1>3, SingleCurrent
      <4>4. attempts[Current(p)] > 0
        BY <4>2, <4>3 DEF EntryInv, CountInv
      <4>5. attempts[o] > 0
        BY <3>1, <3>2, <4>3, <4>4
      <4> QED
        BY <1>o, <4>5, CoveredStays DEF Covered
    <3>3. CASE j # 1
      <4>0. j - 1 \in 1..Len(batch'[p]) /\ j - 1 < i /\ (j - 1) + 1 = j
        BY <2>2, <3>1, <3>3
      <4>1. j - 1 \in 1..Len(batch'[p]) /\ j - 1 < i /\ batch'[p][j - 1] = batch[p][j]
        BY <2>2, <4>0
      <4> QED
        BY <3>1, <4>1 DEF Ahead
    <3> QED
      BY <3>2, <3>3
  <2> QED
    BY <2>3, <2>4
<1>4. CASE Find(p)
  <2>1. /\ batch[p] = <<>>
        /\ UNCHANGED <<txVars, rowVars>>
    BY <1>t, <1>4 DEF Find, TypeOK
  <2>2. /\ tx[o] = "committed" /\ createdAt[o] < createdAt[batch'[p][i].id]
        /\ status[o] # "absent" /\ status[o] \in Status
    BY <1>t, <1>o, <2>1 DEF OrderInv, BeforeInv, txVars, TypeOK
  <2>3. CASE status[o] = "PENDING"
    BY <1>t, <1>o, <1>4, <2>2, <2>3, FoundRows
  <2>4. CASE status[o] \in Settled
    <3>1. attempts[o] > 0
      <4>1. CountInv(o) /\ attempts[o] \in Nat /\ retryCount[o] \in Nat
        BY <1>t, <1>o DEF SingleInv, TypeOK
      <4> QED
        BY <2>4, <4>1 DEF CountInv, Settled
    <3> QED
      BY <1>o, <3>1, CoveredStays DEF Covered
  <2>5. CASE status[o] = "PROCESSING"
    <3>1. Orphan(o)
      BY <2>1, <2>5 DEF Orphan, InBatch, SinglePoller
    <3> QED
      BY <1>o, <3>1, CoveredStays DEF Covered
  <2> QED
    BY <2>2, <2>3, <2>4, <2>5 DEF Status, Settled
<1> QED
  BY <1>t, <1>1, <1>2, <1>3, <1>4, BatchSteps

\* Every step keeps the order.
LEMMA NextOrder ==
    SinglePoller => (SingleInv /\ OrderInv /\ [Next]_vars => OrderInv')
<1> SUFFICES ASSUME SinglePoller, SingleInv, OrderInv, [Next]_vars
             PROVE  OrderInv'
  OBVIOUS
<1>t. TypeOK /\ TypeOK'
  BY NextType DEF SingleInv, SharedInv
<1>1. BeforeInv' /\ \A e \in Event : before'[e] = before[e] \/ tx[e] = "none"
  BY <1>t, BeforeNext DEF OrderInv
<1>2. ASSUME NEW e \in Event, NEW o \in before'[e], attempts'[e] > 0
      PROVE  attempts'[o] > 0 \/ Orphan(o)'
  <2>o. o \in Event
    BY <1>t DEF TypeOK
  <2>1. CASE attempts[e] > 0
    <3>1. tx[e] # "none"
      <4>1. CountInv(e) /\ RowInv(e) /\ retryCount[e] \in Nat
        BY <1>t DEF SingleInv, SharedInv, TypeOK
      <4> QED
        BY <2>1, <4>1 DEF CountInv, RowInv
    <3>2. Covered(o)
      BY <1>1, <1>2, <2>1, <3>1 DEF OrderInv, CommittedFirst, Covered
    <3> QED
      BY <2>o, <3>2, CoveredStays DEF Covered
  <2>2. CASE ~(attempts[e] > 0)
    <3>1. PICK p \in Poller : pc[p] = "publish" /\ e = Current(p)
      BY <1>t, <1>2, <2>2, AttemptsGrow DEF TypeOK
    <3>2. 1 \in 1..Len(batch[p]) /\ batch[p][1].id = e
      BY <3>1, SingleCurrent
    <3>3. tx[e] = "committed"
      BY <3>2 DEF SingleInv, SharedInv, PollerInv
    <3>4. o \in before[e]
      BY <1>1, <1>2, <3>3
    <3>5. Covered(o) \/ Ahead(p, 1, o)
      BY <3>2, <3>4 DEF OrderInv, AheadInv
    <3>6. Covered(o)
      BY <3>5 DEF Ahead
    <3> QED
      BY <2>o, <3>6, CoveredStays DEF Covered
  <2> QED
    BY <2>1, <2>2
<1> QED
  BY <1>1, <1>2, AheadNext DEF OrderInv, CommittedFirst

\* One poller first attempts events in the order they were committed, whatever
\* fails: none is attempted while an earlier one waits untried.
THEOREM SingleInOrder == SinglePoller => (Spec => []CommittedFirst)
<1> SUFFICES ASSUME SinglePoller PROVE Spec => []CommittedFirst
  OBVIOUS
<1>1. Init => OrderInv
  BY DEF Init, OrderInv, BeforeInv, AheadInv, CommittedFirst
<1>2. Spec => []SingleInv
  BY SingleInvariant
<1>3. SingleInv /\ OrderInv /\ [Next]_vars => OrderInv'
  BY NextOrder
<1>4. OrderInv => CommittedFirst
  BY DEF OrderInv
<1> QED
  BY <1>1, <1>2, <1>3, <1>4, PTL DEF Spec

(***************************************************************************)
(* What a step of the only poller does to the rows, where no reply of the  *)
(* database is lost.  A lost reply to the update that completes a row may  *)
(* have its handler put the row back.                                      *)
(***************************************************************************)

NoLostReply == "dback" \notin Faults

Queued(e) == status[e] \in {"PENDING", "PROCESSING"}
Same(e)   == /\ status'[e] = status[e] /\ attempts'[e] = attempts[e]
             /\ delivered'[e] = delivered[e]

\* The row is claimed, or waits again.
Requeued(e) == /\ Queued(e) /\ Queued(e)'
               /\ attempts'[e] = attempts[e] /\ delivered'[e] = delivered[e]

\* Its publish has ended, with a message in the topic or without one.
Tried(e) == /\ Queued(e) /\ status'[e] = status[e]
            /\ \/ delivered'[e] = delivered[e]
               \/ delivered[e] < MaxRetries /\ delivered'[e] = delivered[e] + 1

Finished(e) == /\ Queued(e)
               /\ \/ status'[e] = "COMPLETED" /\ delivered[e] > 0
                  \/ status'[e] = "DEAD"
               /\ attempts'[e] = attempts[e] /\ delivered'[e] = delivered[e]

OneMoves(e) == /\ Requeued(e) \/ Tried(e) \/ Finished(e)
               /\ \A x \in Event \ {e} : Same(x)

\* A row whose publish or update is under way is PROCESSING.
LEMMA CurrentIsQueued ==
    ASSUME SingleInv, NoLostReply, NEW p \in Poller,
           pc[p] \in {"publish", "published", "failed"}
    PROVE  Current(p) \in Event /\ Queued(Current(p))
<1>1. /\ Current(p) \in Event /\ Current(p) = batch[p][1].id
      /\ EntryInv(p, 1)
  BY SingleCurrent
<1>2. status[Current(p)] = "PROCESSING"
  BY <1>1 DEF EntryInv, InFlight, NoLostReply
<1> QED
  BY <1>1, <1>2 DEF Queued

\* The update of one row leaves the others alone.
LEMMA ReleaseMoves ==
    ASSUME TypeOK, NEW e \in Event, NEW s, NEW n, Release(e, s, n),
           UNCHANGED brokerVars
    PROVE  /\ status'[e] = s
           /\ attempts'[e] = attempts[e] /\ delivered'[e] = delivered[e]
           /\ \A x \in Event \ {e} : Same(x)
BY DEF TypeOK, Release, brokerVars, Same

\* A step of the poller moves one row, or claims some.
LEMMA PollerMoves ==
    ASSUME SingleInv, NoLostReply, NEW p \in Poller, PollerStep(p) \/ Crash(p)
    PROVE  \/ \A e \in Event : Same(e) \/ Requeued(e)
           \/ \E e \in Event : OneMoves(e)
<1>t. TypeOK
  BY DEF SingleInv, SharedInv
<1>1. CASE Start(p) \/ FindNothing(p) \/ Find(p) \/ Crash(p)
  BY <1>1 DEF Start, FindNothing, Find, Crash, vars, rowVars, brokerVars, Same
<1>2. CASE Claim(p) \/ ClaimFails(p)
  <2>1. pc[p] = "found" /\ UNCHANGED brokerVars
    BY <1>2 DEF Claim, ClaimFails
  <2>2. UNCHANGED rowVars \/ LockRows(p)
    BY <1>2 DEF Claim, ClaimFails
  <2>3. ASSUME NEW e \in Event, InBatch(p, e)
        PROVE  status[e] = "PENDING"
    <3>1. PICK i \in DOMAIN batch[p] : batch[p][i].id = e
      BY <2>3 DEF InBatch
    <3>2. i \in 1..Len(batch[p])
      BY <1>t, <3>1 DEF TypeOK
    <3>3. EntryInv(p, i)
      BY <3>2 DEF SingleInv, BatchInv
    <3> QED
      BY <2>1, <3>1, <3>3 DEF EntryInv, InFlight
  <2>4. ASSUME NEW e \in Event
        PROVE  Same(e) \/ Requeued(e)
    <3>1. CASE UNCHANGED rowVars
      BY <2>1, <3>1 DEF rowVars, brokerVars, Same
    <3>2. CASE LockRows(p) /\ InBatch(p, e)
      BY <2>1, <2>3, <3>2 DEF LockRows, brokerVars, Requeued, Queued
    <3>3. CASE LockRows(p) /\ ~InBatch(p, e)
      BY <2>1, <3>3 DEF LockRows, brokerVars, Same
    <3> QED
      BY <2>2, <3>1, <3>2, <3>3
  <2> QED
    BY <2>4
<1>3. CASE PublishOk(p) \/ PublishFails(p)
  <2>1. PICK n \in {0, 1}, to \in {"published", "failed"} : Publish(p, n, to)
    BY <1>3 DEF PublishOk, PublishFails
  <2> DEFINE e == Current(p)
  <2>2. e \in Event /\ Queued(e) /\ pc[p] = "publish"
    BY <2>1, CurrentIsQueued DEF Publish
  <2>3. /\ delivered'[e] = delivered[e] + n
        /\ delivered[e] \in Nat
        /\ \A x \in Event \ {e} : Same(x)
        /\ status'[e] = status[e]
    BY <1>t, <2>1, <2>2 DEF Publish, TypeOK, rowVars, Same
  <2>4. delivered[e] < MaxRetries
    <3>1. EntryInv(p, 1) /\ CountInv(e) /\ e = batch[p][1].id
      BY <2>2, SingleCurrent
    <3>2. attempts[e] = retryCount[e] /\ status[e] = "PROCESSING"
      BY <2>2, <3>1 DEF EntryInv, InFlight
    <3>3. delivered[e] <= attempts[e] /\ retryCount[e] < MaxRetries
      BY <3>1, <3>2 DEF CountInv
    <3> QED
      BY <1>t, <2>2, <3>2, <3>3 DEF TypeOK
  <2>5. Tried(e)
    BY <2>2, <2>3, <2>4 DEF Tried
  <2> QED
    BY <2>2, <2>3, <2>5 DEF OneMoves
<1>4. CASE Complete(p) \/ CompleteFails(p)
  <2>1. pc[p] = "published" /\ UNCHANGED brokerVars
    BY <1>4 DEF Complete, CompleteFails
  <2>2. CASE UNCHANGED rowVars
    BY <2>1, <2>2 DEF rowVars, brokerVars, Same
  <2>3. CASE MarkCompleted(p)
    <3>1. Current(p) \in Event /\ Queued(Current(p))
      BY <2>1, CurrentIsQueued
    <3>2. delivered[Current(p)] > 0
      BY <2>1 DEF SingleInv, SharedInv, PollerInv
    <3>3. OneMoves(Current(p))
      BY <1>t, <2>1, <2>3, <3>1, <3>2, ReleaseMoves
      DEF MarkCompleted, OneMoves, Finished
    <3> QED
      BY <3>1, <3>3
  <2> QED
    BY <1>4, <2>2, <2>3 DEF Complete, CompleteFails
<1>5. CASE Retry(p) \/ Exhaust(p) \/ FailureUpdateFails(p)
  <2>1. pc[p] = "failed" /\ UNCHANGED brokerVars
    BY <1>5 DEF Retry, Exhaust, FailureUpdateFails
  <2>2. CASE UNCHANGED rowVars
    BY <2>1, <2>2 DEF rowVars, brokerVars, Same
  <2>3. CASE RestorePending(p) \/ MarkDead(p)
    <3>1. Current(p) \in Event /\ Queued(Current(p))
      BY <2>1, CurrentIsQueued
    <3>2. CASE RestorePending(p)
      BY <1>t, <2>1, <3>1, <3>2, ReleaseMoves
      DEF RestorePending, OneMoves, Requeued, Queued
    <3>3. CASE MarkDead(p)
      BY <1>t, <2>1, <3>1, <3>3, ReleaseMoves DEF MarkDead, OneMoves, Finished
    <3> QED
      BY <2>3, <3>2, <3>3
  <2> QED
    BY <1>5, <2>2, <2>3 DEF Retry, Exhaust, FailureUpdateFails
<1>6. CASE DeadLetter(p)
  BY <1>6 DEF DeadLetter, rowVars, Same
<1> QED
  BY <1>1, <1>2, <1>3, <1>4, <1>5, <1>6 DEF PollerStep

\* Where one poller drains the table and no reply of the database is lost, a
\* settled row stays as it is and is not published again.
THEOREM SettledForGood ==
    ASSUME SinglePoller, NoLostReply PROVE Spec => SettledIsFinal
<1>1. SingleInv /\ [Next]_vars =>
        [\A e \in Event :
           status[e] \in Settled =>
             /\ status'[e] = status[e]
             /\ attempts'[e] = attempts[e]]_vars
  <2> SUFFICES ASSUME SingleInv, [Next]_vars, NEW e \in Event, status[e] \in Settled
               PROVE  status'[e] = status[e] /\ attempts'[e] = attempts[e]
    OBVIOUS
  <2>1. CASE UNCHANGED vars
    BY <2>1 DEF vars
  <2>2. ASSUME NEW x \in Event, EventStep(x)
        PROVE  status'[e] = status[e] /\ attempts'[e] = attempts[e]
    <3>1. TypeOK /\ RowInv(e)
      BY DEF SingleInv, SharedInv
    <3>2. tx[e] = "committed"
      BY <3>1 DEF RowInv, Settled
    <3> QED
      BY <2>2, <3>1, <3>2
      DEF EventStep, WriteOutboxEvent, Commit, Rollback, LockExpires, TypeOK,
          rowVars, brokerVars
  <2>3. ASSUME NEW p \in Poller, PollerStep(p) \/ Crash(p)
        PROVE  status'[e] = status[e] /\ attempts'[e] = attempts[e]
    <3>1. ~Queued(e)
      BY DEF Queued, Settled
    <3> QED
      BY <2>3, <3>1, PollerMoves
      DEF Same, Requeued, OneMoves, Tried, Finished, Queued
  <2> QED
    BY <2>1, <2>2, <2>3 DEF Next
<1>2. Spec => []SingleInv
  BY SingleInvariant
<1> QED
  BY <1>1, <1>2, PTL DEF Spec, SettledIsFinal

(***************************************************************************)
(* The refinement.  A step of the outbox moves the stage or the copies of   *)
(* one event as EventDelivery allows, or it is hidden.                     *)
(***************************************************************************)

StageKept(e) == Stage(e)' = Stage(e) /\ delivered'[e] = delivered[e]

\* One event goes from a stage to another.
LEMMA StageMoves ==
    ASSUME NEW e \in Event, NEW from, NEW to,
           Stage(e) = from, Stage(e)' = to,
           \A x \in Event \ {e} : Stage(x)' = Stage(x), UNCHANGED delivered
    PROVE  Promise!Move(e, from, to)
BY DEF Promise!Move

\* Writing, committing and rolling back are those of EventDelivery.
LEMMA EventRefines ==
    ASSUME SharedInv, NEW e \in Event, EventStep(e)
    PROVE  Promise!Next \/ UNCHANGED Promise!evVars
<1>1. TypeOK /\ \A x \in Event : RowInv(x)
  BY DEF SharedInv
<1>2. UNCHANGED delivered
  BY DEF EventStep, WriteOutboxEvent, Commit, Rollback, LockExpires, brokerVars
<1>3. tx[e] \in {"none", "open"} => status[e] = "absent"
  BY <1>1 DEF RowInv, TypeOK
<1>4. ASSUME NEW x \in Event, status'[x] = status[x], tx'[x] = tx[x]
      PROVE  Stage(x)' = Stage(x)
  BY <1>4 DEF Stage
<1>5. CASE WriteOutboxEvent(e)
  <2>1. Stage(e) = "none" /\ Stage(e)' = "open"
    BY <1>1, <1>3, <1>5 DEF WriteOutboxEvent, Stage, TypeOK, rowVars
  <2>2. \A x \in Event \ {e} : Stage(x)' = Stage(x)
    BY <1>1, <1>4, <1>5 DEF WriteOutboxEvent, TypeOK, rowVars
  <2> QED
    BY <1>2, <2>1, <2>2, StageMoves DEF Promise!Next, Promise!Begin
<1>6. CASE Commit(e)
  <2>1. Stage(e) = "open" /\ Stage(e)' = "queued"
    BY <1>1, <1>3, <1>6 DEF Commit, Stage, TypeOK
  <2>2. \A x \in Event \ {e} : Stage(x)' = Stage(x)
    BY <1>1, <1>4, <1>6 DEF Commit, TypeOK
  <2> QED
    BY <1>2, <2>1, <2>2, StageMoves DEF Promise!Next, Promise!Commit
<1>7. CASE Rollback(e)
  <2>1. Stage(e) = "open" /\ Stage(e)' = "rolledback"
    BY <1>1, <1>3, <1>7 DEF Rollback, Stage, TypeOK, rowVars
  <2>2. \A x \in Event \ {e} : Stage(x)' = Stage(x)
    BY <1>1, <1>4, <1>7 DEF Rollback, TypeOK, rowVars
  <2> QED
    BY <1>2, <2>1, <2>2, StageMoves DEF Promise!Next, Promise!Rollback
<1>8. CASE LockExpires(e)
  <2>1. \A x \in Event : Stage(x)' = Stage(x)
    BY <1>4, <1>8 DEF LockExpires, txVars
  <2> QED
    BY <1>2, <2>1 DEF Promise!evVars
<1> QED
  BY <1>5, <1>6, <1>7, <1>8 DEF EventStep

\* A step of the poller is a Send, a Settle or a Park, or it is hidden.
LEMMA PollerRefines ==
    ASSUME SingleInv, TypeOK', NoLostReply, NEW p \in Poller,
           PollerStep(p) \/ Crash(p)
    PROVE  Promise!Next \/ UNCHANGED Promise!evVars
<1>1. UNCHANGED tx
  BY DEF PollerStep, Start, FindNothing, Find, Claim, ClaimFails, PublishOk,
     PublishFails, Publish, Complete, CompleteFails, Retry, Exhaust,
     FailureUpdateFails, DeadLetter, Crash, vars, txVars
<1>2. delivered \in [Event -> Nat] /\ delivered' \in [Event -> Nat]
  BY DEF SingleInv, SharedInv, TypeOK
<1>3. ASSUME NEW e \in Event, Same(e) \/ Requeued(e)
      PROVE  StageKept(e)
  BY <1>1, <1>3 DEF Same, Requeued, Queued, Stage, StageKept
<1>4. CASE \A e \in Event : StageKept(e)
  <2>1. delivered' = delivered
    BY <1>2, <1>4 DEF StageKept
  <2> QED
    BY <1>4, <2>1 DEF StageKept, Promise!evVars
<1>5. ASSUME NEW e \in Event, OneMoves(e)
      PROVE  Promise!Next \/ UNCHANGED Promise!evVars
  <2>1. \A x \in Event \ {e} : StageKept(x)
    BY <1>3, <1>5 DEF OneMoves
  <2>2. Queued(e) => Stage(e) = "queued"
    BY DEF Queued, Stage
  <2>3. CASE StageKept(e)
    BY <1>4, <2>1, <2>3
  <2>4. CASE Tried(e) /\ ~StageKept(e)
    <3>1. Stage(e)' = Stage(e)
      BY <1>1, <2>4 DEF Tried, Stage
    <3>2. delivered[e] < MaxRetries /\ delivered'[e] = delivered[e] + 1
      BY <2>4, <3>1 DEF Tried, StageKept
    <3>3. delivered' = [delivered EXCEPT ![e] = delivered[e] + 1]
      BY <1>2, <2>1, <3>2 DEF StageKept
    <3>4. \A x \in Event : Stage(x)' = Stage(x)
      BY <2>1, <3>1 DEF StageKept
    <3>5. Promise!Send(e)
      BY <2>2, <2>4, <3>2, <3>3, <3>4 DEF Tried, Promise!Send
    <3> QED
      BY <3>5 DEF Promise!Next
  <2>5. CASE Finished(e)
    <3>1. UNCHANGED delivered
      BY <1>2, <2>1, <2>5 DEF StageKept, Finished
    <3>2. \A x \in Event \ {e} : Stage(x)' = Stage(x)
      BY <2>1 DEF StageKept
    <3>3. CASE status'[e] = "COMPLETED"
      <4>1. Stage(e)' = "done"
        BY <3>3 DEF Stage
      <4> QED
        BY <2>2, <2>5, <3>1, <3>2, <4>1, <3>3, StageMoves
        DEF Finished, Promise!Next, Promise!Settle
    <3>4. CASE status'[e] = "DEAD"
      <4>1. Stage(e)' = "dead"
        BY <3>4 DEF Stage
      <4> QED
        BY <2>2, <2>5, <3>1, <3>2, <4>1, StageMoves
        DEF Finished, Promise!Next, Promise!Park
    <3> QED
      BY <2>5, <3>3, <3>4 DEF Finished
  <2> QED
    BY <1>3, <1>5, <2>3, <2>4, <2>5 DEF OneMoves
<1> QED
  BY <1>3, <1>4, <1>5, PollerMoves

\* Under the same conditions the outbox implements EventDelivery.
THEOREM OutboxKeepsPromise ==
    ASSUME SinglePoller, NoLostReply PROVE Spec => KeepsPromise
<1>1. Init => Promise!Init
  <2> SUFFICES ASSUME Init PROVE Promise!Init
    OBVIOUS
  <2>1. \A e \in Event : Stage(e) = "none"
    BY DEF Init, Stage
  <2> QED
    BY <2>1 DEF Init, Promise!Init
<1>2. SingleInv /\ SingleInv' /\ [Next]_vars => [Promise!Next]_(Promise!evVars)
  <2> SUFFICES ASSUME SingleInv, SingleInv', [Next]_vars
               PROVE  Promise!Next \/ UNCHANGED Promise!evVars
    OBVIOUS
  <2>1. CASE UNCHANGED vars
    BY <2>1 DEF vars, Promise!evVars, Stage
  <2> QED
    BY <2>1, EventRefines, PollerRefines DEF Next, SingleInv, SharedInv
<1>3. Spec => []SingleInv
  BY SingleInvariant
<1> QED
  BY <1>1, <1>2, <1>3, PTL DEF Spec, KeepsPromise, Promise!Spec
=============================================================================
