---------------------------- MODULE OutboxProofs ----------------------------
(* Theorems about Outbox for every set of events and pollers, every        *)
(* MaxRetries and BatchSize, and every set of faults.                      *)
EXTENDS Outbox, TLAPS

USE OutboxAssumption

(***************************************************************************)
(* The batch a poller works on.                                            *)
(***************************************************************************)

\* The rows read by findMany are a sequence of as many rows as ids.
LEMMA RowsType ==
    ASSUME retryCount \in [Event -> Nat], NEW n \in Nat \ {0},
           NEW b \in [1..n -> Event]
    PROVE  /\ Rows(b) \in Seq(Row)
           /\ Rows(b) # <<>>
           /\ Len(Rows(b)) = n
           /\ \A i \in 1..n : Rows(b)[i].id = b[i]
           /\ \A i \in 1..n : Rows(b)[i].retryCount = retryCount[b[i]]
<1>1. DOMAIN b = 1..n
  OBVIOUS
<1>2. \A i \in 1..n : [id |-> b[i], retryCount |-> retryCount[b[i]]] \in Row
  BY DEF Row
<1>3. Rows(b) \in [1..n -> Row]
  BY <1>1, <1>2 DEF Rows
<1>4. Rows(b) \in Seq(Row) /\ Len(Rows(b)) = n
  BY <1>3
<1>5. \A i \in 1..n : Rows(b)[i] = [id |-> b[i], retryCount |-> retryCount[b[i]]]
  BY <1>1 DEF Rows
<1> QED
  BY <1>4, <1>5

\* A poller that has claimed or found rows has a current one.
LEMMA CurrentType ==
    ASSUME TypeOK, NEW p \in Poller, pc[p] \notin {"down", "idle"}
    PROVE  /\ batch[p] \in Seq(Row)
           /\ batch[p] # <<>>
           /\ Len(batch[p]) \in Nat \ {0}
           /\ Head(batch[p]) = batch[p][1]
           /\ Head(batch[p]) \in Row
           /\ Current(p) \in Event
           /\ NewRetryCount(p) \in Nat
           /\ Tail(batch[p]) \in Seq(Row)
<1>1. batch[p] \in Seq(Row) /\ batch[p] # <<>>
  BY DEF TypeOK
<1>2. Head(batch[p]) \in Row /\ Head(batch[p]) = batch[p][1]
      /\ Tail(batch[p]) \in Seq(Row) /\ Len(batch[p]) \in Nat \ {0}
  BY <1>1
<1>3. Current(p) \in Event /\ NewRetryCount(p) \in Nat
  BY <1>2 DEF Current, NewRetryCount, Row
<1> QED
  BY <1>1, <1>2, <1>3

\* Going on with the loop keeps the types of the poller's memory.
LEMMA AdvanceType ==
    ASSUME TypeOK, NEW p \in Poller, pc[p] \notin {"down", "idle"}, Advance(p)
    PROVE  /\ pc' \in [Poller -> PollerPC]
           /\ batch' \in [Poller -> Seq(Row)]
           /\ \A q \in Poller : batch'[q] = <<>> <=> pc'[q] \in {"down", "idle"}
<1>1. Tail(batch[p]) \in Seq(Row)
  BY CurrentType
<1>2. pc' \in [Poller -> PollerPC] /\ batch' \in [Poller -> Seq(Row)]
  BY <1>1 DEF TypeOK, Advance, PollerPC
<1>3. ASSUME NEW q \in Poller
      PROVE  batch'[q] = <<>> <=> pc'[q] \in {"down", "idle"}
  BY <1>1 DEF TypeOK, Advance
<1> QED
  BY <1>2, <1>3

LEMMA AbandonType ==
    ASSUME TypeOK, NEW p \in Poller, NEW to \in {"down", "idle"}, Abandon(p, to)
    PROVE  /\ pc' \in [Poller -> PollerPC]
           /\ batch' \in [Poller -> Seq(Row)]
           /\ \A q \in Poller : batch'[q] = <<>> <=> pc'[q] \in {"down", "idle"}
BY DEF TypeOK, Abandon, PollerPC

LEMMA ReleaseType ==
    ASSUME TypeOK, NEW e \in Event, NEW s \in Status, NEW n \in Nat,
           Release(e, s, n)
    PROVE  /\ status' \in [Event -> Status]
           /\ retryCount' \in [Event -> Nat]
           /\ lockedAt' \in [Event -> LockAge]
BY DEF TypeOK, Release, LockAge

LEMMA LockRowsType ==
    ASSUME TypeOK, NEW p \in Poller, LockRows(p)
    PROVE  /\ status' \in [Event -> Status]
           /\ retryCount' \in [Event -> Nat]
           /\ lockedAt' \in [Event -> LockAge]
BY DEF TypeOK, LockRows, LockAge, Status

(* Adding to one entry of a counter changes that entry alone and lowers none. *)
LEMMA AddToEntry ==
  ASSUME NEW S, NEW f \in [S -> Nat], NEW c \in S, NEW k \in Nat,
         NEW g, g = [f EXCEPT ![c] = f[c] + k]
  PROVE  /\ g[c] = f[c] + k
         /\ \A e \in S : g[e] >= f[e]
<1>1. g[c] = f[c] + k
  OBVIOUS
<1>2. ASSUME NEW e \in S
      PROVE  g[e] >= f[e]
  <2>1. f[e] \in Nat /\ f[c] \in Nat
    OBVIOUS
  <2>2. CASE e = c
    BY <1>1, <2>1, <2>2
  <2>3. CASE e # c
    <3>1. g[e] = f[e]
      BY <2>3
    <3> QED
      BY <2>1, <3>1
  <2> QED
    BY <2>2, <2>3
<1> QED
  BY <1>1, <1>2

(* What a publish does to the two counters of the row at the head of the      *)
(* batch, and that it lowers no counter of any row.                           *)
LEMMA PublishCounts ==
  ASSUME TypeOK, NEW p \in Poller, NEW n \in {0, 1}, NEW to, Publish(p, n, to)
  PROVE  /\ attempts'[Current(p)] = attempts[Current(p)] + 1
         /\ delivered'[Current(p)] = delivered[Current(p)] + n
         /\ \A e \in Event : /\ attempts'[e] >= attempts[e]
                              /\ delivered'[e] >= delivered[e]
<1>1. Current(p) \in Event
  BY CurrentType DEF Publish
<1>2. attempts \in [Event -> Nat] /\ delivered \in [Event -> Nat]
  BY DEF TypeOK
<1>3. attempts' = [attempts EXCEPT ![Current(p)] = attempts[Current(p)] + 1]
  BY DEF Publish
<1>4. delivered' = [delivered EXCEPT ![Current(p)] = delivered[Current(p)] + n]
  BY DEF Publish
<1>5. n \in Nat
  OBVIOUS
<1>6. /\ attempts'[Current(p)] = attempts[Current(p)] + 1
      /\ \A e \in Event : attempts'[e] >= attempts[e]
  BY <1>1, <1>2, <1>3, AddToEntry
<1>7. /\ delivered'[Current(p)] = delivered[Current(p)] + n
      /\ \A e \in Event : delivered'[e] >= delivered[e]
  BY <1>1, <1>2, <1>4, <1>5, AddToEntry
<1> QED
  BY <1>6, <1>7

(***************************************************************************)
(* Type correctness.                                                       *)
(***************************************************************************)

LEMMA InitType == Init => TypeOK
BY DEF Init, TypeOK, TxState, Status, LockAge, PollerPC

LEMMA NextType == TypeOK /\ [Next]_vars => TypeOK'
<1> SUFFICES ASSUME TypeOK, [Next]_vars
             PROVE  TypeOK'
  OBVIOUS
<1>1. ASSUME NEW e \in Event, EventStep(e)
      PROVE  TypeOK'
  <2>1. CASE WriteOutboxEvent(e)
    BY <2>1 DEF TypeOK, WriteOutboxEvent, rowVars, pollerVars, brokerVars, TxState
  <2>2. CASE Commit(e)
    BY <2>2 DEF TypeOK, Commit, pollerVars, brokerVars, TxState, Status
  <2>3. CASE Rollback(e)
    BY <2>3 DEF TypeOK, Rollback, rowVars, pollerVars, brokerVars, TxState
  <2>4. CASE LockExpires(e)
    BY <2>4 DEF TypeOK, LockExpires, txVars, pollerVars, brokerVars, LockAge
  <2> QED
    BY <1>1, <2>1, <2>2, <2>3, <2>4 DEF EventStep
<1>2. ASSUME NEW p \in Poller, Start(p) \/ FindNothing(p) \/ Crash(p)
      PROVE  TypeOK'
  <2>1. CASE Start(p)
    BY <2>1 DEF TypeOK, Start, rowVars, txVars, brokerVars, PollerPC
  <2>2. CASE FindNothing(p)
    BY <2>2 DEF TypeOK, FindNothing, vars
  <2>3. CASE Crash(p)
    BY <2>3, AbandonType DEF TypeOK, Crash, rowVars, txVars, brokerVars
  <2> QED
    BY <1>2, <2>1, <2>2, <2>3
<1>3. ASSUME NEW p \in Poller, Find(p)
      PROVE  TypeOK'
  <2>1. PICK n \in 1..BatchSize :
             \E b \in [1..n -> Event] :
                IsBatch(b) /\ batch' = [batch EXCEPT ![p] = Rows(b)]
    BY <1>3 DEF Find
  <2>. PICK b \in [1..n -> Event] : batch' = [batch EXCEPT ![p] = Rows(b)]
    BY <2>1
  <2>2. n \in Nat \ {0}
    OBVIOUS
  <2>3. Rows(b) \in Seq(Row) /\ Rows(b) # <<>>
    BY <2>2, RowsType DEF TypeOK
  <2> QED
    BY <1>3, <2>3 DEF TypeOK, Find, rowVars, txVars, brokerVars, PollerPC
<1>4. ASSUME NEW p \in Poller, Claim(p) \/ ClaimFails(p)
      PROVE  TypeOK'
  <2>1. CASE Claim(p)
    BY <2>1, LockRowsType DEF TypeOK, Claim, txVars, brokerVars, PollerPC
  <2>2. CASE ClaimFails(p)
    BY <2>2, LockRowsType, AbandonType
    DEF TypeOK, ClaimFails, rowVars, txVars, brokerVars
  <2> QED
    BY <1>4, <2>1, <2>2
<1>5. ASSUME NEW p \in Poller, NEW n \in {0, 1},
             NEW to \in {"published", "failed"}, Publish(p, n, to)
      PROVE  TypeOK'
  <2>1. Current(p) \in Event
    BY <1>5, CurrentType DEF Publish
  <2> QED
    BY <1>5, <2>1 DEF TypeOK, Publish, rowVars, txVars, PollerPC
<1>6. ASSUME NEW p \in Poller, PublishOk(p) \/ PublishFails(p)
      PROVE  TypeOK'
  BY <1>5, <1>6 DEF PublishOk, PublishFails
<1>7. ASSUME NEW p \in Poller, Complete(p) \/ CompleteFails(p)
      PROVE  TypeOK'
  <2>1. /\ pc[p] = "published"
        /\ Current(p) \in Event
        /\ retryCount[Current(p)] \in Nat
    BY <1>7, CurrentType DEF Complete, CompleteFails, TypeOK
  <2>2. ASSUME MarkCompleted(p)
        PROVE  /\ status' \in [Event -> Status]
               /\ retryCount' \in [Event -> Nat]
               /\ lockedAt' \in [Event -> LockAge]
    BY <2>1, <2>2, ReleaseType DEF MarkCompleted, Status
  <2>3. CASE Complete(p)
    BY <2>1, <2>2, <2>3, AdvanceType DEF TypeOK, Complete, txVars, brokerVars
  <2>4. CASE CompleteFails(p)
    BY <2>1, <2>2, <2>4
    DEF TypeOK, CompleteFails, rowVars, txVars, brokerVars, PollerPC
  <2> QED
    BY <1>7, <2>3, <2>4
<1>8. ASSUME NEW p \in Poller, Retry(p) \/ Exhaust(p) \/ FailureUpdateFails(p)
      PROVE  TypeOK'
  <2>1. /\ pc[p] = "failed"
        /\ Current(p) \in Event
        /\ NewRetryCount(p) \in Nat
    BY <1>8, CurrentType DEF Retry, Exhaust, FailureUpdateFails
  <2>2. ASSUME RestorePending(p) \/ MarkDead(p)
        PROVE  /\ status' \in [Event -> Status]
               /\ retryCount' \in [Event -> Nat]
               /\ lockedAt' \in [Event -> LockAge]
    BY <2>1, <2>2, ReleaseType DEF RestorePending, MarkDead, Status
  <2>3. CASE Retry(p)
    BY <2>1, <2>2, <2>3, AdvanceType DEF TypeOK, Retry, txVars, brokerVars
  <2>4. CASE Exhaust(p)
    BY <2>1, <2>2, <2>4 DEF TypeOK, Exhaust, txVars, brokerVars, PollerPC
  <2>5. CASE FailureUpdateFails(p)
    BY <2>2, <2>5, AbandonType
    DEF TypeOK, FailureUpdateFails, rowVars, txVars, brokerVars
  <2> QED
    BY <1>8, <2>3, <2>4, <2>5
<1>9. ASSUME NEW p \in Poller, DeadLetter(p)
      PROVE  TypeOK'
  <2>1. pc[p] = "deadletter" /\ Current(p) \in Event
    BY <1>9, CurrentType DEF DeadLetter
  <2> QED
    BY <1>9, <2>1, AdvanceType DEF TypeOK, DeadLetter, rowVars, txVars
<1>10. CASE UNCHANGED vars
  BY <1>10 DEF TypeOK, vars
<1> QED
  BY <1>1, <1>2, <1>3, <1>4, <1>6, <1>7, <1>8, <1>9, <1>10 DEF Next, PollerStep

\* Every variable keeps its type, and a poller holds rows exactly while it is
\* inside processNextBatch.
THEOREM TypeCorrect == Spec => []TypeOK
BY InitType, NextType, PTL DEF Spec

(***************************************************************************)
(* Any number of pollers.  What makes the safety properties inductive is   *)
(* that a snapshot of retryCount, however old, never exceeds the number of *)
(* attempts, and that a poller about to write COMPLETED has published.     *)
(***************************************************************************)

RowInv(e) ==
    /\ status[e] = "COMPLETED" => delivered[e] > 0
    /\ status[e] = "DEAD" => attempts[e] >= MaxRetries
    /\ status[e] \in {"absent", "PENDING"} => lockedAt[e] = "null"
    /\ retryCount[e] <= attempts[e]
    /\ (status[e] # "absent" \/ delivered[e] > 0 \/ e \in dlq)
          => tx[e] = "committed"

PollerInv(p) ==
    /\ \A i \in 1..Len(batch[p]) :
          /\ tx[batch[p][i].id] = "committed"
          /\ batch[p][i].retryCount <= attempts[batch[p][i].id]
    /\ pc[p] = "published" => delivered[Current(p)] > 0
    /\ pc[p] \in {"published", "failed"} =>
          NewRetryCount(p) <= attempts[Current(p)]

SharedInv ==
    /\ TypeOK
    /\ \A e \in Event : RowInv(e)
    /\ \A p \in Poller : PollerInv(p)

\* A batch of another poller, or a step that leaves p's memory alone, keeps
\* PollerInv when no counter goes down and no transaction is undone.
LEMMA PollerInvStable ==
    ASSUME SharedInv, TypeOK', NEW p \in Poller,
           batch'[p] = batch[p], pc'[p] = pc[p],
           \A e \in Event : /\ tx[e] = "committed" => tx'[e] = "committed"
                            /\ attempts'[e] >= attempts[e]
                            /\ delivered'[e] >= delivered[e]
    PROVE  PollerInv(p)'
<1>1. \A i \in 1..Len(batch[p]) : batch[p][i] \in Row
  BY DEF SharedInv, TypeOK
<1>2. ASSUME NEW i \in 1..Len(batch[p])
      PROVE  /\ tx'[batch[p][i].id] = "committed"
             /\ batch[p][i].retryCount <= attempts'[batch[p][i].id]
  <2>1. batch[p][i].id \in Event /\ batch[p][i].retryCount \in Nat
    BY <1>1 DEF Row
  <2>2. /\ tx[batch[p][i].id] = "committed"
        /\ batch[p][i].retryCount <= attempts[batch[p][i].id]
    BY DEF SharedInv, PollerInv
  <2>3. attempts[batch[p][i].id] \in Nat /\ attempts'[batch[p][i].id] \in Nat
    BY <2>1 DEF SharedInv, TypeOK
  <2> QED
    BY <2>1, <2>2, <2>3
<1>3. ASSUME pc[p] \in {"published", "failed"}
      PROVE  /\ Current(p) \in Event
             /\ NewRetryCount(p) \in Nat
             /\ Current(p)' = Current(p)
             /\ NewRetryCount(p)' = NewRetryCount(p)
  BY <1>3, CurrentType DEF SharedInv, Current, NewRetryCount
<1> QED
  BY <1>2, <1>3 DEF SharedInv, PollerInv, TypeOK

\* Going on to the next row of the batch.
LEMMA PollerInvAdvance ==
    ASSUME SharedInv, TypeOK', NEW p \in Poller,
           pc[p] \notin {"down", "idle"}, Advance(p),
           UNCHANGED <<tx, attempts>>
    PROVE  PollerInv(p)'
<1>1. /\ batch[p] \in Seq(Row)
      /\ batch[p] # <<>>
      /\ batch'[p] = Tail(batch[p])
      /\ pc'[p] \in {"idle", "publish"}
  BY CurrentType DEF SharedInv, TypeOK, Advance
<1>2. /\ Len(batch'[p]) = Len(batch[p]) - 1
      /\ \A i \in 1..Len(batch'[p]) : batch'[p][i] = batch[p][i + 1]
  BY <1>1
<1>3. \A i \in 1..Len(batch'[p]) : i + 1 \in 1..Len(batch[p])
  BY <1>1, <1>2
<1> QED
  BY <1>1, <1>2, <1>3 DEF SharedInv, PollerInv

LEMMA PollerInvAbandon ==
    ASSUME SharedInv, NEW p \in Poller, NEW to \in {"down", "idle"},
           Abandon(p, to)
    PROVE  PollerInv(p)'
<1>1. batch'[p] = <<>> /\ pc'[p] = to
  BY DEF SharedInv, TypeOK, Abandon
<1> QED
  BY <1>1 DEF PollerInv

LEMMA InitShared == Init => SharedInv
<1> SUFFICES ASSUME Init PROVE SharedInv
  OBVIOUS
<1>1. TypeOK
  BY InitType
<1>2. \A e \in Event : RowInv(e)
  <2> SUFFICES ASSUME NEW e \in Event PROVE RowInv(e)
    OBVIOUS
  <2>1. status[e] = "absent" /\ lockedAt[e] = "null" /\ e \notin dlq
    BY DEF Init
  <2>2. retryCount[e] = 0 /\ attempts[e] = 0 /\ delivered[e] = 0
    BY DEF Init
  <2>3. retryCount[e] <= attempts[e] /\ ~(delivered[e] > 0)
    BY <2>2
  <2> QED
    BY <2>1, <2>3 DEF RowInv
<1>3. \A p \in Poller : PollerInv(p)
  BY DEF Init, PollerInv
<1> QED
  BY <1>1, <1>2, <1>3 DEF SharedInv

LEMMA NextShared == SharedInv /\ [Next]_vars => SharedInv'
<1> SUFFICES ASSUME SharedInv, [Next]_vars
             PROVE  SharedInv'
  OBVIOUS
<1>t. TypeOK /\ TypeOK'
  BY NextType DEF SharedInv
<1>r. \A e \in Event : RowInv(e)
  BY DEF SharedInv
<1>p. \A p \in Poller : PollerInv(p)
  BY DEF SharedInv
<1>1. ASSUME NEW e \in Event, EventStep(e)
      PROVE  SharedInv'
  <2>1. UNCHANGED pollerVars /\ UNCHANGED brokerVars
    BY <1>1 DEF EventStep, WriteOutboxEvent, Commit, Rollback, LockExpires
  <2>2. \A x \in Event : tx[x] = "committed" => tx'[x] = "committed"
    BY <1>1, <1>t
    DEF EventStep, WriteOutboxEvent, Commit, Rollback, LockExpires, txVars, TypeOK
  <2>3. ASSUME NEW p \in Poller
        PROVE  PollerInv(p)'
    <3>1. batch'[p] = batch[p] /\ pc'[p] = pc[p]
      BY <2>1 DEF pollerVars
    <3>2. \A x \in Event : /\ attempts'[x] >= attempts[x]
                           /\ delivered'[x] >= delivered[x]
      BY <2>1, <1>t DEF brokerVars, TypeOK
    <3> QED
      BY <2>2, <3>1, <3>2, <1>t, PollerInvStable
  <2>4. ASSUME NEW x \in Event
        PROVE  RowInv(x)'
    <3>1. RowInv(x) /\ RowInv(e)
      BY <1>r
    <3>2. CASE WriteOutboxEvent(e)
      BY <2>1, <3>1, <3>2, <1>t
      DEF WriteOutboxEvent, RowInv, rowVars, brokerVars, TypeOK
    <3>3. CASE Commit(e)
      BY <2>1, <3>1, <3>3, <1>t DEF Commit, RowInv, brokerVars, TypeOK
    <3>4. CASE Rollback(e)
      BY <2>1, <3>1, <3>4, <1>t DEF Rollback, RowInv, rowVars, brokerVars, TypeOK
    <3>5. CASE LockExpires(e)
      BY <2>1, <3>1, <3>5, <1>t DEF LockExpires, RowInv, txVars, brokerVars, TypeOK
    <3> QED
      BY <1>1, <3>2, <3>3, <3>4, <3>5 DEF EventStep
  <2> QED
    BY <1>t, <2>3, <2>4 DEF SharedInv
<1>2. ASSUME NEW p \in Poller, PollerStep(p) \/ Crash(p)
      PROVE  SharedInv'
  <2>1. ASSUME NEW q \in Poller, q # p
        PROVE  PollerInv(q)'
    <3>1. UNCHANGED txVars /\ batch'[q] = batch[q] /\ pc'[q] = pc[q]
      BY <1>2, <2>1, <1>t
      DEF PollerStep, Crash, Start, FindNothing, Find, Claim, ClaimFails,
          PublishOk, PublishFails, Publish, Complete, CompleteFails, Retry,
          Exhaust, FailureUpdateFails, DeadLetter, Abandon, Advance,
          vars, txVars, TypeOK
    <3>2. \A e \in Event : /\ attempts'[e] >= attempts[e]
                           /\ delivered'[e] >= delivered[e]
      <4>1. ASSUME NEW n \in {0, 1}, NEW to \in {"published", "failed"},
                   Publish(p, n, to), NEW e \in Event
            PROVE  attempts'[e] >= attempts[e] /\ delivered'[e] >= delivered[e]
        BY <4>1, <1>t, PublishCounts
      <4>2. CASE PublishOk(p) \/ PublishFails(p)
        BY <4>1, <4>2 DEF PublishOk, PublishFails
      <4>3. CASE UNCHANGED <<attempts, delivered>>
        BY <4>3, <1>t DEF TypeOK
      <4> QED
        BY <1>2, <4>2, <4>3
        DEF PollerStep, Crash, Start, FindNothing, Find, Claim, ClaimFails,
            Complete, CompleteFails, Retry, Exhaust, FailureUpdateFails,
            DeadLetter, vars, brokerVars
    <3> QED
      BY <3>1, <3>2, <1>t, PollerInvStable DEF txVars
  <2>2. CASE Start(p) \/ FindNothing(p) \/ Crash(p)
    <3>1. PollerInv(p)'
      <4>1. CASE Start(p)
        BY <4>1, <1>p, <1>t DEF Start, PollerInv, txVars, brokerVars, Current, NewRetryCount, TypeOK
      <4>2. CASE FindNothing(p)
        BY <4>2, <1>p DEF FindNothing, PollerInv, vars, Current, NewRetryCount
      <4>3. CASE Crash(p)
        BY <4>3, PollerInvAbandon DEF Crash
      <4> QED
        BY <2>2, <4>1, <4>2, <4>3
    <3>2. \A e \in Event : RowInv(e)'
      BY <2>2, <1>r
      DEF Start, FindNothing, Crash, RowInv, rowVars, txVars, brokerVars, vars
    <3> QED
      BY <1>t, <2>1, <3>1, <3>2 DEF SharedInv
  <2>3. CASE Find(p)
    <3>1. PICK n \in 1..BatchSize :
             \E b \in [1..n -> Event] :
                IsBatch(b) /\ batch' = [batch EXCEPT ![p] = Rows(b)]
      BY <2>3 DEF Find
    <3>. PICK b \in [1..n -> Event] :
             IsBatch(b) /\ batch' = [batch EXCEPT ![p] = Rows(b)]
      BY <3>1
    <3>2. /\ Len(Rows(b)) = n
          /\ \A i \in 1..n : Rows(b)[i].id = b[i]
          /\ \A i \in 1..n : Rows(b)[i].retryCount = retryCount[b[i]]
      <4>1. n \in Nat \ {0} /\ retryCount \in [Event -> Nat]
        BY <1>t DEF TypeOK
      <4> QED
        BY <4>1, RowsType
    <3>3. batch'[p] = Rows(b) /\ pc'[p] = "found"
      BY <2>3, <1>t DEF Find, TypeOK
    <3>4. \A i \in 1..n : b[i] \in Event /\ status[b[i]] = "PENDING"
      BY DEF IsBatch, Claimable
    <3>5. \A i \in 1..n : /\ tx[b[i]] = "committed"
                          /\ retryCount[b[i]] <= attempts[b[i]]
      BY <3>4, <1>r DEF RowInv
    <3>6. PollerInv(p)'
      <4>1. UNCHANGED <<tx, attempts>>
        BY <2>3 DEF Find, txVars, brokerVars
      <4> QED
        BY <3>2, <3>3, <3>5, <4>1 DEF PollerInv
    <3>7. \A e \in Event : RowInv(e)'
      BY <2>3, <1>r DEF Find, RowInv, rowVars, txVars, brokerVars
    <3> QED
      BY <1>t, <2>1, <3>6, <3>7 DEF SharedInv
  <2>4. CASE Claim(p) \/ ClaimFails(p)
    <3>1. PollerInv(p)'
      <4>1. CASE Claim(p)
        BY <4>1, <1>p, <1>t DEF Claim, PollerInv, txVars, brokerVars, TypeOK
      <4>2. CASE ClaimFails(p)
        BY <4>2, PollerInvAbandon DEF ClaimFails
      <4> QED
        BY <2>4, <4>1, <4>2
    <3>2. UNCHANGED <<txVars, brokerVars>>
      BY <2>4 DEF Claim, ClaimFails
    <3>3. \A e \in Event : InBatch(p, e) => tx[e] = "committed"
      BY <1>p, <1>t DEF InBatch, PollerInv, TypeOK
    <3>4. CASE UNCHANGED rowVars
      BY <1>t, <1>r, <2>1, <3>1, <3>2, <3>4
      DEF SharedInv, RowInv, rowVars, txVars, brokerVars
    <3>5. CASE LockRows(p)
      <4>1. \A e \in Event : RowInv(e)'
        BY <1>r, <3>2, <3>3, <3>5 DEF LockRows, RowInv, txVars, brokerVars
      <4> QED
        BY <1>t, <2>1, <3>1, <4>1 DEF SharedInv
    <3> QED
      BY <2>4, <3>4, <3>5 DEF Claim, ClaimFails
  <2>5. CASE PublishOk(p) \/ PublishFails(p)
    <3>1. PICK n \in {0, 1}, to \in {"published", "failed"} :
             Publish(p, n, to) /\ (to = "published" => n = 1)
      BY <2>5 DEF PublishOk, PublishFails
    <3>2. /\ batch[p] \in Seq(Row) /\ batch[p] # <<>>
          /\ Head(batch[p]) = batch[p][1]
          /\ Len(batch[p]) \in Nat \ {0}
          /\ Current(p) \in Event /\ NewRetryCount(p) \in Nat
          /\ Head(batch[p]) \in Row
      BY <1>t, <3>1, CurrentType DEF Publish
    <3>3. /\ tx[Current(p)] = "committed"
          /\ Head(batch[p]).retryCount <= attempts[Current(p)]
      BY <3>2, <1>p DEF PollerInv, Current
    <3>4. /\ Current(p)' = Current(p)
          /\ NewRetryCount(p)' = NewRetryCount(p)
          /\ pc'[p] = to
      BY <3>1, <1>t DEF Publish, Current, NewRetryCount, TypeOK
    <3>5. /\ attempts'[Current(p)] = attempts[Current(p)] + 1
          /\ delivered'[Current(p)] = delivered[Current(p)] + n
          /\ \A e \in Event : attempts'[e] >= attempts[e]
      BY <3>1, <1>t, PublishCounts
    <3>6. \A i \in 1..Len(batch[p]) : batch[p][i] \in Row
      BY <3>2
    <3>7. NewRetryCount(p) <= attempts'[Current(p)]
      <4>1. attempts[Current(p)] \in Nat /\ Head(batch[p]).retryCount \in Nat
        BY <3>2, <1>t DEF TypeOK, Row
      <4> QED
        BY <3>3, <3>5, <4>1 DEF NewRetryCount
    <3>8. to = "published" => delivered'[Current(p)] > 0
      BY <3>1, <3>2, <3>5, <1>t DEF TypeOK
    <3>9. ASSUME NEW i \in 1..Len(batch[p])
          PROVE  /\ tx'[batch[p][i].id] = "committed"
                 /\ batch[p][i].retryCount <= attempts'[batch[p][i].id]
      <4>1. batch[p][i].id \in Event /\ batch[p][i].retryCount \in Nat
        BY <3>6 DEF Row
      <4>2. /\ tx[batch[p][i].id] = "committed"
            /\ batch[p][i].retryCount <= attempts[batch[p][i].id]
        BY <1>p DEF PollerInv
      <4>3. /\ attempts[batch[p][i].id] \in Nat
            /\ attempts'[batch[p][i].id] \in Nat
            /\ attempts'[batch[p][i].id] >= attempts[batch[p][i].id]
        BY <3>5, <4>1, <1>t DEF TypeOK
      <4>4. tx' = tx
        BY <3>1 DEF Publish, txVars
      <4> QED
        BY <4>1, <4>2, <4>3, <4>4
    <3>10. PollerInv(p)'
      BY <3>1, <3>4, <3>7, <3>8, <3>9, <1>t DEF PollerInv, Publish, TypeOK
    <3>11. \A e \in Event : RowInv(e)'
      BY <3>1, <3>2, <3>3, <1>r, <1>t DEF RowInv, Publish, rowVars, txVars, TypeOK
    <3> QED
      BY <1>t, <2>1, <3>10, <3>11 DEF SharedInv
  <2>6. CASE Complete(p) \/ CompleteFails(p)
    <3>1. /\ pc[p] = "published" /\ Current(p) \in Event
          /\ UNCHANGED <<txVars, brokerVars>>
      BY <1>t, <2>6, CurrentType DEF Complete, CompleteFails
    <3>2. delivered[Current(p)] > 0 /\ tx[Current(p)] = "committed"
          /\ NewRetryCount(p) <= attempts[Current(p)]
      BY <3>1, <1>p, <1>r, <1>t DEF PollerInv, RowInv
    <3>3. PollerInv(p)'
      <4>1. CASE Complete(p)
        BY <1>t, <3>1, <4>1, PollerInvAdvance DEF Complete, txVars, brokerVars
      <4>2. CASE CompleteFails(p)
        BY <4>2, <1>p, <1>t
        DEF CompleteFails, PollerInv, txVars, brokerVars, Current, NewRetryCount, TypeOK
      <4> QED
        BY <2>6, <4>1, <4>2
    <3>4. \A e \in Event : RowInv(e)'
      <4>1. CASE UNCHANGED rowVars
        BY <4>1, <3>1, <1>r DEF RowInv, rowVars, txVars, brokerVars
      <4>2. CASE MarkCompleted(p)
        BY <4>2, <3>1, <3>2, <1>r, <1>t
        DEF MarkCompleted, Release, RowInv, txVars, brokerVars, TypeOK
      <4> QED
        BY <2>6, <4>1, <4>2 DEF Complete, CompleteFails
    <3> QED
      BY <1>t, <2>1, <3>3, <3>4 DEF SharedInv
  <2>7. CASE Retry(p) \/ Exhaust(p) \/ FailureUpdateFails(p)
    <3>1. /\ pc[p] = "failed"
          /\ Current(p) \in Event /\ NewRetryCount(p) \in Nat
          /\ batch[p] \in Seq(Row) /\ batch[p] # <<>>
          /\ Head(batch[p]) = batch[p][1]
          /\ UNCHANGED <<txVars, brokerVars>>
      BY <1>t, <2>7, CurrentType DEF Retry, Exhaust, FailureUpdateFails
    <3>2. /\ NewRetryCount(p) <= attempts[Current(p)]
          /\ tx[Current(p)] = "committed"
      BY <3>1, <1>p DEF PollerInv, Current
    <3>3. PollerInv(p)'
      <4>1. CASE Retry(p)
        BY <1>t, <3>1, <4>1, PollerInvAdvance DEF Retry, txVars, brokerVars
      <4>2. CASE Exhaust(p)
        BY <4>2, <1>p, <1>t DEF Exhaust, PollerInv, txVars, brokerVars, TypeOK
      <4>3. CASE FailureUpdateFails(p)
        BY <4>3, PollerInvAbandon DEF FailureUpdateFails
      <4> QED
        BY <2>7, <4>1, <4>2, <4>3
    <3>4. \A e \in Event : RowInv(e)'
      <4>1. CASE UNCHANGED rowVars
        BY <4>1, <3>1, <1>r DEF RowInv, rowVars, txVars, brokerVars
      <4>2. CASE RestorePending(p)
        BY <4>2, <3>1, <3>2, <1>r, <1>t
        DEF RestorePending, Release, RowInv, txVars, brokerVars, TypeOK
      <4>3. CASE MarkDead(p)
        BY <4>3, <3>1, <3>2, <1>r, <1>t
        DEF MarkDead, Release, RowInv, txVars, brokerVars, TypeOK
      <4> QED
        BY <2>7, <4>1, <4>2, <4>3 DEF Retry, Exhaust, FailureUpdateFails
    <3> QED
      BY <1>t, <2>1, <3>3, <3>4 DEF SharedInv
  <2>8. CASE DeadLetter(p)
    <3>1. /\ pc[p] = "deadletter" /\ Current(p) \in Event
          /\ batch[p] \in Seq(Row) /\ batch[p] # <<>>
          /\ Head(batch[p]) = batch[p][1]
      BY <1>t, <2>8, CurrentType DEF DeadLetter
    <3>2. tx[Current(p)] = "committed"
      BY <3>1, <1>p DEF PollerInv, Current
    <3>3. PollerInv(p)'
      BY <1>t, <2>8, <3>1, PollerInvAdvance DEF DeadLetter, txVars
    <3>4. \A e \in Event : RowInv(e)'
      BY <2>8, <3>1, <3>2, <1>r DEF DeadLetter, RowInv, rowVars, txVars
    <3> QED
      BY <1>t, <2>1, <3>3, <3>4 DEF SharedInv
  <2> QED
    BY <1>2, <2>2, <2>3, <2>4, <2>5, <2>6, <2>7, <2>8 DEF PollerStep
<1>3. CASE UNCHANGED vars
  <2>1. \A e \in Event : RowInv(e)'
    BY <1>3, <1>r DEF vars, RowInv
  <2>2. \A p \in Poller : PollerInv(p)'
    BY <1>3, <1>p DEF vars, PollerInv, Current, NewRetryCount
  <2> QED
    BY <1>t, <2>1, <2>2 DEF SharedInv
<1> QED
  BY <1>1, <1>2, <1>3 DEF Next

LEMMA SharedInvariant == Spec => []SharedInv
BY InitShared, NextShared, PTL DEF Spec

\* However many pollers race on the table and whatever fails, a COMPLETED row
\* has been accepted by the broker.
THEOREM CompletedIsDelivered == Spec => []CompletedWasDelivered
<1>1. SharedInv => CompletedWasDelivered
  BY DEF SharedInv, RowInv, CompletedWasDelivered
<1> QED
  BY <1>1, SharedInvariant, PTL

\* A DEAD row has had its MaxRetries attempts.
THEOREM DeadIsExhausted == Spec => []DeadWasExhausted
<1>1. SharedInv => DeadWasExhausted
  BY DEF SharedInv, RowInv, DeadWasExhausted
<1> QED
  BY <1>1, SharedInvariant, PTL

\* Nothing of an uncommitted transaction reaches the broker.
THEOREM DeliveredIsCommitted == Spec => []OnlyCommittedDelivered
<1>1. SharedInv => OnlyCommittedDelivered
  BY DEF SharedInv, RowInv, OnlyCommittedDelivered
<1> QED
  BY <1>1, SharedInvariant, PTL

\* The lock-timeout branch of the poller's query is never what selects a row.
THEOREM PendingNeverLocked == Spec => []PendingIsUnlocked
<1>1. SharedInv => PendingIsUnlocked
  BY DEF SharedInv, RowInv, PendingIsUnlocked
<1> QED
  BY <1>1, SharedInvariant, PTL
=============================================================================
