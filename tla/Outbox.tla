------------------------------- MODULE Outbox -------------------------------
(***************************************************************************)
(* The transactional outbox of packages/kafka: the rows a service writes   *)
(* in its business transactions (outboxWriter.ts) and the pollers that     *)
(* drain them to the broker (outboxPoller.ts).  Every await of the poller  *)
(* ends a step, so that pollers, business transactions, crashes and        *)
(* failing calls interleave wherever the code yields.                      *)
(*                                                                         *)
(* lockedBy, lastError and processedAt are written and never read: they    *)
(* are left out.  The payload is opaque to the poller.                     *)
(***************************************************************************)
EXTENDS Naturals, Sequences

CONSTANTS Event,        \* identifiers of outbox rows
          Poller,       \* processes that run an OutboxPoller on the table
          MaxRetries,   \* options.maxRetries
          BatchSize,    \* options.batchSize
          Faults        \* the kinds of failure the environment produces

(***************************************************************************)
(* "crash"    a poller process dies and loses its memory;                  *)
(* "publish"  a publish throws and the broker has no message;              *)
(* "ack"      a publish throws after the broker appended the message;      *)
(* "db"       a database call throws without effect;                       *)
(* "dback"    a database write takes effect and its reply is lost.         *)
(***************************************************************************)
FaultKind == {"crash", "publish", "ack", "db", "dback"}

ASSUME OutboxAssumption ==
    /\ MaxRetries \in Nat \ {0}
    /\ BatchSize \in Nat \ {0}
    /\ Faults \subseteq FaultKind

VARIABLES tx,           \* tx[e]: the business transaction that writes row e
          status,       \* status[e]: the row's column, as others see it
          retryCount,   \* retryCount[e]: the row's column
          lockedAt,     \* lockedAt[e]: the row's column, as the age of the lock
          createdAt,    \* createdAt[e]: the row's column
          clock,        \* the latest createdAt handed out
          before,       \* before[e]: events of earlier ticks that were committed
                        \* when e was written (history)
          pc,           \* pc[p]: where poller p is in processNextBatch
          batch,        \* batch[p]: rows p has read and not finished, in order
          attempts,     \* attempts[e]: publish calls made for e (history)
          delivered,    \* delivered[e]: messages for e in the topic
          dlq           \* events with a message in the dead-letter topic

rowVars    == <<status, retryCount, lockedAt>>
txVars     == <<tx, createdAt, clock, before>>
pollerVars == <<pc, batch>>
brokerVars == <<attempts, delivered, dlq>>
vars == <<tx, status, retryCount, lockedAt, createdAt, clock, before, pc,
          batch, attempts, delivered, dlq>>

TxState   == {"none", "open", "committed", "rolledback"}
Settled   == {"COMPLETED", "DEAD"}
Status    == {"absent", "PENDING", "PROCESSING", "COMPLETED", "DEAD"}
LockAge   == {"null", "fresh", "expired"}
PollerPC  == {"down", "idle", "found", "publish", "published", "failed",
              "deadletter"}
Row       == [id : Event, retryCount : Nat]

TypeOK ==
    /\ tx \in [Event -> TxState]
    /\ status \in [Event -> Status]
    /\ retryCount \in [Event -> Nat]
    /\ lockedAt \in [Event -> LockAge]
    /\ createdAt \in [Event -> Nat]
    /\ clock \in Nat
    /\ before \in [Event -> SUBSET Event]
    /\ pc \in [Poller -> PollerPC]
    /\ batch \in [Poller -> Seq(Row)]
    /\ \A p \in Poller : batch[p] = <<>> <=> pc[p] \in {"down", "idle"}
    /\ attempts \in [Event -> Nat]
    /\ delivered \in [Event -> Nat]
    /\ dlq \subseteq Event

Init ==
    /\ tx = [e \in Event |-> "none"]
    /\ status = [e \in Event |-> "absent"]
    /\ retryCount = [e \in Event |-> 0]
    /\ lockedAt = [e \in Event |-> "null"]
    /\ createdAt = [e \in Event |-> 0]
    /\ clock = 0
    /\ before = [e \in Event |-> {}]
    /\ pc = [p \in Poller |-> "down"]
    /\ batch = [p \in Poller |-> <<>>]
    /\ attempts = [e \in Event |-> 0]
    /\ delivered = [e \in Event |-> 0]
    /\ dlq = {}
-----------------------------------------------------------------------------
(* Business transactions: writeOutboxEvent inside prisma.$transaction.     *)

\* createdAt defaults to now(): later than, or in the same tick as, the last.
\* The row is invisible until its transaction commits.
WriteOutboxEvent(e) ==
    /\ tx[e] = "none"
    /\ tx' = [tx EXCEPT ![e] = "open"]
    /\ clock' \in {clock, clock + 1}
    /\ createdAt' = [createdAt EXCEPT ![e] = clock']
    /\ before' = [before EXCEPT ![e] =
                     {o \in Event : tx[o] = "committed" /\ createdAt[o] < clock'}]
    /\ UNCHANGED <<rowVars, pollerVars, brokerVars>>

Commit(e) ==
    /\ tx[e] = "open"
    /\ tx' = [tx EXCEPT ![e] = "committed"]
    /\ status' = [status EXCEPT ![e] = "PENDING"]
    /\ UNCHANGED <<retryCount, lockedAt, createdAt, clock, before, pollerVars,
                   brokerVars>>

Rollback(e) ==
    /\ tx[e] = "open"
    /\ tx' = [tx EXCEPT ![e] = "rolledback"]
    /\ UNCHANGED <<rowVars, createdAt, clock, before, pollerVars, brokerVars>>

\* Time passes: a lock gets older than options.lockTimeoutMs.
LockExpires(e) ==
    /\ lockedAt[e] = "fresh"
    /\ lockedAt' = [lockedAt EXCEPT ![e] = "expired"]
    /\ UNCHANGED <<status, retryCount, txVars, pollerVars, brokerVars>>
-----------------------------------------------------------------------------
(* processNextBatch: query, claim, loop.                                   *)

\* The where clause of findMany.
Claimable(e) ==
    /\ status[e] = "PENDING"
    /\ lockedAt[e] \in {"null", "expired"}

\* Mutant: findMany without its orderBy.
IsBatchUnordered(b) ==
    /\ \A i \in DOMAIN b : Claimable(b[i])
    /\ \A i, j \in DOMAIN b : i < j => b[i] # b[j]
    /\ \A e \in {x \in Event : Claimable(x)} \ {b[i] : i \in DOMAIN b} :
          Len(b) = BatchSize

\* orderBy createdAt, take BatchSize: the possible answers of findMany.
IsBatch(b) ==
    /\ \A i \in DOMAIN b : Claimable(b[i])
    /\ \A i, j \in DOMAIN b :
          i < j => b[i] # b[j] /\ createdAt[b[i]] <= createdAt[b[j]]
    /\ \A e \in {x \in Event : Claimable(x)} \ {b[i] : i \in DOMAIN b} :
          /\ Len(b) = BatchSize
          /\ \A i \in DOMAIN b : createdAt[b[i]] <= createdAt[e]

Rows(b) == [i \in DOMAIN b |-> [id |-> b[i], retryCount |-> retryCount[b[i]]]]

InBatch(p, e) == \E i \in DOMAIN batch[p] : batch[p][i].id = e

\* A claimed row that no living poller has: its process died, or its batch was
\* dropped after the claim.
Orphan(e) == status[e] = "PROCESSING" /\ \A p \in Poller : ~InBatch(p, e)

Start(p) ==
    /\ pc[p] = "down"
    /\ pc' = [pc EXCEPT ![p] = "idle"]
    /\ UNCHANGED <<rowVars, txVars, batch, brokerVars>>

\* The query returns no row, or throws and the catch only logs.
FindNothing(p) ==
    /\ pc[p] = "idle"
    /\ (\A e \in Event : ~Claimable(e)) \/ "db" \in Faults
    /\ UNCHANGED vars

Find(p) ==
    /\ pc[p] = "idle"
    /\ \E n \in 1..BatchSize : \E b \in [1..n -> Event] :
          /\ IsBatch(b)
          /\ batch' = [batch EXCEPT ![p] = Rows(b)]
    /\ pc' = [pc EXCEPT ![p] = "found"]
    /\ UNCHANGED <<rowVars, txVars, brokerVars>>

\* updateMany where id in the batch: no condition on the row's status.
LockRows(p) ==
    /\ status' = [e \in Event |->
                     IF InBatch(p, e) THEN "PROCESSING" ELSE status[e]]
    /\ lockedAt' = [e \in Event |->
                     IF InBatch(p, e) THEN "fresh" ELSE lockedAt[e]]
    /\ UNCHANGED retryCount

Claim(p) ==
    /\ pc[p] = "found"
    /\ LockRows(p)
    /\ pc' = [pc EXCEPT ![p] = "publish"]
    /\ UNCHANGED <<txVars, batch, brokerVars>>

\* Mutant: the rows of an abandoned batch stay in memory.
AbandonKeepsBatch(p, to) ==
    /\ pc' = [pc EXCEPT ![p] = to]
    /\ UNCHANGED batch

\* An error leaves the loop: processNextBatch logs it and drops the batch.
Abandon(p, to) ==
    /\ pc' = [pc EXCEPT ![p] = to]
    /\ batch' = [batch EXCEPT ![p] = <<>>]

ClaimFails(p) ==
    /\ pc[p] = "found"
    /\ \/ "db" \in Faults /\ UNCHANGED rowVars
       \/ "dback" \in Faults /\ LockRows(p)
    /\ Abandon(p, "idle")
    /\ UNCHANGED <<txVars, brokerVars>>
-----------------------------------------------------------------------------
(* processEvent on the head of the batch.                                  *)

Current(p) == Head(batch[p]).id

\* The loop goes on with the next row of the batch, or the batch is over.
Advance(p) ==
    /\ batch' = [batch EXCEPT ![p] = Tail(@)]
    /\ pc' = [pc EXCEPT ![p] = IF Tail(batch[p]) = <<>> THEN "idle"
                                                        ELSE "publish"]

\* A publish call that ends at `to`, and n messages (0 or 1) in the topic.
Publish(p, n, to) ==
    /\ pc[p] = "publish"
    /\ attempts' = [attempts EXCEPT ![Current(p)] = @ + 1]
    /\ delivered' = [delivered EXCEPT ![Current(p)] = @ + n]
    /\ pc' = [pc EXCEPT ![p] = to]
    /\ UNCHANGED <<rowVars, txVars, batch, dlq>>

PublishOk(p)    == Publish(p, 1, "published")

\* Mutant: the publisher logs the error instead of throwing it.
PublishErrorSwallowed(p) == "publish" \in Faults /\ Publish(p, 0, "published")

PublishFails(p) == \/ "publish" \in Faults /\ Publish(p, 0, "failed")
                   \/ "ack" \in Faults /\ Publish(p, 1, "failed")

\* Each of the three updates of one row clears its lock.
Release(e, newStatus, newRetryCount) ==
    /\ status' = [status EXCEPT ![e] = newStatus]
    /\ retryCount' = [retryCount EXCEPT ![e] = newRetryCount]
    /\ lockedAt' = [lockedAt EXCEPT ![e] = "null"]

MarkCompleted(p) ==
    Release(Current(p), "COMPLETED", retryCount[Current(p)])

Complete(p) ==
    /\ pc[p] = "published"
    /\ MarkCompleted(p)
    /\ Advance(p)
    /\ UNCHANGED <<txVars, brokerVars>>

\* The update is inside processEvent's try: its error reaches handleFailure.
CompleteFails(p) ==
    /\ pc[p] = "published"
    /\ \/ "db" \in Faults /\ UNCHANGED rowVars
       \/ "dback" \in Faults /\ MarkCompleted(p)
    /\ pc' = [pc EXCEPT ![p] = "failed"]
    /\ UNCHANGED <<txVars, batch, brokerVars>>
-----------------------------------------------------------------------------
(* handleFailure: the retry count is the snapshot's, not the row's.        *)

\* Mutant: a failure is counted twice.
NewRetryCountTwice(p) == Head(batch[p]).retryCount + 2

NewRetryCount(p) == Head(batch[p]).retryCount + 1

\* Mutant: one attempt too many.
RestorePendingOnceMore(p) ==
    /\ NewRetryCount(p) <= MaxRetries
    /\ Release(Current(p), "PENDING", NewRetryCount(p))

\* Mutant: the row is unlocked and stays PROCESSING.
RestoreForgetsStatus(p) ==
    /\ NewRetryCount(p) < MaxRetries
    /\ Release(Current(p), "PROCESSING", NewRetryCount(p))

RestorePending(p) ==
    /\ NewRetryCount(p) < MaxRetries
    /\ Release(Current(p), "PENDING", NewRetryCount(p))

\* Mutant: a row is parked one attempt early.
MarkDeadEarly(p) ==
    /\ NewRetryCount(p) + 1 >= MaxRetries
    /\ Release(Current(p), "DEAD", NewRetryCount(p))

MarkDead(p) ==
    /\ NewRetryCount(p) >= MaxRetries
    /\ Release(Current(p), "DEAD", NewRetryCount(p))

Retry(p) ==
    /\ pc[p] = "failed"
    /\ RestorePending(p)
    /\ Advance(p)
    /\ UNCHANGED <<txVars, brokerVars>>

Exhaust(p) ==
    /\ pc[p] = "failed"
    /\ MarkDead(p)
    /\ pc' = [pc EXCEPT ![p] = "deadletter"]
    /\ UNCHANGED <<txVars, batch, brokerVars>>

\* handleFailure's own update throws, and nothing catches it in the loop.
FailureUpdateFails(p) ==
    /\ pc[p] = "failed"
    /\ \/ "db" \in Faults /\ UNCHANGED rowVars
       \/ "dback" \in Faults /\ (RestorePending(p) \/ MarkDead(p))
    /\ Abandon(p, "idle")
    /\ UNCHANGED <<txVars, brokerVars>>

\* publishDeadLetterEvent swallows a publish error.
DeadLetter(p) ==
    /\ pc[p] = "deadletter"
    /\ \/ dlq' = dlq \cup {Current(p)}
       \/ "publish" \in Faults /\ UNCHANGED dlq
    /\ Advance(p)
    /\ UNCHANGED <<rowVars, txVars, attempts, delivered>>

\* The process dies (or, idle, is stopped); a publish or update under way may
\* or may not have taken effect, which is the step before or after this one.
Crash(p) ==
    /\ "crash" \in Faults
    /\ pc[p] # "down"
    /\ Abandon(p, "down")
    /\ UNCHANGED <<rowVars, txVars, brokerVars>>
-----------------------------------------------------------------------------
PollerStep(p) ==
    \/ Start(p)
    \/ FindNothing(p) \/ Find(p)
    \/ Claim(p) \/ ClaimFails(p)
    \/ PublishOk(p) \/ PublishFails(p)
    \/ Complete(p) \/ CompleteFails(p)
    \/ Retry(p) \/ Exhaust(p) \/ FailureUpdateFails(p)
    \/ DeadLetter(p)

EventStep(e) ==
    WriteOutboxEvent(e) \/ Commit(e) \/ Rollback(e) \/ LockExpires(e)

Next ==
    \/ \E e \in Event : EventStep(e)
    \/ \E p \in Poller : PollerStep(p) \/ Crash(p)

Spec == Init /\ [][Next]_vars

\* The interval timer keeps firing, awaited calls return, a dead process is
\* restarted and time passes.  Nobody has to write or commit an event.
Fairness ==
    /\ \A p \in Poller : WF_vars(PollerStep(p))
    /\ \A e \in Event : WF_vars(LockExpires(e))

FairSpec == Spec /\ Fairness
-----------------------------------------------------------------------------
(* Safety, for any number of pollers and any of the faults.                *)

\* A row is COMPLETED only after the broker accepted its message: no ordering
\* of claims, stale snapshots and failing updates marks a lost event as sent.
CompletedWasDelivered ==
    \A e \in Event : status[e] = "COMPLETED" => delivered[e] > 0

\* A row is parked as DEAD only after MaxRetries real publish attempts, however
\* many pollers wrote its retryCount from their own snapshots.
DeadWasExhausted ==
    \A e \in Event : status[e] = "DEAD" => attempts[e] >= MaxRetries

\* The broker never holds a message of a transaction that is still open or
\* was rolled back (the outbox row is written in the business transaction).
OnlyCommittedDelivered ==
    \A e \in Event :
        delivered[e] > 0 \/ e \in dlq => tx[e] = "committed"

\* A row that waits for delivery is never locked: the lock-timeout branch of
\* the query in processNextBatch selects no row that the null branch does not.
PendingIsUnlocked ==
    \A e \in Event : status[e] = "PENDING" => lockedAt[e] = "null"

(* Safety of a table drained by one poller.                                *)

SinglePoller == \A p, q \in Poller : p = q

\* retryCount counts the failed attempts and nothing else, across crashes,
\* lost replies and abandoned batches; the last attempt of a row that is not
\* settled may be missing from it.
RetryCountIsFailures ==
    \A e \in Event :
        CASE status[e] = "PENDING"    -> attempts[e] = retryCount[e]
          [] status[e] = "PROCESSING" -> attempts[e] - retryCount[e] \in {0, 1}
          [] status[e] = "COMPLETED"  -> attempts[e] = retryCount[e] + 1
          [] status[e] = "DEAD"       -> attempts[e] = retryCount[e]
          [] OTHER                    -> attempts[e] = 0

\* Retries are bounded whatever fails: the broker gets an event at most
\* MaxRetries times, and only a DEAD event has a dead-letter message.
BoundedDelivery ==
    /\ \A e \in Event : attempts[e] <= MaxRetries /\ delivered[e] <= MaxRetries
    /\ \A e \in dlq : status[e] = "DEAD"

\* First attempts are made in the order the events were committed, across
\* batches, retries and crashes: once an event is attempted, every event that
\* was committed in an earlier tick, before it was written, is attempted or an
\* orphan.  An event that commits late, or shares the tick, may be overtaken.
CommittedFirst ==
    \A e \in Event : \A o \in before[e] :
        attempts[e] > 0 => attempts[o] > 0 \/ Orphan(o)

\* A settled row stays as it is and is never published again.
SettledIsFinal ==
    [][\A e \in Event :
         status[e] \in Settled =>
             /\ status'[e] = status[e]
             /\ attempts'[e] = attempts[e]]_vars

\* The outbox keeps the promise of EventDelivery: rows that are PENDING or
\* PROCESSING are queued events.
Stage(e) ==
    CASE status[e] \in {"PENDING", "PROCESSING"} -> "queued"
      [] status[e] = "COMPLETED"                -> "done"
      [] status[e] = "DEAD"                     -> "dead"
      [] status[e] = "absent"                   -> tx[e]

Promise == INSTANCE EventDelivery WITH
    stage <- [e \in Event |-> Stage(e)],
    copies <- delivered

KeepsPromise == Promise!Spec

(* Liveness, when no process dies and the database answers.                *)

\* Every committed event is eventually delivered or parked, for good, however
\* its publish calls end and however the pollers overlap.
EventuallySettled ==
    \A e \in Event : status[e] = "PENDING" ~> [](status[e] \in Settled)

(* What a comment of the code says, and the code does not do.               *)

\* What the comment of OutboxPoller says of the lock timeout: a row whose poller
\* died in the middle of its batch is reaped, not stuck for ever.
OrphansAreReaped == \A e \in Event : Orphan(e) ~> ~Orphan(e)
=============================================================================
