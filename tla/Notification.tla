---------------------------- MODULE Notification ----------------------------
(***************************************************************************)
(* notification-service: consumers of the domain-events topic that claim a *)
(* NotificationLog row for a message, send the mail and settle the row     *)
(* (domainEventConsumer.ts, notificationService.ts, idempotency.ts,        *)
(* notificationLog.ts, dlq.ts).  The broker delivers a message until its   *)
(* offset is committed, possibly to two consumers after a rebalance.       *)
(*                                                                         *)
(* The rate limiter and the circuit breaker let a message pass or not: any *)
(* answer is possible here.  Backoff delays, nextRetryAt and lastError are *)
(* written or waited for and never read.                                   *)
(***************************************************************************)
EXTENDS Naturals, FiniteSets

CONSTANTS Message,      \* messages in the topic
          Worker,       \* consumer instances of the group
          Aggregate,    \* aggregate ids
          aggregateId,  \* aggregateId[m]: in the envelope of message m
          eventType,    \* eventType[m]: in the envelope of message m
          Event,        \* domain events, as their producers emit them
          eventOf,      \* eventOf[m]: the event that m is a copy of
          MaxRetries,   \* maxRetries of a NotificationLog row
          MaxAttempts,  \* attempts of retryWithBackoff
          MaxDeliveries,\* bound: deliveries before the calm
          Faults        \* the failures that happen

(***************************************************************************)
(* "crash"      a worker dies, or its session times out and it is stopped; *)
(* "rebalance"  a message is given to a second worker while the first one  *)
(*              still handles it (the handler outlasts the session);       *)
(* "provider"   a send fails and the mail is not accepted;                 *)
(* "timeout"    a send times out and the mail was accepted;                *)
(* "db"         a database call throws without effect;                     *)
(* "dback"      an update takes effect and its reply is lost;              *)
(* "publish"    the dead-letter publish fails (and is only logged).        *)
(***************************************************************************)
FaultKind ==
    {"crash", "rebalance", "provider", "timeout", "db", "dback", "publish"}

\* Those that keep a message from being committed.
Outage == {"crash", "rebalance", "db", "dback"}

\* domainEventSchemas.ts: the names, and the ones the schema union accepts.
DomainEventNames ==
    {"account.restore.requested", "email.verification.otp.sent",
     "password.reset.requested", "admin.invite.created", "user.registered"}
DomainEventSchema == DomainEventNames \ {"admin.invite.created"}

ASSUME NotificationAssumption ==
    /\ "none" \notin Message
    /\ aggregateId \in [Message -> Aggregate]
    /\ eventOf \in [Message -> Event]
    /\ eventType \in [Message -> STRING]
    /\ \A m, n \in Message : eventOf[m] = eventOf[n] =>
          aggregateId[m] = aggregateId[n] /\ eventType[m] = eventType[n]
    /\ MaxRetries \in Nat \ {0} /\ MaxAttempts \in Nat \ {0}
    /\ MaxDeliveries \in Nat
    /\ Faults \subseteq FaultKind

VARIABLES status,       \* status[a]: the row whose eventId is a
          attemptCount, \* attemptCount[a]: the row's column
          pc,           \* pc[w]: where worker w is in its handler
          msg,          \* msg[w]: the message w handles
          attempt,      \* attempt[w]: sends made by retryWithBackoff
          caught,       \* caught[w]: processEvent is in its catch block
          acked,        \* messages whose offset is committed
          deliveries,   \* times a message was handed to a worker before the calm
          calm,         \* the outages are over for good
          mailed,       \* messages for which the provider accepted a mail
          skipped,      \* messages skipped as duplicates
          deadLetters   \* messages with a copy in the dead-letter topic

rowVars    == <<status, attemptCount>>
workerVars == <<pc, msg, attempt, caught>>
brokerVars == <<acked, deliveries, calm>>
historyVars == <<mailed, skipped, deadLetters>>
vars == <<status, attemptCount, pc, msg, attempt, caught, acked, deliveries,
          calm, mailed, skipped, deadLetters>>

Terminal == {"SENT", "DLQ"}
Status   == {"absent", "PENDING", "FAILED"} \cup Terminal
NoMessage == "none"
WorkerPC == {"idle", "poison", "claim", "lookup", "limit", "send", "sent",
             "fail", "dlqrow", "dlqpub", "commit"}

TypeOK ==
    /\ status \in [Aggregate -> Status]
    /\ attemptCount \in [Aggregate -> Nat]
    /\ pc \in [Worker -> WorkerPC]
    /\ msg \in [Worker -> Message \cup {NoMessage}]
    /\ \A w \in Worker : pc[w] = "idle" <=> msg[w] = NoMessage
    /\ attempt \in [Worker -> 0..MaxAttempts]
    /\ \A w \in Worker : pc[w] \notin {"send", "sent"} => attempt[w] = 0
    /\ caught \in [Worker -> BOOLEAN]
    /\ acked \subseteq Message
    /\ deliveries \in Nat
    /\ calm \in BOOLEAN
    /\ mailed \subseteq Message
    /\ skipped \subseteq Message /\ deadLetters \subseteq Message

Init ==
    /\ status = [a \in Aggregate |-> "absent"]
    /\ attemptCount = [a \in Aggregate |-> 0]
    /\ pc = [w \in Worker |-> "idle"]
    /\ msg = [w \in Worker |-> NoMessage]
    /\ attempt = [w \in Worker |-> 0]
    /\ caught = [w \in Worker |-> FALSE]
    /\ acked = {}
    /\ deliveries = 0
    /\ calm = FALSE
    /\ mailed = {} /\ skipped = {} /\ deadLetters = {}
-----------------------------------------------------------------------------
Row(w) == aggregateId[msg[w]]

\* A failure of kind k may happen now.
Happens(k) == k \in Faults /\ (k \in Outage => ~calm)

\* From here on nobody dies, the group is stable and the database answers;
\* the provider, the rate limiter and the dead-letter topic may go on failing.
CalmDown ==
    /\ ~calm
    /\ calm' = TRUE
    /\ UNCHANGED <<rowVars, workerVars, acked, deliveries, historyVars>>

Goto(w, where) ==
    /\ pc' = [pc EXCEPT ![w] = where]
    /\ UNCHANGED <<msg, caught>>

\* Mutant: the counter of an earlier send survives.
ProceedKeepsAttempts(w, where) == Goto(w, where) /\ UNCHANGED attempt

\* Control moves and the send counter is forgotten.
Proceed(w, where) ==
    /\ Goto(w, where)
    /\ attempt' = [attempt EXCEPT ![w] = 0]

\* The handler ends without a commit: the message will be delivered again.
Leave(w) ==
    /\ pc' = [pc EXCEPT ![w] = "idle"]
    /\ msg' = [msg EXCEPT ![w] = NoMessage]
    /\ attempt' = [attempt EXCEPT ![w] = 0]
    /\ caught' = [caught EXCEPT ![w] = FALSE]

\* Mutant: an error in the catch block is logged and the handler returns.
ThrowSwallowed(w) ==
    /\ pc' = [pc EXCEPT ![w] = "commit"]
    /\ attempt' = [attempt EXCEPT ![w] = 0]
    /\ UNCHANGED <<msg, caught>>

\* An error after the claim: the first one enters the catch block, and one
\* thrown there leaves processEvent.
Throw(w) ==
    IF caught[w]
      THEN Leave(w)
      ELSE /\ pc' = [pc EXCEPT ![w] = "fail"]
           /\ caught' = [caught EXCEPT ![w] = TRUE]
           /\ attempt' = [attempt EXCEPT ![w] = 0]
           /\ UNCHANGED msg

\* Messages are keyed by their event's id: copies share a partition, and a
\* partition has one owner.
Owned(m) ==
    \E v \in Worker : msg[v] # NoMessage /\ eventOf[msg[v]] = eventOf[m]

\* A delivery: handleDomainEventMessage parses the message.
Take(w) ==
    /\ pc[w] = "idle"
    /\ \E m \in Message \ acked :
          /\ Owned(m) => Happens("rebalance")
          /\ IF calm THEN UNCHANGED deliveries
                     ELSE /\ deliveries < MaxDeliveries
                          /\ deliveries' = deliveries + 1
          /\ msg' = [msg EXCEPT ![w] = m]
          /\ pc' = [pc EXCEPT ![w] =
                       IF eventType[m] \in DomainEventSchema THEN "claim"
                                                             ELSE "poison"]
    /\ UNCHANGED <<rowVars, attempt, caught, acked, calm, historyVars>>

\* publishDeadLetterEvent: a failing publish is logged.
Publish(w) ==
    /\ \/ deadLetters' = deadLetters \cup {msg[w]}
       \/ Happens("publish") /\ UNCHANGED deadLetters
    /\ Proceed(w, "commit")
    /\ UNCHANGED <<rowVars, brokerVars, mailed, skipped>>

\* Mutant: the schema's rejection is thrown back to the broker.
PoisonThrown(w) ==
    /\ pc[w] = "poison"
    /\ Leave(w)
    /\ UNCHANGED <<rowVars, brokerVars, historyVars>>

RoutePoisonMessage(w) == pc[w] = "poison" /\ Publish(w)

Commit(w) ==
    /\ pc[w] = "commit"
    /\ acked' = acked \cup {msg[w]}
    /\ Leave(w)
    /\ UNCHANGED <<rowVars, deliveries, calm, historyVars>>

Crash(w) ==
    /\ Happens("crash")
    /\ pc[w] # "idle"
    /\ Leave(w)
    /\ UNCHANGED <<rowVars, brokerVars, historyVars>>
-----------------------------------------------------------------------------
(* claimNotification.                                                      *)

\* create, which P2002 turns into a lookup of the existing row.
Claim(w) ==
    /\ pc[w] = "claim"
    /\ IF status[Row(w)] = "absent"
         THEN /\ status' = [status EXCEPT ![Row(w)] = "PENDING"]
              /\ Proceed(w, "limit")
         ELSE /\ UNCHANGED status
              /\ Proceed(w, "lookup")
    /\ UNCHANGED <<attemptCount, brokerVars, historyVars>>

\* Mutants: any row but SENT is claimed again; any existing row is a duplicate.
ReclaimableNotSent(s) == s # "SENT"
ReclaimableNever(s)   == FALSE

Reclaimable(s) == s \notin Terminal

\* findUnique on the existing row.
Lookup(w) ==
    /\ pc[w] = "lookup"
    /\ IF Reclaimable(status[Row(w)])
         THEN /\ Proceed(w, "limit")
              /\ UNCHANGED skipped
         ELSE /\ Proceed(w, "commit")
              /\ skipped' = skipped \cup {msg[w]}
    /\ UNCHANGED <<rowVars, brokerVars, mailed, deadLetters>>

\* A database error before the row is known is thrown to KafkaJS.
ClaimFails(w) ==
    /\ pc[w] \in {"claim", "lookup"}
    /\ \/ Happens("db") /\ UNCHANGED status
       \/ /\ Happens("dback")
          /\ pc[w] = "claim" /\ status[Row(w)] = "absent"
          /\ status' = [status EXCEPT ![Row(w)] = "PENDING"]
    /\ Leave(w)
    /\ UNCHANGED <<attemptCount, brokerVars, historyVars>>
-----------------------------------------------------------------------------
(* The try block of processEvent.                                          *)

\* Within the limit: the template is rendered and the breaker lets it pass.
Admit(w) ==
    /\ pc[w] = "limit"
    /\ Proceed(w, "send")
    /\ UNCHANGED <<rowVars, brokerVars, historyVars>>

\* Over the limit: markAsFailed is called inside the try block.
RateLimited(w) ==
    /\ pc[w] = "limit"
    /\ Proceed(w, "fail")
    /\ UNCHANGED <<rowVars, brokerVars, historyVars>>

\* The template throws, or the breaker is open.
Refused(w) ==
    /\ pc[w] = "limit"
    /\ Throw(w)
    /\ UNCHANGED <<rowVars, brokerVars, historyVars>>

Accepted(w) == mailed' = mailed \cup {msg[w]}

SendOk(w) ==
    /\ pc[w] = "send"
    /\ Accepted(w)
    /\ Proceed(w, "sent")
    /\ UNCHANGED <<rowVars, brokerVars, skipped, deadLetters>>

\* A retryable error: retryWithBackoff tries again, or throws the last error.
SendRetryable(w) ==
    /\ pc[w] = "send"
    /\ \/ Happens("provider") /\ UNCHANGED mailed
       \/ Happens("timeout") /\ Accepted(w)
    /\ IF attempt[w] + 1 < MaxAttempts
         THEN Goto(w, "send") /\ attempt' = [attempt EXCEPT ![w] = @ + 1]
         ELSE Throw(w)
    /\ UNCHANGED <<rowVars, brokerVars, skipped, deadLetters>>

\* Mutant: a permanent error is taken for a delivered mail.
SendIgnored(w) ==
    /\ pc[w] = "send"
    /\ Happens("provider")
    /\ Proceed(w, "sent")
    /\ UNCHANGED <<rowVars, brokerVars, historyVars>>

SendPermanent(w) ==
    /\ pc[w] = "send"
    /\ Happens("provider")
    /\ Throw(w)
    /\ UNCHANGED <<rowVars, brokerVars, historyVars>>

SetStatus(w, s) == status' = [status EXCEPT ![Row(w)] = s]

MarkAsSent(w) ==
    /\ pc[w] = "sent"
    /\ SetStatus(w, "SENT")
    /\ Proceed(w, "commit")
    /\ UNCHANGED <<attemptCount, brokerVars, historyVars>>

MarkAsSentFails(w) ==
    /\ pc[w] = "sent"
    /\ \/ Happens("db") /\ UNCHANGED status
       \/ Happens("dback") /\ SetStatus(w, "SENT")
    /\ Throw(w)
    /\ UNCHANGED <<attemptCount, brokerVars, historyVars>>
-----------------------------------------------------------------------------
(* markAsFailed and routeToDlq, in the try block or in the catch block.    *)

CountFailure(w) ==
    /\ SetStatus(w, "FAILED")
    /\ attemptCount' = [attemptCount EXCEPT ![Row(w)] = @ + 1]

\* The counter the update returned.
Exhausted(w) == attemptCount'[Row(w)] >= MaxRetries

MarkAsFailed(w) ==
    /\ pc[w] = "fail"
    /\ CountFailure(w)
    /\ Proceed(w, IF Exhausted(w) THEN "dlqrow" ELSE "commit")
    /\ UNCHANGED <<brokerVars, historyVars>>

MarkAsFailedFails(w) ==
    /\ pc[w] = "fail"
    /\ \/ Happens("db") /\ UNCHANGED rowVars
       \/ Happens("dback") /\ CountFailure(w)
    /\ Throw(w)
    /\ UNCHANGED <<brokerVars, historyVars>>

RouteToDlq(w) ==
    /\ pc[w] = "dlqrow"
    /\ SetStatus(w, "DLQ")
    /\ Proceed(w, "dlqpub")
    /\ UNCHANGED <<attemptCount, brokerVars, historyVars>>

RouteToDlqFails(w) ==
    /\ pc[w] = "dlqrow"
    /\ \/ Happens("db") /\ UNCHANGED status
       \/ Happens("dback") /\ SetStatus(w, "DLQ")
    /\ Throw(w)
    /\ UNCHANGED <<attemptCount, brokerVars, historyVars>>

PublishDeadLetter(w) == pc[w] = "dlqpub" /\ Publish(w)
-----------------------------------------------------------------------------
Handle(w) ==
    \/ RoutePoisonMessage(w)
    \/ Claim(w) \/ Lookup(w) \/ ClaimFails(w)
    \/ Admit(w) \/ RateLimited(w) \/ Refused(w)
    \/ SendOk(w) \/ SendRetryable(w) \/ SendPermanent(w)
    \/ MarkAsSent(w) \/ MarkAsSentFails(w)
    \/ MarkAsFailed(w) \/ MarkAsFailedFails(w)
    \/ RouteToDlq(w) \/ RouteToDlqFails(w)
    \/ PublishDeadLetter(w)
    \/ Commit(w)

Next == CalmDown \/ \E w \in Worker : Take(w) \/ Handle(w) \/ Crash(w)

Spec == Init /\ [][Next]_vars

\* A running consumer polls for messages and its awaited calls return.
FairSpec ==
    Spec /\ \A w \in Worker : WF_vars(Take(w)) /\ WF_vars(Handle(w))
-----------------------------------------------------------------------------
(* Properties.                                                             *)

Copies(a) == {m \in Message : aggregateId[m] = a}

\* A row is SENT only if the provider accepted a mail for it, whatever was
\* redelivered, retried or handled by two workers at once.
SentWasMailed ==
    \A a \in Aggregate :
        status[a] = "SENT" => Copies(a) \cap mailed # {}

\* Whatever is skipped as a duplicate shares its row with a message that was
\* mailed or whose retries were exhausted.
SkippedWasHandled ==
    \A m \in skipped :
        \/ Copies(aggregateId[m]) \cap mailed # {}
        \/ attemptCount[aggregateId[m]] >= MaxRetries

\* The offset of a well-formed message is committed only once its row tells
\* what became of it: no crash or error leaves an acknowledged PENDING row.
AckedIsDecided ==
    \A m \in acked : eventType[m] \in DomainEventSchema =>
        status[aggregateId[m]] \notin {"absent", "PENDING"}

\* A row that is settled and in nobody's hands is final: whatever is delivered
\* for it later, copies or other events of its account, no worker takes it up,
\* mails or writes it again.  Before that, a worker past the claim may still
\* undo what another, or its own update whose reply was lost, has settled.
Working(w) == pc[w] \in {"limit", "send", "sent", "fail", "dlqrow"}

Final(a) ==
    /\ status[a] \in Terminal
    /\ \A w \in Worker : Working(w) => Row(w) # a

SettledStaysSettled ==
    [][\A a \in Aggregate : Final(a) => Final(a)' /\ status'[a] = status[a]]_vars

\* No message blocks its partition for good: once the outages are over, each is
\* committed, however its sends end and whatever the outages left behind.
EventuallyAcked == \A m \in Message : calm ~> m \in acked
=============================================================================
