------------------------- MODULE NotificationProofs -------------------------
(* Theorems about Notification for any number of messages, workers and      *)
(* accounts, any limits, and every set of faults.                           *)
EXTENDS Notification, TLAPS

(***************************************************************************)
(* Types, one conjunct at a time.                                           *)
(***************************************************************************)

RowTypes ==
    /\ status \in [Aggregate -> Status]
    /\ attemptCount \in [Aggregate -> Nat]

WorkerTypes ==
    /\ pc \in [Worker -> WorkerPC]
    /\ msg \in [Worker -> Message \cup {NoMessage}]
    /\ \A w \in Worker : pc[w] # "idle" => msg[w] \in Message
    /\ \A w \in Worker : pc[w] = "idle" => msg[w] = NoMessage
    /\ caught \in [Worker -> BOOLEAN]

AttemptTypes ==
    /\ attempt \in [Worker -> 0..MaxAttempts]
    /\ \A w \in Worker : pc[w] \notin {"send", "sent"} => attempt[w] = 0

LogTypes ==
    /\ acked \subseteq Message
    /\ deliveries \in Nat /\ calm \in BOOLEAN
    /\ mailed \subseteq Message
    /\ skipped \subseteq Message /\ deadLetters \subseteq Message

TypeInv == RowTypes /\ WorkerTypes /\ AttemptTypes /\ LogTypes

\* The initial states have their types.
LEMMA InitType == Init => TypeInv
<1> SUFFICES ASSUME Init PROVE TypeInv
  OBVIOUS
<1> USE NotificationAssumption DEF Init
<1>1. RowTypes
  BY DEF RowTypes, Status, Terminal
<1>2. WorkerTypes
  BY DEF WorkerTypes, WorkerPC, NoMessage
<1>3. AttemptTypes
  BY DEF AttemptTypes
<1>4. LogTypes
  BY DEF LogTypes
<1> QED
  BY <1>1, <1>2, <1>3, <1>4 DEF TypeInv

\* A worker whose call throws is in the catch block, or has left.
LEMMA ThrowTypes ==
    ASSUME WorkerTypes, NEW w \in Worker, pc[w] # "idle", Throw(w)
    PROVE  WorkerTypes'
<1>1. CASE caught[w]
  BY <1>1 DEF Throw, Leave, WorkerTypes, WorkerPC, NoMessage
<1>2. CASE ~caught[w]
  BY <1>2 DEF Throw, WorkerTypes, WorkerPC
<1> QED
  BY <1>1, <1>2

\* Every step keeps the types.
LEMMA TypeNext ==
    ASSUME TypeInv, [Next]_vars
    PROVE  TypeInv'
<1>1. ASSUME NEW w \in Worker, Take(w)
      PROVE  TypeInv'
  <2>1. RowTypes'
    BY <1>1, NotificationAssumption DEF Take, rowVars, brokerVars,
       historyVars, TypeInv, RowTypes, WorkerTypes, Status, Terminal
  <2>2. WorkerTypes'
    BY <1>1, NotificationAssumption DEF Take, rowVars, brokerVars,
       historyVars, TypeInv, WorkerTypes, WorkerPC, NoMessage
  <2>3. AttemptTypes'
    BY <1>1, NotificationAssumption DEF Take, rowVars, brokerVars,
       historyVars, TypeInv, AttemptTypes, WorkerTypes, WorkerPC
  <2>4. LogTypes'
    BY <1>1, NotificationAssumption DEF Take, rowVars, brokerVars,
       historyVars, TypeInv, LogTypes, WorkerTypes
  <2> QED
    BY <2>1, <2>2, <2>3, <2>4 DEF TypeInv
<1>2. ASSUME NEW w \in Worker, RoutePoisonMessage(w)
      PROVE  TypeInv'
  <2>1. RowTypes'
    BY <1>2, NotificationAssumption DEF RoutePoisonMessage, Publish,
       Proceed, Goto, Row, rowVars, brokerVars, historyVars, TypeInv,
       RowTypes, WorkerTypes, Status, Terminal
  <2>2. WorkerTypes'
    BY <1>2, NotificationAssumption DEF RoutePoisonMessage, Publish,
       Proceed, Goto, Row, rowVars, brokerVars, historyVars, TypeInv,
       WorkerTypes, WorkerPC, NoMessage
  <2>3. AttemptTypes'
    BY <1>2, NotificationAssumption DEF RoutePoisonMessage, Publish,
       Proceed, Goto, Row, rowVars, brokerVars, historyVars, TypeInv,
       AttemptTypes, WorkerTypes, WorkerPC
  <2>4. LogTypes'
    BY <1>2, NotificationAssumption DEF RoutePoisonMessage, Publish,
       Proceed, Goto, Row, rowVars, brokerVars, historyVars, TypeInv,
       LogTypes, WorkerTypes
  <2> QED
    BY <2>1, <2>2, <2>3, <2>4 DEF TypeInv
<1>3. ASSUME NEW w \in Worker, Claim(w)
      PROVE  TypeInv'
  <2>1. RowTypes'
    BY <1>3, NotificationAssumption DEF Claim, Proceed, Goto, Row, rowVars,
       brokerVars, historyVars, TypeInv, RowTypes, WorkerTypes, Status,
       Terminal
  <2>2. WorkerTypes'
    BY <1>3, NotificationAssumption DEF Claim, Proceed, Goto, Row, rowVars,
       brokerVars, historyVars, TypeInv, WorkerTypes, WorkerPC, NoMessage
  <2>3. AttemptTypes'
    BY <1>3, NotificationAssumption DEF Claim, Proceed, Goto, Row, rowVars,
       brokerVars, historyVars, TypeInv, AttemptTypes, WorkerTypes, WorkerPC
  <2>4. LogTypes'
    BY <1>3, NotificationAssumption DEF Claim, Proceed, Goto, Row, rowVars,
       brokerVars, historyVars, TypeInv, LogTypes, WorkerTypes
  <2> QED
    BY <2>1, <2>2, <2>3, <2>4 DEF TypeInv
<1>4. ASSUME NEW w \in Worker, Lookup(w)
      PROVE  TypeInv'
  <2>1. RowTypes'
    BY <1>4, NotificationAssumption DEF Lookup, Proceed, Goto, Reclaimable,
       Terminal, Row, rowVars, brokerVars, historyVars, TypeInv, RowTypes,
       WorkerTypes, Status, Terminal
  <2>2. WorkerTypes'
    BY <1>4, NotificationAssumption DEF Lookup, Proceed, Goto, Reclaimable,
       Terminal, Row, rowVars, brokerVars, historyVars, TypeInv,
       WorkerTypes, WorkerPC, NoMessage
  <2>3. AttemptTypes'
    BY <1>4, NotificationAssumption DEF Lookup, Proceed, Goto, Reclaimable,
       Terminal, Row, rowVars, brokerVars, historyVars, TypeInv,
       AttemptTypes, WorkerTypes, WorkerPC
  <2>4. LogTypes'
    BY <1>4, NotificationAssumption DEF Lookup, Proceed, Goto, Reclaimable,
       Terminal, Row, rowVars, brokerVars, historyVars, TypeInv, LogTypes,
       WorkerTypes
  <2> QED
    BY <2>1, <2>2, <2>3, <2>4 DEF TypeInv
<1>5. ASSUME NEW w \in Worker, ClaimFails(w)
      PROVE  TypeInv'
  <2>1. RowTypes'
    BY <1>5, NotificationAssumption DEF ClaimFails, Leave, Row, rowVars,
       brokerVars, historyVars, TypeInv, RowTypes, WorkerTypes, Status,
       Terminal
  <2>2. WorkerTypes'
    BY <1>5, NotificationAssumption DEF ClaimFails, Leave, Row, rowVars,
       brokerVars, historyVars, TypeInv, WorkerTypes, WorkerPC, NoMessage
  <2>3. AttemptTypes'
    BY <1>5, NotificationAssumption DEF ClaimFails, Leave, Row, rowVars,
       brokerVars, historyVars, TypeInv, AttemptTypes, WorkerTypes, WorkerPC
  <2>4. LogTypes'
    BY <1>5, NotificationAssumption DEF ClaimFails, Leave, Row, rowVars,
       brokerVars, historyVars, TypeInv, LogTypes, WorkerTypes
  <2> QED
    BY <2>1, <2>2, <2>3, <2>4 DEF TypeInv
<1>6. ASSUME NEW w \in Worker, Admit(w)
      PROVE  TypeInv'
  <2>1. RowTypes'
    BY <1>6, NotificationAssumption DEF Admit, Proceed, Goto, Row, rowVars,
       brokerVars, historyVars, TypeInv, RowTypes, WorkerTypes, Status,
       Terminal
  <2>2. WorkerTypes'
    BY <1>6, NotificationAssumption DEF Admit, Proceed, Goto, Row, rowVars,
       brokerVars, historyVars, TypeInv, WorkerTypes, WorkerPC, NoMessage
  <2>3. AttemptTypes'
    BY <1>6, NotificationAssumption DEF Admit, Proceed, Goto, Row, rowVars,
       brokerVars, historyVars, TypeInv, AttemptTypes, WorkerTypes, WorkerPC
  <2>4. LogTypes'
    BY <1>6, NotificationAssumption DEF Admit, Proceed, Goto, Row, rowVars,
       brokerVars, historyVars, TypeInv, LogTypes, WorkerTypes
  <2> QED
    BY <2>1, <2>2, <2>3, <2>4 DEF TypeInv
<1>7. ASSUME NEW w \in Worker, RateLimited(w)
      PROVE  TypeInv'
  <2>1. RowTypes'
    BY <1>7, NotificationAssumption DEF RateLimited, Proceed, Goto, Row,
       rowVars, brokerVars, historyVars, TypeInv, RowTypes, WorkerTypes,
       Status, Terminal
  <2>2. WorkerTypes'
    BY <1>7, NotificationAssumption DEF RateLimited, Proceed, Goto, Row,
       rowVars, brokerVars, historyVars, TypeInv, WorkerTypes, WorkerPC,
       NoMessage
  <2>3. AttemptTypes'
    BY <1>7, NotificationAssumption DEF RateLimited, Proceed, Goto, Row,
       rowVars, brokerVars, historyVars, TypeInv, AttemptTypes, WorkerTypes,
       WorkerPC
  <2>4. LogTypes'
    BY <1>7, NotificationAssumption DEF RateLimited, Proceed, Goto, Row,
       rowVars, brokerVars, historyVars, TypeInv, LogTypes, WorkerTypes
  <2> QED
    BY <2>1, <2>2, <2>3, <2>4 DEF TypeInv
<1>8. ASSUME NEW w \in Worker, Refused(w)
      PROVE  TypeInv'
  <2>1. RowTypes'
    BY <1>8, NotificationAssumption DEF Refused, Throw, Leave, Row, rowVars,
       brokerVars, historyVars, TypeInv, RowTypes, WorkerTypes, Status,
       Terminal
  <2>2. WorkerTypes'
    <3>1. pc[w] # "idle"
      BY <1>8 DEF Refused
    <3>2. CASE Throw(w)
      BY <3>1, <3>2, ThrowTypes DEF TypeInv
    <3> QED
      BY <1>8, <3>2 DEF Refused
  <2>3. AttemptTypes'
    BY <1>8, NotificationAssumption DEF Refused, Throw, Leave, Row, rowVars,
       brokerVars, historyVars, TypeInv, AttemptTypes, WorkerTypes, WorkerPC
  <2>4. LogTypes'
    BY <1>8, NotificationAssumption DEF Refused, Throw, Leave, Row, rowVars,
       brokerVars, historyVars, TypeInv, LogTypes, WorkerTypes
  <2> QED
    BY <2>1, <2>2, <2>3, <2>4 DEF TypeInv
<1>9. ASSUME NEW w \in Worker, SendOk(w)
      PROVE  TypeInv'
  <2>1. RowTypes'
    BY <1>9, NotificationAssumption DEF SendOk, Accepted, Proceed, Goto,
       Row, rowVars, brokerVars, historyVars, TypeInv, RowTypes,
       WorkerTypes, Status, Terminal
  <2>2. WorkerTypes'
    BY <1>9, NotificationAssumption DEF SendOk, Accepted, Proceed, Goto,
       Row, rowVars, brokerVars, historyVars, TypeInv, WorkerTypes,
       WorkerPC, NoMessage
  <2>3. AttemptTypes'
    BY <1>9, NotificationAssumption DEF SendOk, Accepted, Proceed, Goto,
       Row, rowVars, brokerVars, historyVars, TypeInv, AttemptTypes,
       WorkerTypes, WorkerPC
  <2>4. LogTypes'
    BY <1>9, NotificationAssumption DEF SendOk, Accepted, Proceed, Goto,
       Row, rowVars, brokerVars, historyVars, TypeInv, LogTypes, WorkerTypes
  <2> QED
    BY <2>1, <2>2, <2>3, <2>4 DEF TypeInv
<1>10. ASSUME NEW w \in Worker, SendRetryable(w)
      PROVE  TypeInv'
  <2>1. RowTypes'
    BY <1>10, NotificationAssumption DEF SendRetryable, Accepted, Goto,
       Throw, Leave, Row, rowVars, brokerVars, historyVars, TypeInv,
       RowTypes, WorkerTypes, Status, Terminal
  <2>2. WorkerTypes'
    <3>1. pc[w] # "idle"
      BY <1>10 DEF SendRetryable
    <3>2. CASE Throw(w)
      BY <3>1, <3>2, ThrowTypes DEF TypeInv
    <3>3. CASE Goto(w, "send")
      BY <3>1, <3>3 DEF Goto, TypeInv, WorkerTypes, WorkerPC
    <3> QED
      BY <1>10, <3>2, <3>3 DEF SendRetryable
  <2>3. AttemptTypes'
    BY <1>10, NotificationAssumption DEF SendRetryable, Accepted, Goto,
       Throw, Leave, Row, rowVars, brokerVars, historyVars, TypeInv,
       AttemptTypes, WorkerTypes, WorkerPC
  <2>4. LogTypes'
    BY <1>10, NotificationAssumption DEF SendRetryable, Accepted, Goto,
       Throw, Leave, Row, rowVars, brokerVars, historyVars, TypeInv,
       LogTypes, WorkerTypes
  <2> QED
    BY <2>1, <2>2, <2>3, <2>4 DEF TypeInv
<1>11. ASSUME NEW w \in Worker, SendPermanent(w)
      PROVE  TypeInv'
  <2>1. RowTypes'
    BY <1>11, NotificationAssumption DEF SendPermanent, Throw, Leave, Row,
       rowVars, brokerVars, historyVars, TypeInv, RowTypes, WorkerTypes,
       Status, Terminal
  <2>2. WorkerTypes'
    <3>1. pc[w] # "idle"
      BY <1>11 DEF SendPermanent
    <3>2. CASE Throw(w)
      BY <3>1, <3>2, ThrowTypes DEF TypeInv
    <3> QED
      BY <1>11, <3>2 DEF SendPermanent
  <2>3. AttemptTypes'
    BY <1>11, NotificationAssumption DEF SendPermanent, Throw, Leave, Row,
       rowVars, brokerVars, historyVars, TypeInv, AttemptTypes, WorkerTypes,
       WorkerPC
  <2>4. LogTypes'
    BY <1>11, NotificationAssumption DEF SendPermanent, Throw, Leave, Row,
       rowVars, brokerVars, historyVars, TypeInv, LogTypes, WorkerTypes
  <2> QED
    BY <2>1, <2>2, <2>3, <2>4 DEF TypeInv
<1>12. ASSUME NEW w \in Worker, MarkAsSent(w)
      PROVE  TypeInv'
  <2>1. RowTypes'
    BY <1>12, NotificationAssumption DEF MarkAsSent, SetStatus, Proceed,
       Goto, Row, rowVars, brokerVars, historyVars, TypeInv, RowTypes,
       WorkerTypes, Status, Terminal
  <2>2. WorkerTypes'
    BY <1>12, NotificationAssumption DEF MarkAsSent, SetStatus, Proceed,
       Goto, Row, rowVars, brokerVars, historyVars, TypeInv, WorkerTypes,
       WorkerPC, NoMessage
  <2>3. AttemptTypes'
    BY <1>12, NotificationAssumption DEF MarkAsSent, SetStatus, Proceed,
       Goto, Row, rowVars, brokerVars, historyVars, TypeInv, AttemptTypes,
       WorkerTypes, WorkerPC
  <2>4. LogTypes'
    BY <1>12, NotificationAssumption DEF MarkAsSent, SetStatus, Proceed,
       Goto, Row, rowVars, brokerVars, historyVars, TypeInv, LogTypes,
       WorkerTypes
  <2> QED
    BY <2>1, <2>2, <2>3, <2>4 DEF TypeInv
<1>13. ASSUME NEW w \in Worker, MarkAsSentFails(w)
      PROVE  TypeInv'
  <2>1. RowTypes'
    BY <1>13, NotificationAssumption DEF MarkAsSentFails, SetStatus, Throw,
       Leave, Row, rowVars, brokerVars, historyVars, TypeInv, RowTypes,
       WorkerTypes, Status, Terminal
  <2>2. WorkerTypes'
    <3>1. pc[w] # "idle"
      BY <1>13 DEF MarkAsSentFails
    <3>2. CASE Throw(w)
      BY <3>1, <3>2, ThrowTypes DEF TypeInv
    <3> QED
      BY <1>13, <3>2 DEF MarkAsSentFails
  <2>3. AttemptTypes'
    BY <1>13, NotificationAssumption DEF MarkAsSentFails, SetStatus, Throw,
       Leave, Row, rowVars, brokerVars, historyVars, TypeInv, AttemptTypes,
       WorkerTypes, WorkerPC
  <2>4. LogTypes'
    BY <1>13, NotificationAssumption DEF MarkAsSentFails, SetStatus, Throw,
       Leave, Row, rowVars, brokerVars, historyVars, TypeInv, LogTypes,
       WorkerTypes
  <2> QED
    BY <2>1, <2>2, <2>3, <2>4 DEF TypeInv
<1>14. ASSUME NEW w \in Worker, MarkAsFailed(w)
      PROVE  TypeInv'
  <2>1. RowTypes'
    BY <1>14, NotificationAssumption DEF MarkAsFailed, CountFailure,
       SetStatus, Exhausted, Proceed, Goto, Row, rowVars, brokerVars,
       historyVars, TypeInv, RowTypes, WorkerTypes, Status, Terminal
  <2>2. WorkerTypes'
    BY <1>14, NotificationAssumption DEF MarkAsFailed, CountFailure,
       SetStatus, Exhausted, Proceed, Goto, Row, rowVars, brokerVars,
       historyVars, TypeInv, WorkerTypes, WorkerPC, NoMessage
  <2>3. AttemptTypes'
    BY <1>14, NotificationAssumption DEF MarkAsFailed, CountFailure,
       SetStatus, Exhausted, Proceed, Goto, Row, rowVars, brokerVars,
       historyVars, TypeInv, AttemptTypes, WorkerTypes, WorkerPC
  <2>4. LogTypes'
    BY <1>14, NotificationAssumption DEF MarkAsFailed, CountFailure,
       SetStatus, Exhausted, Proceed, Goto, Row, rowVars, brokerVars,
       historyVars, TypeInv, LogTypes, WorkerTypes
  <2> QED
    BY <2>1, <2>2, <2>3, <2>4 DEF TypeInv
<1>15. ASSUME NEW w \in Worker, MarkAsFailedFails(w)
      PROVE  TypeInv'
  <2>1. RowTypes'
    BY <1>15, NotificationAssumption DEF MarkAsFailedFails, CountFailure,
       SetStatus, Throw, Leave, Row, rowVars, brokerVars, historyVars,
       TypeInv, RowTypes, WorkerTypes, Status, Terminal
  <2>2. WorkerTypes'
    <3>1. pc[w] # "idle"
      BY <1>15 DEF MarkAsFailedFails
    <3>2. CASE Throw(w)
      BY <3>1, <3>2, ThrowTypes DEF TypeInv
    <3> QED
      BY <1>15, <3>2 DEF MarkAsFailedFails
  <2>3. AttemptTypes'
    BY <1>15, NotificationAssumption DEF MarkAsFailedFails, CountFailure,
       SetStatus, Throw, Leave, Row, rowVars, brokerVars, historyVars,
       TypeInv, AttemptTypes, WorkerTypes, WorkerPC
  <2>4. LogTypes'
    BY <1>15, NotificationAssumption DEF MarkAsFailedFails, CountFailure,
       SetStatus, Throw, Leave, Row, rowVars, brokerVars, historyVars,
       TypeInv, LogTypes, WorkerTypes
  <2> QED
    BY <2>1, <2>2, <2>3, <2>4 DEF TypeInv
<1>16. ASSUME NEW w \in Worker, RouteToDlq(w)
      PROVE  TypeInv'
  <2>1. RowTypes'
    BY <1>16, NotificationAssumption DEF RouteToDlq, SetStatus, Proceed,
       Goto, Row, rowVars, brokerVars, historyVars, TypeInv, RowTypes,
       WorkerTypes, Status, Terminal
  <2>2. WorkerTypes'
    BY <1>16, NotificationAssumption DEF RouteToDlq, SetStatus, Proceed,
       Goto, Row, rowVars, brokerVars, historyVars, TypeInv, WorkerTypes,
       WorkerPC, NoMessage
  <2>3. AttemptTypes'
    BY <1>16, NotificationAssumption DEF RouteToDlq, SetStatus, Proceed,
       Goto, Row, rowVars, brokerVars, historyVars, TypeInv, AttemptTypes,
       WorkerTypes, WorkerPC
  <2>4. LogTypes'
    BY <1>16, NotificationAssumption DEF RouteToDlq, SetStatus, Proceed,
       Goto, Row, rowVars, brokerVars, historyVars, TypeInv, LogTypes,
       WorkerTypes
  <2> QED
    BY <2>1, <2>2, <2>3, <2>4 DEF TypeInv
<1>17. ASSUME NEW w \in Worker, RouteToDlqFails(w)
      PROVE  TypeInv'
  <2>1. RowTypes'
    BY <1>17, NotificationAssumption DEF RouteToDlqFails, SetStatus, Throw,
       Leave, Row, rowVars, brokerVars, historyVars, TypeInv, RowTypes,
       WorkerTypes, Status, Terminal
  <2>2. WorkerTypes'
    <3>1. pc[w] # "idle"
      BY <1>17 DEF RouteToDlqFails
    <3>2. CASE Throw(w)
      BY <3>1, <3>2, ThrowTypes DEF TypeInv
    <3> QED
      BY <1>17, <3>2 DEF RouteToDlqFails
  <2>3. AttemptTypes'
    BY <1>17, NotificationAssumption DEF RouteToDlqFails, SetStatus, Throw,
       Leave, Row, rowVars, brokerVars, historyVars, TypeInv, AttemptTypes,
       WorkerTypes, WorkerPC
  <2>4. LogTypes'
    BY <1>17, NotificationAssumption DEF RouteToDlqFails, SetStatus, Throw,
       Leave, Row, rowVars, brokerVars, historyVars, TypeInv, LogTypes,
       WorkerTypes
  <2> QED
    BY <2>1, <2>2, <2>3, <2>4 DEF TypeInv
<1>18. ASSUME NEW w \in Worker, PublishDeadLetter(w)
      PROVE  TypeInv'
  <2>1. RowTypes'
    BY <1>18, NotificationAssumption DEF PublishDeadLetter, Publish,
       Proceed, Goto, Row, rowVars, brokerVars, historyVars, TypeInv,
       RowTypes, WorkerTypes, Status, Terminal
  <2>2. WorkerTypes'
    BY <1>18, NotificationAssumption DEF PublishDeadLetter, Publish,
       Proceed, Goto, Row, rowVars, brokerVars, historyVars, TypeInv,
       WorkerTypes, WorkerPC, NoMessage
  <2>3. AttemptTypes'
    BY <1>18, NotificationAssumption DEF PublishDeadLetter, Publish,
       Proceed, Goto, Row, rowVars, brokerVars, historyVars, TypeInv,
       AttemptTypes, WorkerTypes, WorkerPC
  <2>4. LogTypes'
    BY <1>18, NotificationAssumption DEF PublishDeadLetter, Publish,
       Proceed, Goto, Row, rowVars, brokerVars, historyVars, TypeInv,
       LogTypes, WorkerTypes
  <2> QED
    BY <2>1, <2>2, <2>3, <2>4 DEF TypeInv
<1>19. ASSUME NEW w \in Worker, Commit(w)
      PROVE  TypeInv'
  <2>1. RowTypes'
    BY <1>19, NotificationAssumption DEF Commit, Leave, rowVars, brokerVars,
       historyVars, TypeInv, RowTypes, WorkerTypes, Status, Terminal
  <2>2. WorkerTypes'
    BY <1>19, NotificationAssumption DEF Commit, Leave, rowVars, brokerVars,
       historyVars, TypeInv, WorkerTypes, WorkerPC, NoMessage
  <2>3. AttemptTypes'
    BY <1>19, NotificationAssumption DEF Commit, Leave, rowVars, brokerVars,
       historyVars, TypeInv, AttemptTypes, WorkerTypes, WorkerPC
  <2>4. LogTypes'
    BY <1>19, NotificationAssumption DEF Commit, Leave, rowVars, brokerVars,
       historyVars, TypeInv, LogTypes, WorkerTypes
  <2> QED
    BY <2>1, <2>2, <2>3, <2>4 DEF TypeInv
<1>20. ASSUME NEW w \in Worker, Crash(w)
      PROVE  TypeInv'
  <2>1. RowTypes'
    BY <1>20, NotificationAssumption DEF Crash, Leave, rowVars, brokerVars,
       historyVars, TypeInv, RowTypes, WorkerTypes, Status, Terminal
  <2>2. WorkerTypes'
    BY <1>20, NotificationAssumption DEF Crash, Leave, rowVars, brokerVars,
       historyVars, TypeInv, WorkerTypes, WorkerPC, NoMessage
  <2>3. AttemptTypes'
    BY <1>20, NotificationAssumption DEF Crash, Leave, rowVars, brokerVars,
       historyVars, TypeInv, AttemptTypes, WorkerTypes, WorkerPC
  <2>4. LogTypes'
    BY <1>20, NotificationAssumption DEF Crash, Leave, rowVars, brokerVars,
       historyVars, TypeInv, LogTypes, WorkerTypes
  <2> QED
    BY <2>1, <2>2, <2>3, <2>4 DEF TypeInv
<1>21. CASE UNCHANGED vars
  BY <1>21 DEF vars, TypeInv, RowTypes, WorkerTypes, AttemptTypes, LogTypes
<1>22. ASSUME CalmDown
      PROVE  TypeInv'
  BY <1>22 DEF CalmDown, rowVars, workerVars, historyVars, TypeInv, RowTypes,
     WorkerTypes, AttemptTypes, LogTypes
<1> QED
  BY <1>1, <1>2, <1>3, <1>4, <1>5, <1>6, <1>7, <1>8, <1>9, <1>10, <1>11,
     <1>12, <1>13, <1>14, <1>15, <1>16, <1>17, <1>18, <1>19, <1>20, <1>21,
     <1>22
     DEF Next, Handle

\* Type correctness.
THEOREM TypeCorrect == Spec => []TypeOK
<1>1. TypeInv => TypeOK
  BY NotificationAssumption DEF TypeInv, RowTypes, WorkerTypes, AttemptTypes,
     LogTypes, TypeOK, NoMessage
<1> QED
  BY InitType, TypeNext, <1>1, PTL DEF Spec

(***************************************************************************)
(* What a row tells.  Three facts about a row are never undone: it was      *)
(* mailed, its retries are exhausted, it is decided.  The place of a worker *)
(* in its handler says which of them it relies on.                          *)
(***************************************************************************)

Mailed(a)    == Copies(a) \cap mailed # {}
GivenUp(a)   == attemptCount[a] >= MaxRetries
Decided(a)   == status[a] \notin {"absent", "PENDING"}

RowOK(a) == /\ status[a] = "SENT" => Mailed(a)
            /\ status[a] = "DLQ" => GivenUp(a)

WorkerOK(w) ==
    /\ pc[w] = "sent"   => Mailed(Row(w))
    /\ pc[w] = "dlqrow" => GivenUp(Row(w))
    /\ pc[w] = "dlqpub" => Decided(Row(w))
    /\ pc[w] = "poison" => eventType[msg[w]] \notin DomainEventSchema
    /\ pc[w] = "commit" => \/ eventType[msg[w]] \notin DomainEventSchema
                           \/ Decided(Row(w))

LogOK ==
    /\ \A m \in skipped : Mailed(aggregateId[m]) \/ GivenUp(aggregateId[m])
    /\ \A m \in acked : eventType[m] \in DomainEventSchema => Decided(aggregateId[m])

HandledInv ==
    /\ \A a \in Aggregate : RowOK(a)
    /\ \A w \in Worker : WorkerOK(w)
    /\ LogOK

\* Histories that grow keep what they say of a row.
LEMMA GrowingHistories ==
    ASSUME TypeInv, TypeInv',
           mailed \subseteq mailed',
           \A a \in Aggregate : attemptCount'[a] >= attemptCount[a]
    PROVE  \A a \in Aggregate : /\ Mailed(a) => Mailed(a)'
                                /\ GivenUp(a) => GivenUp(a)'
<1>1. \A a \in Aggregate : Mailed(a) => Mailed(a)'
  BY DEF Mailed, Copies, TypeInv, LogTypes
<1>2. \A a \in Aggregate : GivenUp(a) => GivenUp(a)'
  BY NotificationAssumption DEF GivenUp, TypeInv, RowTypes
<1> QED
  BY <1>1, <1>2

\* Whatever is true of a row stays true.
LEMMA RowsGrow ==
    ASSUME TypeInv, TypeInv', [Next]_vars
    PROVE  \A a \in Aggregate : /\ Mailed(a) => Mailed(a)'
                                /\ GivenUp(a) => GivenUp(a)'
                                /\ Decided(a) => Decided(a)'
<1> DEFINE Grow == \A a \in Aggregate : /\ Mailed(a) => Mailed(a)'
                                        /\ GivenUp(a) => GivenUp(a)'
                                        /\ Decided(a) => Decided(a)'
<1> USE NotificationAssumption
<1>1. ASSUME NEW w \in Worker, Take(w)
      PROVE  Grow
  <2>1. mailed \subseteq mailed'
    BY <1>1 DEF Take, rowVars, brokerVars, historyVars, TypeInv, RowTypes,
       WorkerTypes, LogTypes
  <2>2. \A a \in Aggregate : attemptCount'[a] >= attemptCount[a]
    BY <1>1 DEF Take, rowVars, brokerVars, historyVars, TypeInv, RowTypes,
       WorkerTypes, LogTypes
  <2>3. \A a \in Aggregate : Decided(a) => Decided(a)'
    BY <1>1 DEF Take, rowVars, brokerVars, historyVars, TypeInv, RowTypes,
       WorkerTypes, LogTypes, Decided
  <2> QED
    BY <2>1, <2>2, <2>3, GrowingHistories
<1>2. ASSUME NEW w \in Worker, RoutePoisonMessage(w)
      PROVE  Grow
  <2>1. mailed \subseteq mailed'
    BY <1>2 DEF RoutePoisonMessage, Publish, Proceed, Goto, Row, rowVars,
       brokerVars, historyVars, TypeInv, RowTypes, WorkerTypes, LogTypes
  <2>2. \A a \in Aggregate : attemptCount'[a] >= attemptCount[a]
    BY <1>2 DEF RoutePoisonMessage, Publish, Proceed, Goto, Row, rowVars,
       brokerVars, historyVars, TypeInv, RowTypes, WorkerTypes, LogTypes
  <2>3. \A a \in Aggregate : Decided(a) => Decided(a)'
    BY <1>2 DEF RoutePoisonMessage, Publish, Proceed, Goto, Row, rowVars,
       brokerVars, historyVars, TypeInv, RowTypes, WorkerTypes, LogTypes,
       Decided
  <2> QED
    BY <2>1, <2>2, <2>3, GrowingHistories
<1>3. ASSUME NEW w \in Worker, Claim(w)
      PROVE  Grow
  <2>1. mailed \subseteq mailed'
    BY <1>3 DEF Claim, Proceed, Goto, Row, rowVars, brokerVars, historyVars,
       TypeInv, RowTypes, WorkerTypes, LogTypes
  <2>2. \A a \in Aggregate : attemptCount'[a] >= attemptCount[a]
    BY <1>3 DEF Claim, Proceed, Goto, Row, rowVars, brokerVars, historyVars,
       TypeInv, RowTypes, WorkerTypes, LogTypes
  <2>3. \A a \in Aggregate : Decided(a) => Decided(a)'
    BY <1>3 DEF Claim, Proceed, Goto, Row, rowVars, brokerVars, historyVars,
       TypeInv, RowTypes, WorkerTypes, LogTypes, Decided
  <2> QED
    BY <2>1, <2>2, <2>3, GrowingHistories
<1>4. ASSUME NEW w \in Worker, Lookup(w)
      PROVE  Grow
  <2>1. mailed \subseteq mailed'
    BY <1>4 DEF Lookup, Proceed, Goto, Reclaimable, Terminal, Row, rowVars,
       brokerVars, historyVars, TypeInv, RowTypes, WorkerTypes, LogTypes
  <2>2. \A a \in Aggregate : attemptCount'[a] >= attemptCount[a]
    BY <1>4 DEF Lookup, Proceed, Goto, Reclaimable, Terminal, Row, rowVars,
       brokerVars, historyVars, TypeInv, RowTypes, WorkerTypes, LogTypes
  <2>3. \A a \in Aggregate : Decided(a) => Decided(a)'
    BY <1>4 DEF Lookup, Proceed, Goto, Reclaimable, Terminal, Row, rowVars,
       brokerVars, historyVars, TypeInv, RowTypes, WorkerTypes, LogTypes,
       Decided
  <2> QED
    BY <2>1, <2>2, <2>3, GrowingHistories
<1>5. ASSUME NEW w \in Worker, ClaimFails(w)
      PROVE  Grow
  <2>1. mailed \subseteq mailed'
    BY <1>5 DEF ClaimFails, Leave, Row, rowVars, brokerVars, historyVars,
       TypeInv, RowTypes, WorkerTypes, LogTypes
  <2>2. \A a \in Aggregate : attemptCount'[a] >= attemptCount[a]
    BY <1>5 DEF ClaimFails, Leave, Row, rowVars, brokerVars, historyVars,
       TypeInv, RowTypes, WorkerTypes, LogTypes
  <2>3. \A a \in Aggregate : Decided(a) => Decided(a)'
    BY <1>5 DEF ClaimFails, Leave, Row, rowVars, brokerVars, historyVars,
       TypeInv, RowTypes, WorkerTypes, LogTypes, Decided
  <2> QED
    BY <2>1, <2>2, <2>3, GrowingHistories
<1>6. ASSUME NEW w \in Worker, Admit(w)
      PROVE  Grow
  <2>1. mailed \subseteq mailed'
    BY <1>6 DEF Admit, Proceed, Goto, Row, rowVars, brokerVars, historyVars,
       TypeInv, RowTypes, WorkerTypes, LogTypes
  <2>2. \A a \in Aggregate : attemptCount'[a] >= attemptCount[a]
    BY <1>6 DEF Admit, Proceed, Goto, Row, rowVars, brokerVars, historyVars,
       TypeInv, RowTypes, WorkerTypes, LogTypes
  <2>3. \A a \in Aggregate : Decided(a) => Decided(a)'
    BY <1>6 DEF Admit, Proceed, Goto, Row, rowVars, brokerVars, historyVars,
       TypeInv, RowTypes, WorkerTypes, LogTypes, Decided
  <2> QED
    BY <2>1, <2>2, <2>3, GrowingHistories
<1>7. ASSUME NEW w \in Worker, RateLimited(w)
      PROVE  Grow
  <2>1. mailed \subseteq mailed'
    BY <1>7 DEF RateLimited, Proceed, Goto, Row, rowVars, brokerVars,
       historyVars, TypeInv, RowTypes, WorkerTypes, LogTypes
  <2>2. \A a \in Aggregate : attemptCount'[a] >= attemptCount[a]
    BY <1>7 DEF RateLimited, Proceed, Goto, Row, rowVars, brokerVars,
       historyVars, TypeInv, RowTypes, WorkerTypes, LogTypes
  <2>3. \A a \in Aggregate : Decided(a) => Decided(a)'
    BY <1>7 DEF RateLimited, Proceed, Goto, Row, rowVars, brokerVars,
       historyVars, TypeInv, RowTypes, WorkerTypes, LogTypes, Decided
  <2> QED
    BY <2>1, <2>2, <2>3, GrowingHistories
<1>8. ASSUME NEW w \in Worker, Refused(w)
      PROVE  Grow
  <2>1. mailed \subseteq mailed'
    BY <1>8 DEF Refused, Throw, Leave, Row, rowVars, brokerVars,
       historyVars, TypeInv, RowTypes, WorkerTypes, LogTypes
  <2>2. \A a \in Aggregate : attemptCount'[a] >= attemptCount[a]
    BY <1>8 DEF Refused, Throw, Leave, Row, rowVars, brokerVars,
       historyVars, TypeInv, RowTypes, WorkerTypes, LogTypes
  <2>3. \A a \in Aggregate : Decided(a) => Decided(a)'
    BY <1>8 DEF Refused, Throw, Leave, Row, rowVars, brokerVars,
       historyVars, TypeInv, RowTypes, WorkerTypes, LogTypes, Decided
  <2> QED
    BY <2>1, <2>2, <2>3, GrowingHistories
<1>9. ASSUME NEW w \in Worker, SendOk(w)
      PROVE  Grow
  <2>1. mailed \subseteq mailed'
    BY <1>9 DEF SendOk, Accepted, Proceed, Goto, Row, rowVars, brokerVars,
       historyVars, TypeInv, RowTypes, WorkerTypes, LogTypes
  <2>2. \A a \in Aggregate : attemptCount'[a] >= attemptCount[a]
    BY <1>9 DEF SendOk, Accepted, Proceed, Goto, Row, rowVars, brokerVars,
       historyVars, TypeInv, RowTypes, WorkerTypes, LogTypes
  <2>3. \A a \in Aggregate : Decided(a) => Decided(a)'
    BY <1>9 DEF SendOk, Accepted, Proceed, Goto, Row, rowVars, brokerVars,
       historyVars, TypeInv, RowTypes, WorkerTypes, LogTypes, Decided
  <2> QED
    BY <2>1, <2>2, <2>3, GrowingHistories
<1>10. ASSUME NEW w \in Worker, SendRetryable(w)
      PROVE  Grow
  <2>1. mailed \subseteq mailed'
    BY <1>10 DEF SendRetryable, Accepted, Goto, Throw, Leave, Row, rowVars,
       brokerVars, historyVars, TypeInv, RowTypes, WorkerTypes, LogTypes
  <2>2. \A a \in Aggregate : attemptCount'[a] >= attemptCount[a]
    BY <1>10 DEF SendRetryable, Accepted, Goto, Throw, Leave, Row, rowVars,
       brokerVars, historyVars, TypeInv, RowTypes, WorkerTypes, LogTypes
  <2>3. \A a \in Aggregate : Decided(a) => Decided(a)'
    BY <1>10 DEF SendRetryable, Accepted, Goto, Throw, Leave, Row, rowVars,
       brokerVars, historyVars, TypeInv, RowTypes, WorkerTypes, LogTypes,
       Decided
  <2> QED
    BY <2>1, <2>2, <2>3, GrowingHistories
<1>11. ASSUME NEW w \in Worker, SendPermanent(w)
      PROVE  Grow
  <2>1. mailed \subseteq mailed'
    BY <1>11 DEF SendPermanent, Throw, Leave, Row, rowVars, brokerVars,
       historyVars, TypeInv, RowTypes, WorkerTypes, LogTypes
  <2>2. \A a \in Aggregate : attemptCount'[a] >= attemptCount[a]
    BY <1>11 DEF SendPermanent, Throw, Leave, Row, rowVars, brokerVars,
       historyVars, TypeInv, RowTypes, WorkerTypes, LogTypes
  <2>3. \A a \in Aggregate : Decided(a) => Decided(a)'
    BY <1>11 DEF SendPermanent, Throw, Leave, Row, rowVars, brokerVars,
       historyVars, TypeInv, RowTypes, WorkerTypes, LogTypes, Decided
  <2> QED
    BY <2>1, <2>2, <2>3, GrowingHistories
<1>12. ASSUME NEW w \in Worker, MarkAsSent(w)
      PROVE  Grow
  <2>1. mailed \subseteq mailed'
    BY <1>12 DEF MarkAsSent, SetStatus, Proceed, Goto, Row, rowVars,
       brokerVars, historyVars, TypeInv, RowTypes, WorkerTypes, LogTypes
  <2>2. \A a \in Aggregate : attemptCount'[a] >= attemptCount[a]
    BY <1>12 DEF MarkAsSent, SetStatus, Proceed, Goto, Row, rowVars,
       brokerVars, historyVars, TypeInv, RowTypes, WorkerTypes, LogTypes
  <2>3. \A a \in Aggregate : Decided(a) => Decided(a)'
    BY <1>12 DEF MarkAsSent, SetStatus, Proceed, Goto, Row, rowVars,
       brokerVars, historyVars, TypeInv, RowTypes, WorkerTypes, LogTypes,
       Decided
  <2> QED
    BY <2>1, <2>2, <2>3, GrowingHistories
<1>13. ASSUME NEW w \in Worker, MarkAsSentFails(w)
      PROVE  Grow
  <2>1. mailed \subseteq mailed'
    BY <1>13 DEF MarkAsSentFails, SetStatus, Throw, Leave, Row, rowVars,
       brokerVars, historyVars, TypeInv, RowTypes, WorkerTypes, LogTypes
  <2>2. \A a \in Aggregate : attemptCount'[a] >= attemptCount[a]
    BY <1>13 DEF MarkAsSentFails, SetStatus, Throw, Leave, Row, rowVars,
       brokerVars, historyVars, TypeInv, RowTypes, WorkerTypes, LogTypes
  <2>3. \A a \in Aggregate : Decided(a) => Decided(a)'
    BY <1>13 DEF MarkAsSentFails, SetStatus, Throw, Leave, Row, rowVars,
       brokerVars, historyVars, TypeInv, RowTypes, WorkerTypes, LogTypes,
       Decided
  <2> QED
    BY <2>1, <2>2, <2>3, GrowingHistories
<1>14. ASSUME NEW w \in Worker, MarkAsFailed(w)
      PROVE  Grow
  <2>1. mailed \subseteq mailed'
    BY <1>14 DEF MarkAsFailed, CountFailure, SetStatus, Exhausted, Proceed,
       Goto, Row, rowVars, brokerVars, historyVars, TypeInv, RowTypes,
       WorkerTypes, LogTypes
  <2>2. \A a \in Aggregate : attemptCount'[a] >= attemptCount[a]
    BY <1>14 DEF MarkAsFailed, CountFailure, SetStatus, Exhausted, Proceed,
       Goto, Row, rowVars, brokerVars, historyVars, TypeInv, RowTypes,
       WorkerTypes, LogTypes
  <2>3. \A a \in Aggregate : Decided(a) => Decided(a)'
    BY <1>14 DEF MarkAsFailed, CountFailure, SetStatus, Exhausted, Proceed,
       Goto, Row, rowVars, brokerVars, historyVars, TypeInv, RowTypes,
       WorkerTypes, LogTypes, Decided
  <2> QED
    BY <2>1, <2>2, <2>3, GrowingHistories
<1>15. ASSUME NEW w \in Worker, MarkAsFailedFails(w)
      PROVE  Grow
  <2>1. mailed \subseteq mailed'
    BY <1>15 DEF MarkAsFailedFails, CountFailure, SetStatus, Throw, Leave,
       Row, rowVars, brokerVars, historyVars, TypeInv, RowTypes,
       WorkerTypes, LogTypes
  <2>2. \A a \in Aggregate : attemptCount'[a] >= attemptCount[a]
    BY <1>15 DEF MarkAsFailedFails, CountFailure, SetStatus, Throw, Leave,
       Row, rowVars, brokerVars, historyVars, TypeInv, RowTypes,
       WorkerTypes, LogTypes
  <2>3. \A a \in Aggregate : Decided(a) => Decided(a)'
    BY <1>15 DEF MarkAsFailedFails, CountFailure, SetStatus, Throw, Leave,
       Row, rowVars, brokerVars, historyVars, TypeInv, RowTypes,
       WorkerTypes, LogTypes, Decided
  <2> QED
    BY <2>1, <2>2, <2>3, GrowingHistories
<1>16. ASSUME NEW w \in Worker, RouteToDlq(w)
      PROVE  Grow
  <2>1. mailed \subseteq mailed'
    BY <1>16 DEF RouteToDlq, SetStatus, Proceed, Goto, Row, rowVars,
       brokerVars, historyVars, TypeInv, RowTypes, WorkerTypes, LogTypes
  <2>2. \A a \in Aggregate : attemptCount'[a] >= attemptCount[a]
    BY <1>16 DEF RouteToDlq, SetStatus, Proceed, Goto, Row, rowVars,
       brokerVars, historyVars, TypeInv, RowTypes, WorkerTypes, LogTypes
  <2>3. \A a \in Aggregate : Decided(a) => Decided(a)'
    BY <1>16 DEF RouteToDlq, SetStatus, Proceed, Goto, Row, rowVars,
       brokerVars, historyVars, TypeInv, RowTypes, WorkerTypes, LogTypes,
       Decided
  <2> QED
    BY <2>1, <2>2, <2>3, GrowingHistories
<1>17. ASSUME NEW w \in Worker, RouteToDlqFails(w)
      PROVE  Grow
  <2>1. mailed \subseteq mailed'
    BY <1>17 DEF RouteToDlqFails, SetStatus, Throw, Leave, Row, rowVars,
       brokerVars, historyVars, TypeInv, RowTypes, WorkerTypes, LogTypes
  <2>2. \A a \in Aggregate : attemptCount'[a] >= attemptCount[a]
    BY <1>17 DEF RouteToDlqFails, SetStatus, Throw, Leave, Row, rowVars,
       brokerVars, historyVars, TypeInv, RowTypes, WorkerTypes, LogTypes
  <2>3. \A a \in Aggregate : Decided(a) => Decided(a)'
    BY <1>17 DEF RouteToDlqFails, SetStatus, Throw, Leave, Row, rowVars,
       brokerVars, historyVars, TypeInv, RowTypes, WorkerTypes, LogTypes,
       Decided
  <2> QED
    BY <2>1, <2>2, <2>3, GrowingHistories
<1>18. ASSUME NEW w \in Worker, PublishDeadLetter(w)
      PROVE  Grow
  <2>1. mailed \subseteq mailed'
    BY <1>18 DEF PublishDeadLetter, Publish, Proceed, Goto, Row, rowVars,
       brokerVars, historyVars, TypeInv, RowTypes, WorkerTypes, LogTypes
  <2>2. \A a \in Aggregate : attemptCount'[a] >= attemptCount[a]
    BY <1>18 DEF PublishDeadLetter, Publish, Proceed, Goto, Row, rowVars,
       brokerVars, historyVars, TypeInv, RowTypes, WorkerTypes, LogTypes
  <2>3. \A a \in Aggregate : Decided(a) => Decided(a)'
    BY <1>18 DEF PublishDeadLetter, Publish, Proceed, Goto, Row, rowVars,
       brokerVars, historyVars, TypeInv, RowTypes, WorkerTypes, LogTypes,
       Decided
  <2> QED
    BY <2>1, <2>2, <2>3, GrowingHistories
<1>19. ASSUME NEW w \in Worker, Commit(w)
      PROVE  Grow
  <2>1. mailed \subseteq mailed'
    BY <1>19 DEF Commit, Leave, rowVars, brokerVars, historyVars, TypeInv,
       RowTypes, WorkerTypes, LogTypes
  <2>2. \A a \in Aggregate : attemptCount'[a] >= attemptCount[a]
    BY <1>19 DEF Commit, Leave, rowVars, brokerVars, historyVars, TypeInv,
       RowTypes, WorkerTypes, LogTypes
  <2>3. \A a \in Aggregate : Decided(a) => Decided(a)'
    BY <1>19 DEF Commit, Leave, rowVars, brokerVars, historyVars, TypeInv,
       RowTypes, WorkerTypes, LogTypes, Decided
  <2> QED
    BY <2>1, <2>2, <2>3, GrowingHistories
<1>20. ASSUME NEW w \in Worker, Crash(w)
      PROVE  Grow
  <2>1. mailed \subseteq mailed'
    BY <1>20 DEF Crash, Leave, rowVars, brokerVars, historyVars, TypeInv,
       RowTypes, WorkerTypes, LogTypes
  <2>2. \A a \in Aggregate : attemptCount'[a] >= attemptCount[a]
    BY <1>20 DEF Crash, Leave, rowVars, brokerVars, historyVars, TypeInv,
       RowTypes, WorkerTypes, LogTypes
  <2>3. \A a \in Aggregate : Decided(a) => Decided(a)'
    BY <1>20 DEF Crash, Leave, rowVars, brokerVars, historyVars, TypeInv,
       RowTypes, WorkerTypes, LogTypes, Decided
  <2> QED
    BY <2>1, <2>2, <2>3, GrowingHistories
<1>21. CASE UNCHANGED vars
  BY <1>21 DEF vars, Mailed, GivenUp, Decided, Copies
<1>22. ASSUME CalmDown
      PROVE  Grow
  BY <1>22 DEF CalmDown, rowVars, workerVars, historyVars, Mailed, Copies,
     GivenUp, Decided
<1> QED
  BY <1>1, <1>2, <1>3, <1>4, <1>5, <1>6, <1>7, <1>8, <1>9, <1>10, <1>11,
     <1>12, <1>13, <1>14, <1>15, <1>16, <1>17, <1>18, <1>19, <1>20, <1>21,
     <1>22
     DEF Next, Handle

\* A worker leaves alone what the others rely on.
LEMMA OthersKeep ==
    ASSUME TypeInv, HandledInv, NEW w \in Worker,
           \A a \in Aggregate : /\ Mailed(a) => Mailed(a)'
                                /\ GivenUp(a) => GivenUp(a)'
                                /\ Decided(a) => Decided(a)',
           \A v \in Worker : v # w => pc'[v] = pc[v] /\ msg'[v] = msg[v],
           WorkerOK(w)'
    PROVE  \A v \in Worker : WorkerOK(v)'
<1> SUFFICES ASSUME NEW v \in Worker, v # w PROVE WorkerOK(v)'
  OBVIOUS
<1>1. WorkerOK(v) /\ pc'[v] = pc[v] /\ msg'[v] = msg[v]
  BY DEF HandledInv
<1>2. pc[v] # "idle" => Row(v) \in Aggregate /\ Row(v)' = Row(v)
  BY <1>1, NotificationAssumption DEF TypeInv, WorkerTypes, Row
<1> QED
  BY <1>1, <1>2 DEF WorkerOK

\* Every step keeps what the rows tell.
LEMMA HandledNext ==
    ASSUME TypeInv, TypeInv', HandledInv, [Next]_vars
    PROVE  HandledInv'
<1> USE NotificationAssumption
<1>g. \A a \in Aggregate : /\ Mailed(a) => Mailed(a)'
                           /\ GivenUp(a) => GivenUp(a)'
                           /\ Decided(a) => Decided(a)'
  BY RowsGrow
<1>1. ASSUME NEW w \in Worker, Take(w)
      PROVE  HandledInv'
  <2>1. \A a \in Aggregate : RowOK(a)'
    BY <1>g, <1>1 DEF Take, rowVars, brokerVars, historyVars, TypeInv,
       RowTypes, WorkerTypes, HandledInv, RowOK, WorkerOK
  <2>2. WorkerOK(w)'
    BY <1>g, <1>1 DEF Take, rowVars, brokerVars, historyVars, TypeInv,
       RowTypes, WorkerTypes, HandledInv, WorkerOK
  <2>3. \A v \in Worker : v # w => pc'[v] = pc[v] /\ msg'[v] = msg[v]
    BY <1>1 DEF Take, rowVars, brokerVars, historyVars, TypeInv, RowTypes,
       WorkerTypes
  <2>4. LogOK'
    BY <1>g, <1>1 DEF Take, rowVars, brokerVars, historyVars, TypeInv,
       RowTypes, WorkerTypes, LogTypes, HandledInv, LogOK, RowOK, WorkerOK
  <2> QED
    BY <1>g, <2>1, <2>2, <2>3, <2>4, OthersKeep DEF HandledInv
<1>2. ASSUME NEW w \in Worker, RoutePoisonMessage(w)
      PROVE  HandledInv'
  <2>1. \A a \in Aggregate : RowOK(a)'
    BY <1>g, <1>2 DEF RoutePoisonMessage, Publish, Proceed, Goto, Row,
       rowVars, brokerVars, historyVars, TypeInv, RowTypes, WorkerTypes,
       HandledInv, RowOK, WorkerOK
  <2>2. WorkerOK(w)'
    BY <1>g, <1>2 DEF RoutePoisonMessage, Publish, Proceed, Goto, Row,
       rowVars, brokerVars, historyVars, TypeInv, RowTypes, WorkerTypes,
       HandledInv, WorkerOK
  <2>3. \A v \in Worker : v # w => pc'[v] = pc[v] /\ msg'[v] = msg[v]
    BY <1>2 DEF RoutePoisonMessage, Publish, Proceed, Goto, Row, rowVars,
       brokerVars, historyVars, TypeInv, RowTypes, WorkerTypes
  <2>4. LogOK'
    BY <1>g, <1>2 DEF RoutePoisonMessage, Publish, Proceed, Goto, Row,
       rowVars, brokerVars, historyVars, TypeInv, RowTypes, WorkerTypes,
       LogTypes, HandledInv, LogOK, RowOK, WorkerOK
  <2> QED
    BY <1>g, <2>1, <2>2, <2>3, <2>4, OthersKeep DEF HandledInv
<1>3. ASSUME NEW w \in Worker, Claim(w)
      PROVE  HandledInv'
  <2>1. \A a \in Aggregate : RowOK(a)'
    BY <1>g, <1>3 DEF Claim, Proceed, Goto, Row, rowVars, brokerVars,
       historyVars, TypeInv, RowTypes, WorkerTypes, HandledInv, RowOK,
       WorkerOK
  <2>2. WorkerOK(w)'
    BY <1>g, <1>3 DEF Claim, Proceed, Goto, Row, rowVars, brokerVars,
       historyVars, TypeInv, RowTypes, WorkerTypes, HandledInv, WorkerOK
  <2>3. \A v \in Worker : v # w => pc'[v] = pc[v] /\ msg'[v] = msg[v]
    BY <1>3 DEF Claim, Proceed, Goto, Row, rowVars, brokerVars, historyVars,
       TypeInv, RowTypes, WorkerTypes
  <2>4. LogOK'
    BY <1>g, <1>3 DEF Claim, Proceed, Goto, Row, rowVars, brokerVars,
       historyVars, TypeInv, RowTypes, WorkerTypes, LogTypes, HandledInv,
       LogOK, RowOK, WorkerOK
  <2> QED
    BY <1>g, <2>1, <2>2, <2>3, <2>4, OthersKeep DEF HandledInv
<1>4. ASSUME NEW w \in Worker, Lookup(w)
      PROVE  HandledInv'
  <2>1. \A a \in Aggregate : RowOK(a)'
    BY <1>g, <1>4 DEF Lookup, Proceed, Goto, Reclaimable, Terminal, Row,
       rowVars, brokerVars, historyVars, TypeInv, RowTypes, WorkerTypes,
       HandledInv, RowOK, WorkerOK
  <2>2. WorkerOK(w)'
    <3>1. Row(w) \in Aggregate /\ Row(w)' = Row(w) /\ UNCHANGED msg
      BY <1>4 DEF Lookup, Proceed, Goto, Row, TypeInv, WorkerTypes
    <3>2. status[Row(w)] \in Terminal => Decided(Row(w))'
      BY <1>4 DEF Lookup, Decided, Terminal, rowVars, Row, Proceed, Goto
    <3> QED
      BY <1>4, <3>1, <3>2 DEF Lookup, Proceed, Goto, Reclaimable, WorkerOK, TypeInv,
         WorkerTypes
  <2>3. \A v \in Worker : v # w => pc'[v] = pc[v] /\ msg'[v] = msg[v]
    BY <1>4 DEF Lookup, Proceed, Goto, Reclaimable, Terminal, Row, rowVars,
       brokerVars, historyVars, TypeInv, RowTypes, WorkerTypes
  <2>4. LogOK'
    BY <1>g, <1>4 DEF Lookup, Proceed, Goto, Reclaimable, Terminal, Row,
       rowVars, brokerVars, historyVars, TypeInv, RowTypes, WorkerTypes,
       LogTypes, HandledInv, LogOK, RowOK, WorkerOK
  <2> QED
    BY <1>g, <2>1, <2>2, <2>3, <2>4, OthersKeep DEF HandledInv
<1>5. ASSUME NEW w \in Worker, ClaimFails(w)
      PROVE  HandledInv'
  <2>1. \A a \in Aggregate : RowOK(a)'
    BY <1>g, <1>5 DEF ClaimFails, Leave, Row, rowVars, brokerVars,
       historyVars, TypeInv, RowTypes, WorkerTypes, HandledInv, RowOK,
       WorkerOK
  <2>2. WorkerOK(w)'
    BY <1>g, <1>5 DEF ClaimFails, Leave, Row, rowVars, brokerVars,
       historyVars, TypeInv, RowTypes, WorkerTypes, HandledInv, WorkerOK
  <2>3. \A v \in Worker : v # w => pc'[v] = pc[v] /\ msg'[v] = msg[v]
    BY <1>5 DEF ClaimFails, Leave, Row, rowVars, brokerVars, historyVars,
       TypeInv, RowTypes, WorkerTypes
  <2>4. LogOK'
    BY <1>g, <1>5 DEF ClaimFails, Leave, Row, rowVars, brokerVars,
       historyVars, TypeInv, RowTypes, WorkerTypes, LogTypes, HandledInv,
       LogOK, RowOK, WorkerOK
  <2> QED
    BY <1>g, <2>1, <2>2, <2>3, <2>4, OthersKeep DEF HandledInv
<1>6. ASSUME NEW w \in Worker, Admit(w)
      PROVE  HandledInv'
  <2>1. \A a \in Aggregate : RowOK(a)'
    BY <1>g, <1>6 DEF Admit, Proceed, Goto, Row, rowVars, brokerVars,
       historyVars, TypeInv, RowTypes, WorkerTypes, HandledInv, RowOK,
       WorkerOK
  <2>2. WorkerOK(w)'
    BY <1>g, <1>6 DEF Admit, Proceed, Goto, Row, rowVars, brokerVars,
       historyVars, TypeInv, RowTypes, WorkerTypes, HandledInv, WorkerOK
  <2>3. \A v \in Worker : v # w => pc'[v] = pc[v] /\ msg'[v] = msg[v]
    BY <1>6 DEF Admit, Proceed, Goto, Row, rowVars, brokerVars, historyVars,
       TypeInv, RowTypes, WorkerTypes
  <2>4. LogOK'
    BY <1>g, <1>6 DEF Admit, Proceed, Goto, Row, rowVars, brokerVars,
       historyVars, TypeInv, RowTypes, WorkerTypes, LogTypes, HandledInv,
       LogOK, RowOK, WorkerOK
  <2> QED
    BY <1>g, <2>1, <2>2, <2>3, <2>4, OthersKeep DEF HandledInv
<1>7. ASSUME NEW w \in Worker, RateLimited(w)
      PROVE  HandledInv'
  <2>1. \A a \in Aggregate : RowOK(a)'
    BY <1>g, <1>7 DEF RateLimited, Proceed, Goto, Row, rowVars, brokerVars,
       historyVars, TypeInv, RowTypes, WorkerTypes, HandledInv, RowOK,
       WorkerOK
  <2>2. WorkerOK(w)'
    BY <1>g, <1>7 DEF RateLimited, Proceed, Goto, Row, rowVars, brokerVars,
       historyVars, TypeInv, RowTypes, WorkerTypes, HandledInv, WorkerOK
  <2>3. \A v \in Worker : v # w => pc'[v] = pc[v] /\ msg'[v] = msg[v]
    BY <1>7 DEF RateLimited, Proceed, Goto, Row, rowVars, brokerVars,
       historyVars, TypeInv, RowTypes, WorkerTypes
  <2>4. LogOK'
    BY <1>g, <1>7 DEF RateLimited, Proceed, Goto, Row, rowVars, brokerVars,
       historyVars, TypeInv, RowTypes, WorkerTypes, LogTypes, HandledInv,
       LogOK, RowOK, WorkerOK
  <2> QED
    BY <1>g, <2>1, <2>2, <2>3, <2>4, OthersKeep DEF HandledInv
<1>8. ASSUME NEW w \in Worker, Refused(w)
      PROVE  HandledInv'
  <2>1. \A a \in Aggregate : RowOK(a)'
    BY <1>g, <1>8 DEF Refused, Throw, Leave, Row, rowVars, brokerVars,
       historyVars, TypeInv, RowTypes, WorkerTypes, HandledInv, RowOK,
       WorkerOK
  <2>2. WorkerOK(w)'
    BY <1>g, <1>8 DEF Refused, Throw, Leave, Row, rowVars, brokerVars,
       historyVars, TypeInv, RowTypes, WorkerTypes, HandledInv, WorkerOK
  <2>3. \A v \in Worker : v # w => pc'[v] = pc[v] /\ msg'[v] = msg[v]
    BY <1>8 DEF Refused, Throw, Leave, Row, rowVars, brokerVars,
       historyVars, TypeInv, RowTypes, WorkerTypes
  <2>4. LogOK'
    BY <1>g, <1>8 DEF Refused, Throw, Leave, Row, rowVars, brokerVars,
       historyVars, TypeInv, RowTypes, WorkerTypes, LogTypes, HandledInv,
       LogOK, RowOK, WorkerOK
  <2> QED
    BY <1>g, <2>1, <2>2, <2>3, <2>4, OthersKeep DEF HandledInv
<1>9. ASSUME NEW w \in Worker, SendOk(w)
      PROVE  HandledInv'
  <2>1. \A a \in Aggregate : RowOK(a)'
    BY <1>g, <1>9 DEF SendOk, Accepted, Proceed, Goto, Row, rowVars,
       brokerVars, historyVars, TypeInv, RowTypes, WorkerTypes, HandledInv,
       RowOK, WorkerOK
  <2>2. WorkerOK(w)'
    <3>1. Row(w) \in Aggregate /\ Row(w)' = Row(w) /\ UNCHANGED msg
      BY <1>9 DEF SendOk, Proceed, Goto, Row, TypeInv, WorkerTypes
    <3>2. msg[w] \in Copies(Row(w)) \cap mailed'
      BY <1>9 DEF SendOk, Accepted, Copies, Row, TypeInv, WorkerTypes, LogTypes
    <3>3. Mailed(Row(w))'
      BY <3>1, <3>2 DEF Mailed, Copies
    <3> QED
      BY <1>9, <3>1, <3>3 DEF SendOk, Proceed, Goto, WorkerOK, TypeInv, WorkerTypes
  <2>3. \A v \in Worker : v # w => pc'[v] = pc[v] /\ msg'[v] = msg[v]
    BY <1>9 DEF SendOk, Accepted, Proceed, Goto, Row, rowVars, brokerVars,
       historyVars, TypeInv, RowTypes, WorkerTypes
  <2>4. LogOK'
    BY <1>g, <1>9 DEF SendOk, Accepted, Proceed, Goto, Row, rowVars,
       brokerVars, historyVars, TypeInv, RowTypes, WorkerTypes, LogTypes,
       HandledInv, LogOK, RowOK, WorkerOK
  <2> QED
    BY <1>g, <2>1, <2>2, <2>3, <2>4, OthersKeep DEF HandledInv
<1>10. ASSUME NEW w \in Worker, SendRetryable(w)
      PROVE  HandledInv'
  <2>1. \A a \in Aggregate : RowOK(a)'
    BY <1>g, <1>10 DEF SendRetryable, Accepted, Goto, Throw, Leave, Row,
       rowVars, brokerVars, historyVars, TypeInv, RowTypes, WorkerTypes,
       HandledInv, RowOK, WorkerOK
  <2>2. WorkerOK(w)'
    BY <1>g, <1>10 DEF SendRetryable, Accepted, Goto, Throw, Leave, Row,
       rowVars, brokerVars, historyVars, TypeInv, RowTypes, WorkerTypes,
       HandledInv, WorkerOK
  <2>3. \A v \in Worker : v # w => pc'[v] = pc[v] /\ msg'[v] = msg[v]
    BY <1>10 DEF SendRetryable, Accepted, Goto, Throw, Leave, Row, rowVars,
       brokerVars, historyVars, TypeInv, RowTypes, WorkerTypes
  <2>4. LogOK'
    BY <1>g, <1>10 DEF SendRetryable, Accepted, Goto, Throw, Leave, Row,
       rowVars, brokerVars, historyVars, TypeInv, RowTypes, WorkerTypes,
       LogTypes, HandledInv, LogOK, RowOK, WorkerOK
  <2> QED
    BY <1>g, <2>1, <2>2, <2>3, <2>4, OthersKeep DEF HandledInv
<1>11. ASSUME NEW w \in Worker, SendPermanent(w)
      PROVE  HandledInv'
  <2>1. \A a \in Aggregate : RowOK(a)'
    BY <1>g, <1>11 DEF SendPermanent, Throw, Leave, Row, rowVars,
       brokerVars, historyVars, TypeInv, RowTypes, WorkerTypes, HandledInv,
       RowOK, WorkerOK
  <2>2. WorkerOK(w)'
    BY <1>g, <1>11 DEF SendPermanent, Throw, Leave, Row, rowVars,
       brokerVars, historyVars, TypeInv, RowTypes, WorkerTypes, HandledInv,
       WorkerOK
  <2>3. \A v \in Worker : v # w => pc'[v] = pc[v] /\ msg'[v] = msg[v]
    BY <1>11 DEF SendPermanent, Throw, Leave, Row, rowVars, brokerVars,
       historyVars, TypeInv, RowTypes, WorkerTypes
  <2>4. LogOK'
    BY <1>g, <1>11 DEF SendPermanent, Throw, Leave, Row, rowVars,
       brokerVars, historyVars, TypeInv, RowTypes, WorkerTypes, LogTypes,
       HandledInv, LogOK, RowOK, WorkerOK
  <2> QED
    BY <1>g, <2>1, <2>2, <2>3, <2>4, OthersKeep DEF HandledInv
<1>12. ASSUME NEW w \in Worker, MarkAsSent(w)
      PROVE  HandledInv'
  <2>1. \A a \in Aggregate : RowOK(a)'
    BY <1>g, <1>12 DEF MarkAsSent, SetStatus, Proceed, Goto, Row, rowVars,
       brokerVars, historyVars, TypeInv, RowTypes, WorkerTypes, HandledInv,
       RowOK, WorkerOK
  <2>2. WorkerOK(w)'
    <3>1. Row(w) \in Aggregate /\ Row(w)' = Row(w) /\ UNCHANGED msg
      BY <1>12 DEF MarkAsSent, Proceed, Goto, Row, TypeInv, WorkerTypes
    <3>2. Decided(Row(w))'
      BY <1>12, <3>1 DEF MarkAsSent, SetStatus, Decided, TypeInv, RowTypes
    <3> QED
      BY <1>12, <3>1, <3>2 DEF MarkAsSent, Proceed, Goto, WorkerOK, TypeInv, WorkerTypes
  <2>3. \A v \in Worker : v # w => pc'[v] = pc[v] /\ msg'[v] = msg[v]
    BY <1>12 DEF MarkAsSent, SetStatus, Proceed, Goto, Row, rowVars,
       brokerVars, historyVars, TypeInv, RowTypes, WorkerTypes
  <2>4. LogOK'
    BY <1>g, <1>12 DEF MarkAsSent, SetStatus, Proceed, Goto, Row, rowVars,
       brokerVars, historyVars, TypeInv, RowTypes, WorkerTypes, LogTypes,
       HandledInv, LogOK, RowOK, WorkerOK
  <2> QED
    BY <1>g, <2>1, <2>2, <2>3, <2>4, OthersKeep DEF HandledInv
<1>13. ASSUME NEW w \in Worker, MarkAsSentFails(w)
      PROVE  HandledInv'
  <2>1. \A a \in Aggregate : RowOK(a)'
    BY <1>g, <1>13 DEF MarkAsSentFails, SetStatus, Throw, Leave, Row,
       rowVars, brokerVars, historyVars, TypeInv, RowTypes, WorkerTypes,
       HandledInv, RowOK, WorkerOK
  <2>2. WorkerOK(w)'
    BY <1>g, <1>13 DEF MarkAsSentFails, SetStatus, Throw, Leave, Row,
       rowVars, brokerVars, historyVars, TypeInv, RowTypes, WorkerTypes,
       HandledInv, WorkerOK
  <2>3. \A v \in Worker : v # w => pc'[v] = pc[v] /\ msg'[v] = msg[v]
    BY <1>13 DEF MarkAsSentFails, SetStatus, Throw, Leave, Row, rowVars,
       brokerVars, historyVars, TypeInv, RowTypes, WorkerTypes
  <2>4. LogOK'
    BY <1>g, <1>13 DEF MarkAsSentFails, SetStatus, Throw, Leave, Row,
       rowVars, brokerVars, historyVars, TypeInv, RowTypes, WorkerTypes,
       LogTypes, HandledInv, LogOK, RowOK, WorkerOK
  <2> QED
    BY <1>g, <2>1, <2>2, <2>3, <2>4, OthersKeep DEF HandledInv
<1>14. ASSUME NEW w \in Worker, MarkAsFailed(w)
      PROVE  HandledInv'
  <2>1. \A a \in Aggregate : RowOK(a)'
    BY <1>g, <1>14 DEF MarkAsFailed, CountFailure, SetStatus, Exhausted,
       Proceed, Goto, Row, rowVars, brokerVars, historyVars, TypeInv,
       RowTypes, WorkerTypes, HandledInv, RowOK, WorkerOK
  <2>2. WorkerOK(w)'
    <3>1. Row(w) \in Aggregate /\ Row(w)' = Row(w) /\ UNCHANGED msg
      BY <1>14 DEF MarkAsFailed, Proceed, Goto, Row, TypeInv, WorkerTypes
    <3>2. Decided(Row(w))'
      BY <1>14, <3>1 DEF MarkAsFailed, CountFailure, SetStatus, Decided, TypeInv, RowTypes
    <3>3. Exhausted(w) => GivenUp(Row(w))'
      BY <3>1 DEF Exhausted, GivenUp
    <3> QED
      BY <1>14, <3>1, <3>2, <3>3 DEF MarkAsFailed, Proceed, Goto, WorkerOK, TypeInv,
         WorkerTypes
  <2>3. \A v \in Worker : v # w => pc'[v] = pc[v] /\ msg'[v] = msg[v]
    BY <1>14 DEF MarkAsFailed, CountFailure, SetStatus, Exhausted, Proceed,
       Goto, Row, rowVars, brokerVars, historyVars, TypeInv, RowTypes,
       WorkerTypes
  <2>4. LogOK'
    BY <1>g, <1>14 DEF MarkAsFailed, CountFailure, SetStatus, Exhausted,
       Proceed, Goto, Row, rowVars, brokerVars, historyVars, TypeInv,
       RowTypes, WorkerTypes, LogTypes, HandledInv, LogOK, RowOK, WorkerOK
  <2> QED
    BY <1>g, <2>1, <2>2, <2>3, <2>4, OthersKeep DEF HandledInv
<1>15. ASSUME NEW w \in Worker, MarkAsFailedFails(w)
      PROVE  HandledInv'
  <2>1. \A a \in Aggregate : RowOK(a)'
    BY <1>g, <1>15 DEF MarkAsFailedFails, CountFailure, SetStatus, Throw,
       Leave, Row, rowVars, brokerVars, historyVars, TypeInv, RowTypes,
       WorkerTypes, HandledInv, RowOK, WorkerOK
  <2>2. WorkerOK(w)'
    BY <1>g, <1>15 DEF MarkAsFailedFails, CountFailure, SetStatus, Throw,
       Leave, Row, rowVars, brokerVars, historyVars, TypeInv, RowTypes,
       WorkerTypes, HandledInv, WorkerOK
  <2>3. \A v \in Worker : v # w => pc'[v] = pc[v] /\ msg'[v] = msg[v]
    BY <1>15 DEF MarkAsFailedFails, CountFailure, SetStatus, Throw, Leave,
       Row, rowVars, brokerVars, historyVars, TypeInv, RowTypes, WorkerTypes
  <2>4. LogOK'
    BY <1>g, <1>15 DEF MarkAsFailedFails, CountFailure, SetStatus, Throw,
       Leave, Row, rowVars, brokerVars, historyVars, TypeInv, RowTypes,
       WorkerTypes, LogTypes, HandledInv, LogOK, RowOK, WorkerOK
  <2> QED
    BY <1>g, <2>1, <2>2, <2>3, <2>4, OthersKeep DEF HandledInv
<1>16. ASSUME NEW w \in Worker, RouteToDlq(w)
      PROVE  HandledInv'
  <2>1. \A a \in Aggregate : RowOK(a)'
    BY <1>g, <1>16 DEF RouteToDlq, SetStatus, Proceed, Goto, Row, rowVars,
       brokerVars, historyVars, TypeInv, RowTypes, WorkerTypes, HandledInv,
       RowOK, WorkerOK
  <2>2. WorkerOK(w)'
    <3>1. Row(w) \in Aggregate /\ Row(w)' = Row(w) /\ UNCHANGED msg
      BY <1>16 DEF RouteToDlq, Proceed, Goto, Row, TypeInv, WorkerTypes
    <3>2. Decided(Row(w))'
      BY <1>16, <3>1 DEF RouteToDlq, SetStatus, Decided, TypeInv, RowTypes
    <3> QED
      BY <1>16, <3>1, <3>2 DEF RouteToDlq, Proceed, Goto, WorkerOK, TypeInv, WorkerTypes
  <2>3. \A v \in Worker : v # w => pc'[v] = pc[v] /\ msg'[v] = msg[v]
    BY <1>16 DEF RouteToDlq, SetStatus, Proceed, Goto, Row, rowVars,
       brokerVars, historyVars, TypeInv, RowTypes, WorkerTypes
  <2>4. LogOK'
    BY <1>g, <1>16 DEF RouteToDlq, SetStatus, Proceed, Goto, Row, rowVars,
       brokerVars, historyVars, TypeInv, RowTypes, WorkerTypes, LogTypes,
       HandledInv, LogOK, RowOK, WorkerOK
  <2> QED
    BY <1>g, <2>1, <2>2, <2>3, <2>4, OthersKeep DEF HandledInv
<1>17. ASSUME NEW w \in Worker, RouteToDlqFails(w)
      PROVE  HandledInv'
  <2>1. \A a \in Aggregate : RowOK(a)'
    BY <1>g, <1>17 DEF RouteToDlqFails, SetStatus, Throw, Leave, Row,
       rowVars, brokerVars, historyVars, TypeInv, RowTypes, WorkerTypes,
       HandledInv, RowOK, WorkerOK
  <2>2. WorkerOK(w)'
    BY <1>g, <1>17 DEF RouteToDlqFails, SetStatus, Throw, Leave, Row,
       rowVars, brokerVars, historyVars, TypeInv, RowTypes, WorkerTypes,
       HandledInv, WorkerOK
  <2>3. \A v \in Worker : v # w => pc'[v] = pc[v] /\ msg'[v] = msg[v]
    BY <1>17 DEF RouteToDlqFails, SetStatus, Throw, Leave, Row, rowVars,
       brokerVars, historyVars, TypeInv, RowTypes, WorkerTypes
  <2>4. LogOK'
    BY <1>g, <1>17 DEF RouteToDlqFails, SetStatus, Throw, Leave, Row,
       rowVars, brokerVars, historyVars, TypeInv, RowTypes, WorkerTypes,
       LogTypes, HandledInv, LogOK, RowOK, WorkerOK
  <2> QED
    BY <1>g, <2>1, <2>2, <2>3, <2>4, OthersKeep DEF HandledInv
<1>18. ASSUME NEW w \in Worker, PublishDeadLetter(w)
      PROVE  HandledInv'
  <2>1. \A a \in Aggregate : RowOK(a)'
    BY <1>g, <1>18 DEF PublishDeadLetter, Publish, Proceed, Goto, Row,
       rowVars, brokerVars, historyVars, TypeInv, RowTypes, WorkerTypes,
       HandledInv, RowOK, WorkerOK
  <2>2. WorkerOK(w)'
    BY <1>g, <1>18 DEF PublishDeadLetter, Publish, Proceed, Goto, Row,
       rowVars, brokerVars, historyVars, TypeInv, RowTypes, WorkerTypes,
       HandledInv, WorkerOK
  <2>3. \A v \in Worker : v # w => pc'[v] = pc[v] /\ msg'[v] = msg[v]
    BY <1>18 DEF PublishDeadLetter, Publish, Proceed, Goto, Row, rowVars,
       brokerVars, historyVars, TypeInv, RowTypes, WorkerTypes
  <2>4. LogOK'
    BY <1>g, <1>18 DEF PublishDeadLetter, Publish, Proceed, Goto, Row,
       rowVars, brokerVars, historyVars, TypeInv, RowTypes, WorkerTypes,
       LogTypes, HandledInv, LogOK, RowOK, WorkerOK
  <2> QED
    BY <1>g, <2>1, <2>2, <2>3, <2>4, OthersKeep DEF HandledInv
<1>19. ASSUME NEW w \in Worker, Commit(w)
      PROVE  HandledInv'
  <2>1. \A a \in Aggregate : RowOK(a)'
    BY <1>g, <1>19 DEF Commit, Leave, rowVars, brokerVars, historyVars,
       TypeInv, RowTypes, WorkerTypes, HandledInv, RowOK, WorkerOK
  <2>2. WorkerOK(w)'
    BY <1>g, <1>19 DEF Commit, Leave, rowVars, brokerVars, historyVars,
       TypeInv, RowTypes, WorkerTypes, HandledInv, WorkerOK
  <2>3. \A v \in Worker : v # w => pc'[v] = pc[v] /\ msg'[v] = msg[v]
    BY <1>19 DEF Commit, Leave, rowVars, brokerVars, historyVars, TypeInv,
       RowTypes, WorkerTypes
  <2>4. LogOK'
    <3>1. msg[w] \in Message /\ acked' = acked \cup {msg[w]}
      BY <1>19 DEF Commit, TypeInv, WorkerTypes
    <3>2. eventType[msg[w]] \in DomainEventSchema => Decided(aggregateId[msg[w]])
      BY <1>19 DEF Commit, HandledInv, WorkerOK, Row
    <3>3. UNCHANGED <<status, attemptCount, mailed, skipped>>
      BY <1>19 DEF Commit, rowVars, historyVars
    <3> QED
      BY <3>1, <3>2, <3>3 DEF HandledInv, LogOK, Decided, Mailed, GivenUp, Copies
  <2> QED
    BY <1>g, <2>1, <2>2, <2>3, <2>4, OthersKeep DEF HandledInv
<1>20. ASSUME NEW w \in Worker, Crash(w)
      PROVE  HandledInv'
  <2>1. \A a \in Aggregate : RowOK(a)'
    BY <1>g, <1>20 DEF Crash, Leave, rowVars, brokerVars, historyVars,
       TypeInv, RowTypes, WorkerTypes, HandledInv, RowOK, WorkerOK
  <2>2. WorkerOK(w)'
    BY <1>g, <1>20 DEF Crash, Leave, rowVars, brokerVars, historyVars,
       TypeInv, RowTypes, WorkerTypes, HandledInv, WorkerOK
  <2>3. \A v \in Worker : v # w => pc'[v] = pc[v] /\ msg'[v] = msg[v]
    BY <1>20 DEF Crash, Leave, rowVars, brokerVars, historyVars, TypeInv,
       RowTypes, WorkerTypes
  <2>4. LogOK'
    BY <1>g, <1>20 DEF Crash, Leave, rowVars, brokerVars, historyVars,
       TypeInv, RowTypes, WorkerTypes, LogTypes, HandledInv, LogOK, RowOK,
       WorkerOK
  <2> QED
    BY <1>g, <2>1, <2>2, <2>3, <2>4, OthersKeep DEF HandledInv
<1>21. CASE UNCHANGED vars
  BY <1>21 DEF vars, HandledInv, RowOK, WorkerOK, LogOK, Mailed, GivenUp,
     Decided, Row
<1>22. ASSUME CalmDown
      PROVE  HandledInv'
  <2>1. UNCHANGED <<status, attemptCount, pc, msg, mailed, skipped, acked>>
    BY <1>22 DEF CalmDown, rowVars, workerVars, historyVars
  <2> QED
    BY <2>1 DEF HandledInv, RowOK, WorkerOK, LogOK, Mailed, Copies, GivenUp,
       Decided, Row
<1> QED
  BY <1>1, <1>2, <1>3, <1>4, <1>5, <1>6, <1>7, <1>8, <1>9, <1>10, <1>11,
     <1>12, <1>13, <1>14, <1>15, <1>16, <1>17, <1>18, <1>19, <1>20, <1>21,
     <1>22
     DEF Next, Handle

LEMMA InitHandled == Init => HandledInv
BY NotificationAssumption DEF Init, HandledInv, RowOK, WorkerOK, LogOK

\* The invariant, in every reachable state.
LEMMA HandledAlways == Spec => [](TypeInv /\ HandledInv)
<1>1. TypeInv /\ HandledInv /\ [Next]_vars => (TypeInv /\ HandledInv)'
  BY TypeNext, HandledNext
<1> QED
  BY InitType, InitHandled, <1>1, PTL DEF Spec

\* No row is SENT without a mail.
THEOREM SentRowsWereMailed == Spec => []SentWasMailed
<1>1. HandledInv => SentWasMailed
  BY DEF HandledInv, RowOK, Mailed, SentWasMailed
<1> QED
  BY HandledAlways, <1>1, PTL

\* Nothing is skipped that was not dealt with.
THEOREM SkippedMessagesWereHandled == Spec => []SkippedWasHandled
<1>1. HandledInv => SkippedWasHandled
  BY DEF HandledInv, LogOK, Mailed, GivenUp, SkippedWasHandled
<1> QED
  BY HandledAlways, <1>1, PTL

\* No offset is committed before the row of its message is decided.
THEOREM AckedMessagesAreDecided == Spec => []AckedIsDecided
<1>1. HandledInv => AckedIsDecided
  BY DEF HandledInv, LogOK, Decided, AckedIsDecided
<1> QED
  BY HandledAlways, <1>1, PTL

(***************************************************************************)
(* Settled rows.  Only a worker past the claim writes a row that exists,    *)
(* and none gets there with a row that is settled.  Nothing is assumed of   *)
(* the keys, the partitions or the faults: what a row in somebody's hands   *)
(* may still suffer is left out by Final itself.                            *)
(***************************************************************************)

\* A step of one worker that neither writes a row nor comes to work on it.
LEMMA FinalKept ==
    ASSUME NEW a \in Aggregate, Final(a), NEW w \in Worker,
           status'[a] = status[a],
           \A v \in Worker : v # w => pc'[v] = pc[v] /\ msg'[v] = msg[v],
           Working(w)' => Row(w)' # a
    PROVE  Final(a)'
<1> SUFFICES ASSUME NEW v \in Worker, v # w, Working(v)' PROVE Row(v)' # a
  BY DEF Final
<1>1. Working(v) /\ Row(v)' = Row(v)
  BY DEF Working, Row
<1> QED
  BY <1>1 DEF Final

\* No step touches a row that is final.
LEMMA FinalNext ==
    ASSUME TypeInv, [Next]_vars, NEW a \in Aggregate, Final(a)
    PROVE  Final(a)' /\ status'[a] = status[a]
<1> DEFINE Kept == Final(a)' /\ status'[a] = status[a]
<1> USE DEF TypeInv, RowTypes, WorkerTypes
<1>f. /\ status[a] \in Terminal
      /\ \A w \in Worker : Working(w) => Row(w) # a
  BY DEF Final
<1>1. ASSUME NEW w \in Worker, Take(w)
      PROVE  Kept
  <2>1. status'[a] = status[a]
    BY <1>f, <1>1 DEF Take, rowVars, Working, Row, Terminal
  <2>2. \A v \in Worker : v # w => pc'[v] = pc[v] /\ msg'[v] = msg[v]
    BY <1>1 DEF Take, rowVars, Working, Row
  <2>3. Working(w)' => Row(w)' # a
    BY <1>f, <1>1 DEF Take, rowVars, Working, Row, Terminal
  <2> QED
    BY <2>1, <2>2, <2>3, FinalKept
<1>2. ASSUME NEW w \in Worker, RoutePoisonMessage(w)
      PROVE  Kept
  <2>1. status'[a] = status[a]
    BY <1>f, <1>2 DEF RoutePoisonMessage, Publish, Proceed, Goto, rowVars,
       Working, Row, Terminal
  <2>2. \A v \in Worker : v # w => pc'[v] = pc[v] /\ msg'[v] = msg[v]
    BY <1>2 DEF RoutePoisonMessage, Publish, Proceed, Goto, rowVars, Working
  <2>3. Working(w)' => Row(w)' # a
    BY <1>f, <1>2 DEF RoutePoisonMessage, Publish, Proceed, Goto, rowVars,
       Working, Row, Terminal
  <2> QED
    BY <2>1, <2>2, <2>3, FinalKept
<1>3. ASSUME NEW w \in Worker, Claim(w)
      PROVE  Kept
  <2>1. status'[a] = status[a]
    BY <1>f, <1>3 DEF Claim, Proceed, Goto, Working, Row, Terminal
  <2>2. \A v \in Worker : v # w => pc'[v] = pc[v] /\ msg'[v] = msg[v]
    BY <1>3 DEF Claim, Proceed, Goto
  <2>3. Working(w)' => Row(w)' # a
    BY <1>f, <1>3 DEF Claim, Proceed, Goto, Working, Row, Terminal
  <2> QED
    BY <2>1, <2>2, <2>3, FinalKept
<1>4. ASSUME NEW w \in Worker, Lookup(w)
      PROVE  Kept
  <2>1. status'[a] = status[a]
    BY <1>f, <1>4 DEF Lookup, Proceed, Goto, Reclaimable, rowVars, Working,
       Row, Terminal
  <2>2. \A v \in Worker : v # w => pc'[v] = pc[v] /\ msg'[v] = msg[v]
    BY <1>4 DEF Lookup, Proceed, Goto, Reclaimable, rowVars
  <2>3. Working(w)' => Row(w)' # a
    BY <1>f, <1>4 DEF Lookup, Proceed, Goto, Reclaimable, rowVars, Working,
       Row, Terminal
  <2> QED
    BY <2>1, <2>2, <2>3, FinalKept
<1>5. ASSUME NEW w \in Worker, ClaimFails(w)
      PROVE  Kept
  <2>1. status'[a] = status[a]
    BY <1>f, <1>5 DEF ClaimFails, Leave, Working, Row, Terminal
  <2>2. \A v \in Worker : v # w => pc'[v] = pc[v] /\ msg'[v] = msg[v]
    BY <1>5 DEF ClaimFails, Leave
  <2>3. Working(w)' => Row(w)' # a
    BY <1>f, <1>5 DEF ClaimFails, Leave, Working, Row, Terminal
  <2> QED
    BY <2>1, <2>2, <2>3, FinalKept
<1>6. ASSUME NEW w \in Worker, Admit(w)
      PROVE  Kept
  <2>1. status'[a] = status[a]
    BY <1>f, <1>6 DEF Admit, Proceed, Goto, rowVars, Working, Row, Terminal
  <2>2. \A v \in Worker : v # w => pc'[v] = pc[v] /\ msg'[v] = msg[v]
    BY <1>6 DEF Admit, Proceed, Goto, rowVars
  <2>3. Working(w)' => Row(w)' # a
    BY <1>f, <1>6 DEF Admit, Proceed, Goto, rowVars, Working, Row, Terminal
  <2> QED
    BY <2>1, <2>2, <2>3, FinalKept
<1>7. ASSUME NEW w \in Worker, RateLimited(w)
      PROVE  Kept
  <2>1. status'[a] = status[a]
    BY <1>f, <1>7 DEF RateLimited, Proceed, Goto, rowVars, Working, Row,
       Terminal
  <2>2. \A v \in Worker : v # w => pc'[v] = pc[v] /\ msg'[v] = msg[v]
    BY <1>7 DEF RateLimited, Proceed, Goto, rowVars
  <2>3. Working(w)' => Row(w)' # a
    BY <1>f, <1>7 DEF RateLimited, Proceed, Goto, rowVars, Working, Row,
       Terminal
  <2> QED
    BY <2>1, <2>2, <2>3, FinalKept
<1>8. ASSUME NEW w \in Worker, Refused(w)
      PROVE  Kept
  <2>1. status'[a] = status[a]
    BY <1>f, <1>8 DEF Refused, Throw, Leave, rowVars, Working, Row, Terminal
  <2>2. \A v \in Worker : v # w => pc'[v] = pc[v] /\ msg'[v] = msg[v]
    BY <1>8 DEF Refused, Throw, Leave, rowVars
  <2>3. Working(w)' => Row(w)' # a
    BY <1>f, <1>8 DEF Refused, Throw, Leave, rowVars, Working, Row, Terminal
  <2> QED
    BY <2>1, <2>2, <2>3, FinalKept
<1>9. ASSUME NEW w \in Worker, SendOk(w)
      PROVE  Kept
  <2>1. status'[a] = status[a]
    BY <1>f, <1>9 DEF SendOk, Proceed, Goto, rowVars, Working, Row, Terminal
  <2>2. \A v \in Worker : v # w => pc'[v] = pc[v] /\ msg'[v] = msg[v]
    BY <1>9 DEF SendOk, Proceed, Goto, rowVars
  <2>3. Working(w)' => Row(w)' # a
    BY <1>f, <1>9 DEF SendOk, Proceed, Goto, rowVars, Working, Row, Terminal
  <2> QED
    BY <2>1, <2>2, <2>3, FinalKept
<1>10. ASSUME NEW w \in Worker, SendRetryable(w)
      PROVE  Kept
  <2>1. status'[a] = status[a]
    BY <1>f, <1>10 DEF SendRetryable, Goto, Throw, Leave, rowVars, Working,
       Row, Terminal
  <2>2. \A v \in Worker : v # w => pc'[v] = pc[v] /\ msg'[v] = msg[v]
    BY <1>10 DEF SendRetryable, Goto, Throw, Leave, rowVars
  <2>3. Working(w)' => Row(w)' # a
    BY <1>f, <1>10 DEF SendRetryable, Goto, Throw, Leave, rowVars, Working,
       Row, Terminal
  <2> QED
    BY <2>1, <2>2, <2>3, FinalKept
<1>11. ASSUME NEW w \in Worker, SendPermanent(w)
      PROVE  Kept
  <2>1. status'[a] = status[a]
    BY <1>f, <1>11 DEF SendPermanent, Throw, Leave, rowVars, Working, Row,
       Terminal
  <2>2. \A v \in Worker : v # w => pc'[v] = pc[v] /\ msg'[v] = msg[v]
    BY <1>11 DEF SendPermanent, Throw, Leave, rowVars
  <2>3. Working(w)' => Row(w)' # a
    BY <1>f, <1>11 DEF SendPermanent, Throw, Leave, rowVars, Working, Row,
       Terminal
  <2> QED
    BY <2>1, <2>2, <2>3, FinalKept
<1>12. ASSUME NEW w \in Worker, MarkAsSent(w)
      PROVE  Kept
  <2>1. status'[a] = status[a]
    BY <1>f, <1>12 DEF MarkAsSent, SetStatus, Proceed, Goto, Working, Row,
       Terminal
  <2>2. \A v \in Worker : v # w => pc'[v] = pc[v] /\ msg'[v] = msg[v]
    BY <1>12 DEF MarkAsSent, SetStatus, Proceed, Goto
  <2>3. Working(w)' => Row(w)' # a
    BY <1>f, <1>12 DEF MarkAsSent, SetStatus, Proceed, Goto, Working, Row,
       Terminal
  <2> QED
    BY <2>1, <2>2, <2>3, FinalKept
<1>13. ASSUME NEW w \in Worker, MarkAsSentFails(w)
      PROVE  Kept
  <2>1. status'[a] = status[a]
    BY <1>f, <1>13 DEF MarkAsSentFails, SetStatus, Throw, Leave, Working, Row,
       Terminal
  <2>2. \A v \in Worker : v # w => pc'[v] = pc[v] /\ msg'[v] = msg[v]
    BY <1>13 DEF MarkAsSentFails, SetStatus, Throw, Leave
  <2>3. Working(w)' => Row(w)' # a
    BY <1>f, <1>13 DEF MarkAsSentFails, SetStatus, Throw, Leave, Working, Row,
       Terminal
  <2> QED
    BY <2>1, <2>2, <2>3, FinalKept
<1>14. ASSUME NEW w \in Worker, MarkAsFailed(w)
      PROVE  Kept
  <2>1. status'[a] = status[a]
    BY <1>f, <1>14 DEF MarkAsFailed, CountFailure, SetStatus, Proceed, Goto,
       Working, Row, Terminal
  <2>2. \A v \in Worker : v # w => pc'[v] = pc[v] /\ msg'[v] = msg[v]
    BY <1>14 DEF MarkAsFailed, CountFailure, SetStatus, Proceed, Goto
  <2>3. Working(w)' => Row(w)' # a
    BY <1>f, <1>14 DEF MarkAsFailed, CountFailure, SetStatus, Proceed, Goto,
       Working, Row, Terminal
  <2> QED
    BY <2>1, <2>2, <2>3, FinalKept
<1>15. ASSUME NEW w \in Worker, MarkAsFailedFails(w)
      PROVE  Kept
  <2>1. status'[a] = status[a]
    BY <1>f, <1>15 DEF MarkAsFailedFails, CountFailure, SetStatus, Throw,
       Leave, rowVars, Working, Row, Terminal
  <2>2. \A v \in Worker : v # w => pc'[v] = pc[v] /\ msg'[v] = msg[v]
    BY <1>15 DEF MarkAsFailedFails, CountFailure, SetStatus, Throw, Leave,
       rowVars
  <2>3. Working(w)' => Row(w)' # a
    BY <1>f, <1>15 DEF MarkAsFailedFails, CountFailure, SetStatus, Throw,
       Leave, rowVars, Working, Row, Terminal
  <2> QED
    BY <2>1, <2>2, <2>3, FinalKept
<1>16. ASSUME NEW w \in Worker, RouteToDlq(w)
      PROVE  Kept
  <2>1. status'[a] = status[a]
    BY <1>f, <1>16 DEF RouteToDlq, SetStatus, Proceed, Goto, Working, Row,
       Terminal
  <2>2. \A v \in Worker : v # w => pc'[v] = pc[v] /\ msg'[v] = msg[v]
    BY <1>16 DEF RouteToDlq, SetStatus, Proceed, Goto
  <2>3. Working(w)' => Row(w)' # a
    BY <1>f, <1>16 DEF RouteToDlq, SetStatus, Proceed, Goto, Working, Row,
       Terminal
  <2> QED
    BY <2>1, <2>2, <2>3, FinalKept
<1>17. ASSUME NEW w \in Worker, RouteToDlqFails(w)
      PROVE  Kept
  <2>1. status'[a] = status[a]
    BY <1>f, <1>17 DEF RouteToDlqFails, SetStatus, Throw, Leave, Working, Row,
       Terminal
  <2>2. \A v \in Worker : v # w => pc'[v] = pc[v] /\ msg'[v] = msg[v]
    BY <1>17 DEF RouteToDlqFails, SetStatus, Throw, Leave
  <2>3. Working(w)' => Row(w)' # a
    BY <1>f, <1>17 DEF RouteToDlqFails, SetStatus, Throw, Leave, Working, Row,
       Terminal
  <2> QED
    BY <2>1, <2>2, <2>3, FinalKept
<1>18. ASSUME NEW w \in Worker, PublishDeadLetter(w)
      PROVE  Kept
  <2>1. status'[a] = status[a]
    BY <1>f, <1>18 DEF PublishDeadLetter, Publish, Proceed, Goto, rowVars,
       Working, Row, Terminal
  <2>2. \A v \in Worker : v # w => pc'[v] = pc[v] /\ msg'[v] = msg[v]
    BY <1>18 DEF PublishDeadLetter, Publish, Proceed, Goto, rowVars
  <2>3. Working(w)' => Row(w)' # a
    BY <1>f, <1>18 DEF PublishDeadLetter, Publish, Proceed, Goto, rowVars,
       Working, Row, Terminal
  <2> QED
    BY <2>1, <2>2, <2>3, FinalKept
<1>19. ASSUME NEW w \in Worker, Commit(w)
      PROVE  Kept
  <2>1. status'[a] = status[a]
    BY <1>f, <1>19 DEF Commit, Leave, rowVars, Working, Row, Terminal
  <2>2. \A v \in Worker : v # w => pc'[v] = pc[v] /\ msg'[v] = msg[v]
    BY <1>19 DEF Commit, Leave, rowVars
  <2>3. Working(w)' => Row(w)' # a
    BY <1>f, <1>19 DEF Commit, Leave, rowVars, Working, Row, Terminal
  <2> QED
    BY <2>1, <2>2, <2>3, FinalKept
<1>20. ASSUME NEW w \in Worker, Crash(w)
      PROVE  Kept
  <2>1. status'[a] = status[a]
    BY <1>f, <1>20 DEF Crash, Leave, rowVars, Working, Row, Terminal
  <2>2. \A v \in Worker : v # w => pc'[v] = pc[v] /\ msg'[v] = msg[v]
    BY <1>20 DEF Crash, Leave, rowVars
  <2>3. Working(w)' => Row(w)' # a
    BY <1>f, <1>20 DEF Crash, Leave, rowVars, Working, Row, Terminal
  <2> QED
    BY <2>1, <2>2, <2>3, FinalKept
<1>21. CASE UNCHANGED vars
  BY <1>f, <1>21 DEF vars, Final, Working, Row
<1>22. ASSUME CalmDown
      PROVE  Kept
  BY <1>f, <1>22 DEF CalmDown, rowVars, workerVars, Final, Working, Row
<1> QED
  BY <1>1, <1>2, <1>3, <1>4, <1>5, <1>6, <1>7, <1>8, <1>9, <1>10, <1>11,
     <1>12, <1>13, <1>14, <1>15, <1>16, <1>17, <1>18, <1>19, <1>20, <1>21,
     <1>22
     DEF Next, Handle

\* What is settled and in nobody's hands stays as it is, whatever is delivered
\* for it later, whoever takes it and whatever fails.
THEOREM SettledRowsStaySettled == Spec => SettledStaysSettled
<1>1. TypeInv /\ [Next]_vars =>
          [\A a \in Aggregate : Final(a) => Final(a)' /\ status'[a] = status[a]]_vars
  BY FinalNext
<1>2. Spec => []TypeInv
  BY InitType, TypeNext, PTL DEF Spec
<1> QED
  BY <1>1, <1>2, PTL DEF Spec, SettledStaysSettled
=============================================================================
