------------------------- MODULE ProvisioningProofs -------------------------
(* Theorems about Provisioning for any number of registrations of the      *)
(* email, any number of calls and every set of faults.                     *)
EXTENDS Provisioning, TLAPS

USE ProvisioningAssumption

(***************************************************************************)
(* Next, taken apart once for the three invariants.                        *)
(***************************************************************************)

LEMMA NextCases ==
    ASSUME [Next]_vars
    PROVE  \/ \E r \in Reg : CreateCredential(r)
           \/ \E r \in Reg : Call(r)
           \/ \E r \in Reg : Answer(r)
           \/ \E r \in Reg : Compensate(r)
           \/ \E r \in Reg : IssueSession(r)
           \/ \E r \in Reg : TimeOut(r)
           \/ \E r \in Reg : VerifyInternalCall(r)
           \/ \E r \in Reg : CacheLookup(r)
           \/ \E r \in Reg : CacheFetch(r)
           \/ \E r \in Reg : CacheFill(r)
           \/ \E r \in Reg : Found(r)
           \/ \E r \in Reg : ExistsByEmail(r)
           \/ \E r \in Reg : WriteAccount(r)
           \/ \E r \in Reg : HandlerFails(r)
           \/ \E r \in Reg : Expire(r)
           \/ UserServiceDies \/ AuthServiceDies \/ UNCHANGED vars
BY DEF Next, AuthStep, HandlerStep

(***************************************************************************)
(* Type correctness.                                                       *)
(***************************************************************************)

LEMMA InitType == Init => TypeOK
BY DEF Init, TypeOK, OneAnswer, Handler, Resting, Working, Ended, Cached, Status, HandlerPC

\* Moving a handler on, with whatever it remembers.
LEMMA StepType ==
    ASSUME TypeOK, NEW r \in Reg, h[r].pc # "idle", NEW x \in Handler,
           h' = [h EXCEPT ![r] = x], UNCHANGED <<pc, reply>>
    PROVE  h' \in [Reg -> Handler] /\ OneAnswer'
<1>1. h \in [Reg -> Handler] /\ OneAnswer
  BY DEF TypeOK
<1>2. h' \in [Reg -> Handler]
  BY <1>1
<1>3. reply[r] = None
  BY <1>1 DEF OneAnswer, Resting
<1>4. ASSUME NEW q \in Reg, reply'[q] # None
      PROVE  pc'[q] = "waiting" /\ h'[q] = Resting
  <2>1. q # r /\ reply[q] # None
    BY <1>3, <1>4
  <2> QED
    BY <1>1, <2>1 DEF OneAnswer
<1>5. OneAnswer'
  BY <1>4 DEF OneAnswer, Resting
<1> QED
  BY <1>2, <1>5

LEMMA StepIs ==
    ASSUME TypeOK, NEW r \in Reg, NEW from, NEW to \in HandlerPC, Step(r, from, to)
    PROVE  \E x \in Handler : h' = [h EXCEPT ![r] = x]
<1>1. h[r] \in Handler
  BY DEF TypeOK
<1>2. [h[r] EXCEPT !.pc = to] \in Handler
  BY <1>1 DEF Handler
<1> QED
  BY <1>2 DEF Step

LEMMA HitIs ==
    ASSUME TypeOK, NEW r \in Reg, NEW what, Hit(r, what)
    PROVE  \E x \in Handler : h' = [h EXCEPT ![r] = x]
<1>1. h[r] \in Handler
  BY DEF TypeOK
<1>2. \A g \in Reg \cup {None} : [h[r] EXCEPT !.pc = "found", !.got = g] \in Handler
  BY <1>1 DEF Handler, HandlerPC
<1>3. h' = [h EXCEPT ![r] = [h[r] EXCEPT !.pc = "found",
                              !.got = IF what = "user" THEN r ELSE None]]
  BY DEF Hit, TypeOK
<1> QED
  BY <1>2, <1>3

LEMMA RespondType ==
    ASSUME TypeOK, NEW r \in Reg, NEW s \in Status, Respond(r, s), UNCHANGED pc
    PROVE  /\ h' \in [Reg -> Handler]
           /\ reply' \in [Reg -> Status \cup {None}]
           /\ OneAnswer'
BY DEF TypeOK, OneAnswer, Respond, Resting, Handler, HandlerPC

LEMMA TypeNext == TypeOK /\ [Next]_vars => TypeOK'
<1> SUFFICES ASSUME TypeOK, [Next]_vars
             PROVE  TypeOK'
  OBVIOUS
<1>1. ASSUME NEW r \in Reg, CreateCredential(r)
      PROVE  TypeOK'
  BY <1>1 DEF TypeOK, OneAnswer, Handler, Working, Ended, Cached, Status, HandlerPC,
     CreateCredential, Goto, authVars, userVars, cacheVars
<1>2. ASSUME NEW r \in Reg, Call(r)
      PROVE  TypeOK'
  <2>1. h' \in [Reg -> Handler]
    BY <1>2 DEF TypeOK, Call, Handler, HandlerPC, Resting
  <2>2. calls' \in [Reg -> 0..(MaxCalls + 1)]
    BY <1>2 DEF TypeOK, Call
  <2>3. pc' \in [Reg -> {"idle"} \cup Working \cup Ended]
    BY <1>2 DEF TypeOK, Call, Goto, Working
  <2>4. OneAnswer'
    BY <1>2 DEF TypeOK, OneAnswer, Call, Goto
  <2> QED
    BY <1>2, <2>1, <2>2, <2>3, <2>4 DEF TypeOK, Call, userVars, cacheVars
<1>3. ASSUME NEW r \in Reg, Answer(r)
      PROVE  TypeOK'
  BY <1>3 DEF TypeOK, OneAnswer, Handler, Working, Ended, Cached, Status, HandlerPC, Answer,
     Goto, GiveUp, Retryable, authVars, userVars, cacheVars
<1>4. ASSUME NEW r \in Reg, Compensate(r)
      PROVE  TypeOK'
  BY <1>4 DEF TypeOK, OneAnswer, Handler, Working, Ended, Cached, Status, HandlerPC, Compensate,
     Goto, DeleteById, authVars, userVars, cacheVars
<1>5. ASSUME NEW r \in Reg, IssueSession(r)
      PROVE  TypeOK'
  BY <1>5 DEF TypeOK, OneAnswer, Handler, Working, Ended, Cached, Status, HandlerPC,
     IssueSession, Goto, authVars, userVars, cacheVars
<1>6. ASSUME NEW r \in Reg, TimeOut(r)
      PROVE  TypeOK'
  BY <1>6 DEF TypeOK, OneAnswer, Handler, Working, Ended, Cached, Status, HandlerPC, TimeOut,
     Goto, GiveUp, Unanswered, authVars, userVars, cacheVars
<1>7. ASSUME NEW r \in Reg, VerifyInternalCall(r)
      PROVE  TypeOK'
  <2>1. CASE Step(r, "verify", "lookup") /\ UNCHANGED reply
    <3>1. h' \in [Reg -> Handler] /\ OneAnswer'
      BY <1>7, <2>1, StepIs, StepType DEF VerifyInternalCall, authVars, HandlerPC
    <3> QED
      BY <1>7, <2>1, <3>1 DEF TypeOK, VerifyInternalCall, authVars, userVars,
         cacheVars
  <2>2. CASE Respond(r, 401)
    <3>1. h' \in [Reg -> Handler] /\ reply' \in [Reg -> Status \cup {None}]
          /\ OneAnswer'
      BY <1>7, <2>2, RespondType DEF VerifyInternalCall, authVars, Status
    <3> QED
      BY <1>7, <3>1 DEF TypeOK, VerifyInternalCall, authVars, userVars, cacheVars
  <2> QED
    BY <1>7, <2>1, <2>2 DEF VerifyInternalCall
<1>8. ASSUME NEW r \in Reg, CacheLookup(r)
      PROVE  TypeOK'
  <2>1. \E x \in Handler : h' = [h EXCEPT ![r] = x]
    BY <1>8, StepIs, HitIs DEF CacheLookup, HandlerPC
  <2>2. h' \in [Reg -> Handler] /\ OneAnswer'
    BY <1>8, <2>1, StepType DEF CacheLookup, authVars
  <2>3. l1' \in [Reg -> Cached]
    BY <1>8 DEF TypeOK, CacheLookup
  <2> QED
    BY <1>8, <2>2, <2>3 DEF TypeOK, CacheLookup, authVars, userVars
<1>9. ASSUME NEW r \in Reg, CacheFetch(r)
      PROVE  TypeOK'
  <2>1. [h[r] EXCEPT !.pc = "fill", !.got = FoundById(r)] \in Handler
    <3>1. h[r] \in Handler
      BY DEF TypeOK
    <3>2. FoundById(r) \in Reg \cup {None}
      BY DEF FoundById
    <3> QED
      BY <3>1, <3>2 DEF Handler, HandlerPC
  <2>2. h' = [h EXCEPT ![r] = [h[r] EXCEPT !.pc = "fill", !.got = FoundById(r)]]
    BY <1>9 DEF CacheFetch, TypeOK
  <2>3. h' \in [Reg -> Handler] /\ OneAnswer'
    BY <1>9, <2>1, <2>2, StepType DEF CacheFetch, authVars
  <2> QED
    BY <1>9, <2>3 DEF TypeOK, CacheFetch, authVars, userVars, cacheVars
<1>10. ASSUME NEW r \in Reg, CacheFill(r)
      PROVE  TypeOK'
  <2>1. Step(r, "fill", "found") /\ UNCHANGED <<pc, reply>>
    BY <1>10 DEF CacheFill, authVars
  <2>2. h' \in [Reg -> Handler] /\ OneAnswer'
    BY <2>1, StepIs, StepType DEF Step, HandlerPC
  <2>3. l1' \in [Reg -> Cached] /\ l2' \in [Reg -> Cached]
    BY <1>10 DEF TypeOK, CacheFill, Cached
  <2> QED
    BY <1>10, <2>2, <2>3 DEF TypeOK, CacheFill, authVars, userVars
<1>11. ASSUME NEW r \in Reg, Found(r)
      PROVE  TypeOK'
  <2>1. h' \in [Reg -> Handler] /\ reply' \in [Reg -> Status \cup {None}]
        /\ OneAnswer'
    <3>1. CASE Respond(r, 200) \/ Respond(r, 500)
      BY <1>11, <3>1, RespondType DEF Found, authVars, Status
    <3>2. CASE Step(r, "found", "email") /\ UNCHANGED reply
      BY <1>11, <3>2, StepIs, StepType DEF Found, authVars, HandlerPC, TypeOK
    <3> QED
      BY <1>11, <3>1, <3>2 DEF Found
  <2> QED
    BY <1>11, <2>1 DEF TypeOK, Found, authVars, userVars, cacheVars
<1>12. ASSUME NEW r \in Reg, ExistsByEmail(r)
      PROVE  TypeOK'
  <2>1. h' \in [Reg -> Handler] /\ reply' \in [Reg -> Status \cup {None}]
        /\ OneAnswer'
    <3>1. CASE Respond(r, 409)
      BY <1>12, <3>1, RespondType DEF ExistsByEmail, authVars, Status
    <3>2. CASE Step(r, "email", "write") /\ UNCHANGED reply
      BY <1>12, <3>2, StepIs, StepType DEF ExistsByEmail, authVars, HandlerPC,
         TypeOK
    <3> QED
      BY <1>12, <3>1, <3>2 DEF ExistsByEmail
  <2> QED
    BY <1>12, <2>1 DEF TypeOK, ExistsByEmail, authVars, userVars, cacheVars
<1>13. ASSUME NEW r \in Reg, WriteAccount(r)
      PROVE  TypeOK'
  <2>1. h' \in [Reg -> Handler] /\ reply' \in [Reg -> Status \cup {None}]
        /\ OneAnswer'
    <3>1. CASE Respond(r, 409) \/ (\E s \in DbError : Respond(r, s))
      BY <1>13, <3>1, RespondType DEF WriteAccount, authVars, Status, DbError
    <3>2. CASE /\ h' = [h EXCEPT ![r].pc = "lookup", ![r].reread = TRUE]
               /\ UNCHANGED reply
      <4>1. [h[r] EXCEPT !.pc = "lookup", !.reread = TRUE] \in Handler
        <5>1. h[r] \in Handler
          BY DEF TypeOK
        <5> QED
          BY <5>1 DEF Handler, HandlerPC
      <4>2. h' = [h EXCEPT ![r] = [h[r] EXCEPT !.pc = "lookup", !.reread = TRUE]]
        BY <3>2 DEF TypeOK
      <4> QED
        BY <1>13, <3>2, <4>1, <4>2, StepType DEF WriteAccount, authVars, TypeOK
    <3> QED
      BY <1>13, <3>1, <3>2 DEF WriteAccount
  <2>2. user' \in Reg \cup {None} /\ events' \in [Reg -> Nat]
    BY <1>13 DEF TypeOK, WriteAccount, Emit
  <2> QED
    BY <1>13, <2>1, <2>2 DEF TypeOK, WriteAccount, authVars, cacheVars
<1>14. ASSUME NEW r \in Reg, HandlerFails(r)
      PROVE  TypeOK'
  <2>1. h' \in [Reg -> Handler] /\ reply' \in [Reg -> Status \cup {None}]
        /\ OneAnswer'
    BY <1>14, RespondType DEF HandlerFails, authVars, Status, DbError
  <2> QED
    BY <1>14, <2>1 DEF TypeOK, HandlerFails, authVars, userVars, cacheVars
<1>15. ASSUME NEW r \in Reg, Expire(r)
      PROVE  TypeOK'
  BY <1>15 DEF TypeOK, OneAnswer, Handler, Working, Ended, Cached, Status, HandlerPC, Expire,
     authVars, userVars, cacheVars
<1>16. CASE UserServiceDies
  BY <1>16 DEF TypeOK, OneAnswer, Handler, Working, Ended, Cached, Status, HandlerPC,
     UserServiceDies, Unanswered, Resting, authVars, userVars, cacheVars
<1>17. CASE AuthServiceDies
  BY <1>17 DEF TypeOK, OneAnswer, Handler, Working, Ended, Cached, Status, HandlerPC,
     AuthServiceDies, authVars, userVars, cacheVars
<1>18. CASE UNCHANGED vars
  BY <1>18 DEF TypeOK, OneAnswer, Handler, Working, Ended, Cached, Status, HandlerPC, vars
<1> QED
  BY <1>1, <1>2, <1>3, <1>4, <1>5, <1>6, <1>7, <1>8, <1>9, <1>10, <1>11,
     <1>12, <1>13, <1>14, <1>15, <1>16, <1>17, <1>18, NextCases

\* Every variable has its type, and a response travels only towards a
\* caller that waits for it and from a handler that has ended.
THEOREM TypeCorrect == Spec => []TypeOK
<1> QED
  BY InitType, TypeNext, PTL DEF Spec

(***************************************************************************)
(* The credential.                                                         *)
(***************************************************************************)

\* The credential of a registration at work is there; one that has not
\* begun, or whose catch block succeeded, has none.
CredInv ==
    \A r \in Reg : /\ pc[r] \in Working \cup {"session"} => cred = r
                   /\ pc[r] \in {"idle", "failed"} => cred # r

LEMMA InitCred == Init => CredInv
BY DEF Init, CredInv, Working

LEMMA CredNext == TypeOK /\ CredInv /\ [Next]_vars => CredInv'
<1> SUFFICES ASSUME TypeOK, CredInv, [Next]_vars
             PROVE  CredInv'
  OBVIOUS
<1>1. ASSUME NEW r \in Reg, CreateCredential(r)
      PROVE  CredInv'
  BY <1>1 DEF TypeOK, CredInv, Working, Ended, Cached, Status, HandlerPC,
     CreateCredential, Goto, authVars, userVars, cacheVars
<1>2. ASSUME NEW r \in Reg, Call(r)
      PROVE  CredInv'
  BY <1>2 DEF TypeOK, CredInv, Working, Ended, Cached, Status, HandlerPC,
     Call, Goto, Resting, authVars, userVars, cacheVars
<1>3. ASSUME NEW r \in Reg, Answer(r)
      PROVE  CredInv'
  BY <1>3 DEF TypeOK, CredInv, Working, Ended, Cached, Status, HandlerPC,
     Answer, Goto, GiveUp, Retryable, authVars, userVars, cacheVars
<1>4. ASSUME NEW r \in Reg, Compensate(r)
      PROVE  CredInv'
  BY <1>4 DEF TypeOK, CredInv, Working, Ended, Cached, Status, HandlerPC,
     Compensate, Goto, DeleteById, authVars, userVars, cacheVars
<1>5. ASSUME NEW r \in Reg, IssueSession(r)
      PROVE  CredInv'
  BY <1>5 DEF TypeOK, CredInv, Working, Ended, Cached, Status, HandlerPC,
     IssueSession, Goto, authVars, userVars, cacheVars
<1>6. ASSUME NEW r \in Reg, TimeOut(r)
      PROVE  CredInv'
  BY <1>6 DEF TypeOK, CredInv, Working, Ended, Cached, Status, HandlerPC,
     TimeOut, Goto, GiveUp, Unanswered, authVars, userVars, cacheVars
<1>7. ASSUME NEW r \in Reg, VerifyInternalCall(r)
      PROVE  CredInv'
  BY <1>7 DEF TypeOK, CredInv, Working, Ended, Cached, Status, HandlerPC,
     VerifyInternalCall, Step, Respond, Resting, authVars, userVars,
     cacheVars
<1>8. ASSUME NEW r \in Reg, CacheLookup(r)
      PROVE  CredInv'
  BY <1>8 DEF TypeOK, CredInv, Working, Ended, Cached, Status, HandlerPC,
     CacheLookup, Step, Hit, Resting, authVars, userVars, cacheVars
<1>9. ASSUME NEW r \in Reg, CacheFetch(r)
      PROVE  CredInv'
  BY <1>9 DEF TypeOK, CredInv, Working, Ended, Cached, Status, HandlerPC,
     CacheFetch, FoundById, Resting, authVars, userVars, cacheVars
<1>10. ASSUME NEW r \in Reg, CacheFill(r)
      PROVE  CredInv'
  BY <1>10 DEF TypeOK, CredInv, Working, Ended, Cached, Status, HandlerPC,
     CacheFill, Step, Resting, authVars, userVars, cacheVars
<1>11. ASSUME NEW r \in Reg, Found(r)
      PROVE  CredInv'
  BY <1>11 DEF TypeOK, CredInv, Working, Ended, Cached, Status, HandlerPC,
     Found, Step, Respond, Resting, authVars, userVars, cacheVars
<1>12. ASSUME NEW r \in Reg, ExistsByEmail(r)
      PROVE  CredInv'
  BY <1>12 DEF TypeOK, CredInv, Working, Ended, Cached, Status, HandlerPC,
     ExistsByEmail, Step, Respond, Resting, authVars, userVars, cacheVars
<1>13. ASSUME NEW r \in Reg, WriteAccount(r)
      PROVE  CredInv'
  BY <1>13 DEF TypeOK, CredInv, Working, Ended, Cached, Status, HandlerPC,
     WriteAccount, Emit, Respond, Resting, DbError, authVars, userVars, cacheVars
<1>14. ASSUME NEW r \in Reg, HandlerFails(r)
      PROVE  CredInv'
  BY <1>14 DEF TypeOK, CredInv, Working, Ended, Cached, Status, HandlerPC,
     HandlerFails, Respond, Resting, DbError, authVars, userVars, cacheVars
<1>15. ASSUME NEW r \in Reg, Expire(r)
      PROVE  CredInv'
  BY <1>15 DEF TypeOK, CredInv, Working, Ended, Cached, Status, HandlerPC,
     Expire, authVars, userVars, cacheVars
<1>16. CASE UserServiceDies
  BY <1>16 DEF TypeOK, CredInv, Working, Ended, Cached, Status, HandlerPC,
     UserServiceDies, Unanswered, Resting, authVars, userVars, cacheVars
<1>17. CASE AuthServiceDies
  BY <1>17 DEF TypeOK, CredInv, Working, Ended, Cached, Status, HandlerPC,
     AuthServiceDies, authVars, userVars, cacheVars
<1>18. CASE UNCHANGED vars
  BY <1>18 DEF TypeOK, CredInv, Working, Ended, Cached, Status, HandlerPC,
     vars
<1> QED
  BY <1>1, <1>2, <1>3, <1>4, <1>5, <1>6, <1>7, <1>8, <1>9, <1>10, <1>11,
     <1>12, <1>13, <1>14, <1>15, <1>16, <1>17, <1>18, NextCases

LEMMA CredCorrect == Spec => []CredInv
<1> QED
  BY InitType, TypeNext, InitCred, CredNext, PTL DEF Spec

\* A registration that failed left no credential, unless the compensating
\* delete itself failed (the catch block of completeRegistration).
THEOREM FailedIsCompensated == Spec => []FailureIsCompensated
<1>1. CredInv => FailureIsCompensated
  BY DEF CredInv, FailureIsCompensated
<1> QED
  BY <1>1, CredCorrect, PTL

(***************************************************************************)
(* The user row.                                                           *)
(***************************************************************************)

\* Whatever says that r's account exists is right: a cached record, a row
\* in a handler's memory, a 2xx under way, a caller that has read one.
SeenInv ==
    \A r \in Reg :
        (\/ "user" \in {l1[r], l2[r]}
         \/ h[r].got # None
         \/ reply[r] = 200
         \/ pc[r] \in {"issue", "session"}) => user = r

LEMMA InitSeen == Init => SeenInv
BY DEF Init, SeenInv, Resting, Status

\* A step of the handler that reads nothing.
LEMMA SeenStep ==
    ASSUME TypeOK, SeenInv, NEW r \in Reg, NEW from, NEW to,
           Step(r, from, to), UNCHANGED <<user, l1, l2, pc, reply>>
    PROVE  SeenInv'
<1>1. \A q \in Reg : h'[q].got = h[q].got
  BY DEF Step, TypeOK, Handler
<1> QED
  BY <1>1 DEF SeenInv

\* An answer that is not 2xx, or one the handler has the row for.
LEMMA SeenRespond ==
    ASSUME TypeOK, SeenInv, NEW r \in Reg, NEW s \in Status, Respond(r, s),
           s = 200 => user = r, UNCHANGED <<user, l1, l2, pc>>
    PROVE  SeenInv'
<1>1. ASSUME NEW q \in Reg, h'[q].got # None
      PROVE  user = q
  BY <1>1 DEF SeenInv, Respond, Resting, TypeOK
<1>2. ASSUME NEW q \in Reg, reply'[q] = 200
      PROVE  user = q
  BY <1>2 DEF SeenInv, Respond, TypeOK, Status
<1> QED
  BY <1>1, <1>2 DEF SeenInv

LEMMA SeenNext == TypeOK /\ SeenInv /\ [Next]_vars => SeenInv'
<1> SUFFICES ASSUME TypeOK, SeenInv, [Next]_vars
             PROVE  SeenInv'
  OBVIOUS
<1>1. ASSUME NEW r \in Reg, CreateCredential(r)
      PROVE  SeenInv'
  BY <1>1 DEF TypeOK, SeenInv, Working, Ended, Cached, Status, HandlerPC,
     CreateCredential, Goto, authVars, userVars, cacheVars
<1>2. ASSUME NEW r \in Reg, Call(r)
      PROVE  SeenInv'
  BY <1>2 DEF TypeOK, SeenInv, Working, Ended, Cached, Status, HandlerPC,
     Call, Goto, Resting, authVars, userVars, cacheVars
<1>3. ASSUME NEW r \in Reg, Answer(r)
      PROVE  SeenInv'
  BY <1>3 DEF TypeOK, SeenInv, Working, Ended, Cached, Status, HandlerPC,
     Answer, Goto, GiveUp, Retryable, authVars, userVars, cacheVars
<1>4. ASSUME NEW r \in Reg, Compensate(r)
      PROVE  SeenInv'
  BY <1>4 DEF TypeOK, SeenInv, Working, Ended, Cached, Status, HandlerPC,
     Compensate, Goto, DeleteById, authVars, userVars, cacheVars
<1>5. ASSUME NEW r \in Reg, IssueSession(r)
      PROVE  SeenInv'
  BY <1>5 DEF TypeOK, SeenInv, Working, Ended, Cached, Status, HandlerPC,
     IssueSession, Goto, authVars, userVars, cacheVars
<1>6. ASSUME NEW r \in Reg, TimeOut(r)
      PROVE  SeenInv'
  BY <1>6 DEF TypeOK, SeenInv, Working, Ended, Cached, Status, HandlerPC,
     TimeOut, Goto, GiveUp, Unanswered, authVars, userVars, cacheVars
<1>7. ASSUME NEW r \in Reg, VerifyInternalCall(r)
      PROVE  SeenInv'
  <2>1. CASE Step(r, "verify", "lookup") /\ UNCHANGED reply
    BY <1>7, <2>1, SeenStep DEF VerifyInternalCall, authVars, userVars, cacheVars
  <2>2. CASE Respond(r, 401)
    BY <1>7, <2>2, SeenRespond DEF VerifyInternalCall, authVars, userVars,
       cacheVars, Status
  <2> QED
    BY <1>7, <2>1, <2>2 DEF VerifyInternalCall
<1>8. ASSUME NEW r \in Reg, CacheLookup(r)
      PROVE  SeenInv'
  <2>1. CASE l1[r] # "miss" /\ Hit(r, l1[r]) /\ UNCHANGED l1
    BY <1>8, <2>1 DEF TypeOK, Handler, SeenInv, CacheLookup, Hit, authVars, userVars
  <2>2. CASE /\ l1[r] = "miss" /\ l2[r] # "miss"
             /\ Hit(r, l2[r])
             /\ l1' = [l1 EXCEPT ![r] = l2[r]]
    BY <1>8, <2>2 DEF TypeOK, Handler, SeenInv, CacheLookup, Hit, authVars, userVars
  <2>3. CASE Step(r, "lookup", "fetch") /\ UNCHANGED l1
    BY <1>8, <2>3, SeenStep DEF CacheLookup, authVars, userVars
  <2> QED
    BY <1>8, <2>1, <2>2, <2>3 DEF CacheLookup
<1>9. ASSUME NEW r \in Reg, CacheFetch(r)
      PROVE  SeenInv'
  BY <1>9 DEF TypeOK, SeenInv, Working, Ended, Cached, Status, HandlerPC,
     CacheFetch, FoundById, Resting, authVars, userVars, cacheVars
<1>10. ASSUME NEW r \in Reg, CacheFill(r)
      PROVE  SeenInv'
  BY <1>10 DEF TypeOK, SeenInv, Working, Ended, Cached, Status, HandlerPC,
     CacheFill, Step, Resting, authVars, userVars, cacheVars
<1>11. ASSUME NEW r \in Reg, Found(r)
      PROVE  SeenInv'
  <2>1. CASE h[r].got # None /\ Respond(r, 200)
    BY <1>11, <2>1, SeenRespond DEF Found, SeenInv, authVars, userVars,
       cacheVars, Status
  <2>2. CASE Respond(r, 500)
    BY <1>11, <2>2, SeenRespond DEF Found, authVars, userVars, cacheVars, Status
  <2>3. CASE Step(r, "found", "email") /\ UNCHANGED reply
    BY <1>11, <2>3, SeenStep DEF Found, authVars, userVars, cacheVars
  <2> QED
    BY <1>11, <2>1, <2>2, <2>3 DEF Found
<1>12. ASSUME NEW r \in Reg, ExistsByEmail(r)
      PROVE  SeenInv'
  <2>1. CASE Respond(r, 409)
    BY <1>12, <2>1, SeenRespond DEF ExistsByEmail, authVars, userVars, cacheVars,
       Status
  <2>2. CASE Step(r, "email", "write") /\ UNCHANGED reply
    BY <1>12, <2>2, SeenStep DEF ExistsByEmail, authVars, userVars, cacheVars
  <2> QED
    BY <1>12, <2>1, <2>2 DEF ExistsByEmail
<1>13. ASSUME NEW r \in Reg, WriteAccount(r)
      PROVE  SeenInv'
  BY <1>13 DEF TypeOK, SeenInv, Working, Ended, Cached, Status, HandlerPC,
     WriteAccount, Emit, Respond, Resting, DbError, authVars, userVars, cacheVars
<1>14. ASSUME NEW r \in Reg, HandlerFails(r)
      PROVE  SeenInv'
  BY <1>14 DEF TypeOK, SeenInv, Working, Ended, Cached, Status, HandlerPC,
     HandlerFails, Respond, Resting, DbError, authVars, userVars, cacheVars
<1>15. ASSUME NEW r \in Reg, Expire(r)
      PROVE  SeenInv'
  BY <1>15 DEF TypeOK, SeenInv, Working, Ended, Cached, Status, HandlerPC,
     Expire, authVars, userVars, cacheVars
<1>16. CASE UserServiceDies
  BY <1>16 DEF TypeOK, SeenInv, Working, Ended, Cached, Status, HandlerPC,
     UserServiceDies, Unanswered, Resting, authVars, userVars, cacheVars
<1>17. CASE AuthServiceDies
  BY <1>17 DEF TypeOK, SeenInv, Working, Ended, Cached, Status, HandlerPC,
     AuthServiceDies, authVars, userVars, cacheVars
<1>18. CASE UNCHANGED vars
  BY <1>18 DEF TypeOK, SeenInv, Working, Ended, Cached, Status, HandlerPC,
     vars
<1> QED
  BY <1>1, <1>2, <1>3, <1>4, <1>5, <1>6, <1>7, <1>8, <1>9, <1>10, <1>11,
     <1>12, <1>13, <1>14, <1>15, <1>16, <1>17, <1>18, NextCases

LEMMA SeenCorrect == Spec => []SeenInv
<1> QED
  BY InitType, TypeNext, InitSeen, SeenNext, PTL DEF Spec

\* A session is only issued for an account both services have under one id.
THEOREM SessionsHaveAccounts == Spec => []SessionHasAccount
<1>1. ASSUME CredInv, SeenInv
      PROVE  SessionHasAccount
  <2> SUFFICES ASSUME NEW r \in Reg, pc[r] \in {"issue", "session"}
               PROVE  cred = r /\ user = r
    BY DEF SessionHasAccount
  <2>1. cred = r
    BY <1>1 DEF CredInv, Working
  <2>2. user = r
    BY <1>1 DEF SeenInv
  <2> QED
    BY <2>1, <2>2
<1> QED
  BY <1>1, CredCorrect, SeenCorrect, PTL

(***************************************************************************)
(* The outbox.                                                             *)
(***************************************************************************)

LEMMA InitEvent == Init => EventIffStored
BY DEF Init, EventIffStored

LEMMA EventNext == TypeOK /\ EventIffStored /\ [Next]_vars => EventIffStored'
<1> SUFFICES ASSUME TypeOK, EventIffStored, [Next]_vars
             PROVE  EventIffStored'
  OBVIOUS
<1>1. ASSUME NEW r \in Reg, CreateCredential(r)
      PROVE  EventIffStored'
  BY <1>1 DEF TypeOK, EventIffStored, CreateCredential, Goto, authVars,
     userVars, cacheVars
<1>2. ASSUME NEW r \in Reg, Call(r)
      PROVE  EventIffStored'
  BY <1>2 DEF TypeOK, EventIffStored, Call, Goto, Resting, authVars,
     userVars, cacheVars
<1>3. ASSUME NEW r \in Reg, Answer(r)
      PROVE  EventIffStored'
  BY <1>3 DEF TypeOK, EventIffStored, Answer, Goto, GiveUp, Retryable,
     authVars, userVars, cacheVars
<1>4. ASSUME NEW r \in Reg, Compensate(r)
      PROVE  EventIffStored'
  BY <1>4 DEF TypeOK, EventIffStored, Compensate, Goto, DeleteById,
     authVars, userVars, cacheVars
<1>5. ASSUME NEW r \in Reg, IssueSession(r)
      PROVE  EventIffStored'
  BY <1>5 DEF TypeOK, EventIffStored, IssueSession, Goto, authVars,
     userVars, cacheVars
<1>6. ASSUME NEW r \in Reg, TimeOut(r)
      PROVE  EventIffStored'
  BY <1>6 DEF TypeOK, EventIffStored, TimeOut, Goto, GiveUp, Unanswered,
     authVars, userVars, cacheVars
<1>7. ASSUME NEW r \in Reg, VerifyInternalCall(r)
      PROVE  EventIffStored'
  BY <1>7 DEF TypeOK, EventIffStored, VerifyInternalCall, Step, Respond,
     Resting, authVars, userVars, cacheVars
<1>8. ASSUME NEW r \in Reg, CacheLookup(r)
      PROVE  EventIffStored'
  BY <1>8 DEF TypeOK, EventIffStored, CacheLookup, Step, Hit, Resting,
     authVars, userVars, cacheVars
<1>9. ASSUME NEW r \in Reg, CacheFetch(r)
      PROVE  EventIffStored'
  BY <1>9 DEF TypeOK, EventIffStored, CacheFetch, FoundById, Resting,
     authVars, userVars, cacheVars
<1>10. ASSUME NEW r \in Reg, CacheFill(r)
      PROVE  EventIffStored'
  BY <1>10 DEF TypeOK, EventIffStored, CacheFill, Step, Resting, authVars,
     userVars, cacheVars
<1>11. ASSUME NEW r \in Reg, Found(r)
      PROVE  EventIffStored'
  BY <1>11 DEF TypeOK, EventIffStored, Found, Step, Respond, Resting,
     authVars, userVars, cacheVars
<1>12. ASSUME NEW r \in Reg, ExistsByEmail(r)
      PROVE  EventIffStored'
  BY <1>12 DEF TypeOK, EventIffStored, ExistsByEmail, Step, Respond,
     Resting, authVars, userVars, cacheVars
<1>13. ASSUME NEW r \in Reg, WriteAccount(r)
      PROVE  EventIffStored'
  BY <1>13 DEF TypeOK, EventIffStored, WriteAccount, Emit, Respond, Resting, DbError,
     authVars, userVars, cacheVars
<1>14. ASSUME NEW r \in Reg, HandlerFails(r)
      PROVE  EventIffStored'
  BY <1>14 DEF TypeOK, EventIffStored, HandlerFails, Respond, Resting, DbError,
     authVars, userVars, cacheVars
<1>15. ASSUME NEW r \in Reg, Expire(r)
      PROVE  EventIffStored'
  BY <1>15 DEF TypeOK, EventIffStored, Expire, authVars, userVars, cacheVars
<1>16. CASE UserServiceDies
  BY <1>16 DEF TypeOK, EventIffStored, UserServiceDies, Unanswered, Resting,
     authVars, userVars, cacheVars
<1>17. CASE AuthServiceDies
  BY <1>17 DEF TypeOK, EventIffStored, AuthServiceDies, authVars, userVars,
     cacheVars
<1>18. CASE UNCHANGED vars
  BY <1>18 DEF TypeOK, EventIffStored, vars
<1> QED
  BY <1>1, <1>2, <1>3, <1>4, <1>5, <1>6, <1>7, <1>8, <1>9, <1>10, <1>11,
     <1>12, <1>13, <1>14, <1>15, <1>16, <1>17, <1>18, NextCases

\* user.registered is stored exactly with the account, and once.
THEOREM EventsMatchAccounts == Spec => []EventIffStored
<1> QED
  BY InitType, TypeNext, InitEvent, EventNext, PTL DEF Spec
=============================================================================
