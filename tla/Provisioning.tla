---------------------------- MODULE Provisioning ----------------------------
(***************************************************************************)
(* Creating an account across two services.  auth-service's                *)
(* completeRegistration creates the credential and asks user-service for   *)
(* the user record over HTTP, retrying on 5xx and compensating with a      *)
(* delete; user-service's provisionAccount looks the id up through its     *)
(* two-level cache, writes the account in one transaction and reads it     *)
(* back through the same cache.  All registrations are for one email       *)
(* address (both tables have it unique).  A registration's id is the uuid  *)
(* its credential gets, so it also names the user row.                     *)
(***************************************************************************)
EXTENDS Naturals, FiniteSets

CONSTANTS Reg,       \* registrations, each the id of its credential
          None,      \* no row
          MaxCalls,  \* bound: calls one HMAC timestamp is accepted for
                     \* (five minutes in verifyInternalCall)
          Faults     \* failures that happen, see FaultKind

\* "redis": a Redis call fails; "db": a database call fails unapplied;
\* "dback": it is applied and reported as failed; "net": a call is lost,
\* refused by the breaker or outlasts the client's timeout; "crash": a
\* service dies in the middle of a request.
FaultKind == {"redis", "db", "dback", "net", "crash"}

\* HTTP statuses; 500 stands for every status the interceptor retries.
Status == {200, 400, 401, 409, 500}

ASSUME ProvisioningAssumption ==
    /\ None \notin Reg \cup Status
    /\ MaxCalls \in Nat \ {0}
    /\ Faults \subseteq FaultKind

VARIABLES cred,    \* auth-service: the credential row of the email
          user,    \* user-service: the user row of the email
          events,  \* events[r]: user.registered rows in the outbox
          l1,      \* l1[r]: in-memory cache for r's profile key, 100 ms
          l2,      \* l2[r]: Redis cache for r's profile key
          pc,      \* pc[r]: where completeRegistration is
          h,       \* h[r]: the request handler of user-service for r
          reply,   \* reply[r]: the HTTP response under way
          calls    \* calls[r]: HTTP calls sent, counted up to MaxCalls + 1

authVars == <<cred, pc, calls>>
userVars == <<user, events>>
cacheVars == <<l1, l2>>
vars == <<cred, user, events, l1, l2, pc, h, reply, calls>>

\* The positive and the negative key of an id, the positive one read first.
Cached    == {"miss", "absent", "user"}
\* "stuck": the delete that compensates failed.
Working   == {"call", "waiting", "compensate", "issue"}
Ended     == {"refused", "failed", "stuck", "session", "dead"}
HandlerPC == {"idle", "verify", "lookup", "fetch", "fill", "found",
              "email", "write"}

\* reread: the second findUserById; got: the row findUserById returns.
Handler == [pc : HandlerPC, reread : BOOLEAN, got : Reg \cup {None}]
Resting == [pc |-> "idle", reread |-> FALSE, got |-> None]

\* One response or one running handler at a time answers a call.
OneAnswer == \A r \in Reg : reply[r] # None => pc[r] = "waiting" /\ h[r] = Resting

TypeOK ==
    /\ cred \in Reg \cup {None} /\ user \in Reg \cup {None}
    /\ events \in [Reg -> Nat]
    /\ l1 \in [Reg -> Cached] /\ l2 \in [Reg -> Cached]
    /\ pc \in [Reg -> {"idle"} \cup Working \cup Ended]
    /\ h \in [Reg -> Handler]
    /\ reply \in [Reg -> Status \cup {None}]
    /\ calls \in [Reg -> 0..(MaxCalls + 1)]
    /\ OneAnswer

Init ==
    /\ cred = None /\ user = None
    /\ events = [r \in Reg |-> 0]
    /\ l1 = [r \in Reg |-> "miss"] /\ l2 = [r \in Reg |-> "miss"]
    /\ pc = [r \in Reg |-> "idle"]
    /\ h = [r \in Reg |-> Resting]
    /\ reply = [r \in Reg |-> None]
    /\ calls = [r \in Reg |-> 0]
-----------------------------------------------------------------------------
Goto(r, where) == pc' = [pc EXCEPT ![r] = where]

\* prisma.credential.create, before the try block: whatever it throws ends
\* the request without compensation.
CreateCredential(r) ==
    /\ pc[r] = "idle"
    /\ \/ cred = None /\ cred' = r /\ Goto(r, "call")
       \/ cred # None /\ Goto(r, "refused") /\ UNCHANGED cred
       \/ "db" \in Faults /\ Goto(r, "refused") /\ UNCHANGED cred
       \/ "dback" \in Faults /\ cred = None /\ cred' = r /\ Goto(r, "refused")
    /\ UNCHANGED <<userVars, cacheVars, h, reply, calls>>

\* userServiceClient.post starts a handler in user-service.
Call(r) ==
    /\ pc[r] = "call"
    /\ calls' = [calls EXCEPT ![r] = IF @ > MaxCalls THEN @ ELSE @ + 1]
    /\ Goto(r, "waiting")
    /\ h' = [h EXCEPT ![r] = [Resting EXCEPT !.pc = "verify"]]
    /\ UNCHANGED <<cred, userVars, cacheVars, reply>>

\* Mutant: only an answer is compensated, not a call that got none.
GiveUpOnAnswer(r) ==
    Goto(r, IF reply[r] = None THEN "failed" ELSE "compensate")

\* Every error but the ones the interceptor retries reaches the catch block.
GiveUp(r) == Goto(r, "compensate")

Unanswered == {r \in Reg : pc[r] = "waiting" /\ reply[r] = None}

\* The breaker is open, the connection is refused, or the answer takes more
\* than ten seconds: no status, so no retry.  The handler goes on.
TimeOut(r) ==
    /\ "net" \in Faults
    /\ \/ pc[r] = "call"
       \/ r \in Unanswered
    /\ GiveUp(r)
    /\ UNCHANGED <<cred, userVars, cacheVars, h, reply, calls>>

\* user-service dies with its handlers: their connections are reset.
UserServiceDies ==
    /\ "crash" \in Faults
    /\ \E r \in Reg : h[r] # Resting
    /\ h' = [r \in Reg |-> Resting]
    /\ l1' = [r \in Reg |-> "miss"]
    /\ pc' = [r \in Reg |-> IF r \in Unanswered THEN "compensate" ELSE pc[r]]
    /\ UNCHANGED <<cred, userVars, l2, reply, calls>>

\* Mutant: every error status is sent again.
RetryableAll == Status \ {200}

Retryable == {500}

\* The response interceptor: a retryable status sends the same config again.
\* retryCount is lost on the way, the request interceptor replaces metadata.
Answer(r) ==
    /\ pc[r] = "waiting" /\ reply[r] # None
    /\ reply' = [reply EXCEPT ![r] = None]
    /\ \/ reply[r] = 200 /\ Goto(r, "issue")
       \/ reply[r] \in Retryable /\ Goto(r, "call")
       \/ reply[r] \notin Retryable \cup {200} /\ GiveUp(r)
    /\ UNCHANGED <<cred, userVars, cacheVars, h, calls>>

DeleteById(r) == IF cred = r THEN None ELSE cred

\* The catch block: delete by id; if the delete throws, so does the request.
Compensate(r) ==
    /\ pc[r] = "compensate"
    /\ \/ cred' = DeleteById(r) /\ Goto(r, "failed")
       \/ "db" \in Faults /\ Goto(r, "stuck") /\ UNCHANGED cred
       \/ "dback" \in Faults /\ cred' = DeleteById(r) /\ Goto(r, "stuck")
    /\ UNCHANGED <<userVars, cacheVars, h, reply, calls>>

IssueSession(r) ==
    /\ pc[r] = "issue"
    /\ Goto(r, "session")
    /\ UNCHANGED <<cred, userVars, cacheVars, h, reply, calls>>

\* auth-service dies: nothing resumes its registrations.
AuthServiceDies ==
    /\ "crash" \in Faults
    /\ \E r \in Reg : pc[r] \in Working
    /\ pc' = [r \in Reg |-> IF pc[r] \in Working THEN "dead" ELSE pc[r]]
    /\ reply' = [r \in Reg |-> None]
    /\ UNCHANGED <<cred, userVars, cacheVars, h, calls>>
-----------------------------------------------------------------------------
Step(r, from, to) ==
    /\ h[r].pc = from
    /\ h' = [h EXCEPT ![r].pc = to]

\* Mutant: the handler goes on after it has answered.
RespondAndRun(r, status) ==
    /\ h' = h
    /\ reply' = [reply EXCEPT ![r] = IF pc[r] = "waiting" THEN status ELSE None]

\* The handler ends; its answer is dropped when nobody waits for it.
Respond(r, status) ==
    /\ h' = [h EXCEPT ![r] = Resting]
    /\ reply' = [reply EXCEPT ![r] = IF pc[r] = "waiting" THEN status ELSE None]

\* What globalErrorHandler makes of a database error.
DbError == {400, 500}

\* A database call of the handler throws.
HandlerFails(r) ==
    /\ "db" \in Faults
    /\ h[r].pc \in {"fetch", "email", "write"}
    /\ \E s \in DbError : Respond(r, s)
    /\ UNCHANGED <<authVars, userVars, cacheVars>>

\* verifyInternalCall: a retry carries the first call's timestamp.
VerifyInternalCall(r) ==
    /\ h[r].pc = "verify"
    /\ \/ calls[r] <= MaxCalls /\ Step(r, "verify", "lookup") /\ UNCHANGED reply
       \/ calls[r] > MaxCalls /\ Respond(r, 401)
    /\ UNCHANGED <<authVars, userVars, cacheVars>>

Hit(r, what) ==
    h' = [h EXCEPT ![r].pc = "found",
                   ![r].got = IF what = "user" THEN r ELSE None]

\* cacheGet up to the fetch; a hit in Redis is copied into memory.
CacheLookup(r) ==
    /\ h[r].pc = "lookup"
    /\ \/ l1[r] # "miss" /\ Hit(r, l1[r]) /\ UNCHANGED l1
       \/ /\ l1[r] = "miss" /\ l2[r] # "miss"
          /\ Hit(r, l2[r])
          /\ l1' = [l1 EXCEPT ![r] = l2[r]]
       \/ /\ l1[r] = "miss"
          /\ l2[r] = "miss" \/ "redis" \in Faults
          /\ Step(r, "lookup", "fetch") /\ UNCHANGED l1
    /\ UNCHANGED <<authVars, userVars, l2, reply>>

\* Mutant: the lookup is by email.
FoundByEmail(r) == user

\* What the row lookup by id returns.
FoundById(r) == IF user = r THEN r ELSE None

CacheFetch(r) ==
    /\ h[r].pc = "fetch"
    /\ h' = [h EXCEPT ![r].pc = "fill", ![r].got = FoundById(r)]
    /\ UNCHANGED <<authVars, userVars, cacheVars, reply>>

\* cacheGet after the fetch: "not found" is cached like a record.
CacheFill(r) ==
    LET what == IF h[r].got = None THEN "absent" ELSE "user" IN
    /\ Step(r, "fill", "found")
    /\ l1' = [l1 EXCEPT ![r] = what]
    /\ \/ l2' = [l2 EXCEPT ![r] = IF @ = "user" THEN @ ELSE what]
       \/ "redis" \in Faults /\ UNCHANGED l2
    /\ UNCHANGED <<authVars, userVars, reply>>

\* What findUserById returned: the first time an existing record is the
\* answer, the second time a missing one is an internal error.
Found(r) ==
    /\ h[r].pc = "found"
    /\ \/ h[r].got # None /\ Respond(r, 200)
       \/ h[r].got = None /\ h[r].reread /\ Respond(r, 500)
       \/ /\ h[r].got = None /\ ~h[r].reread
          /\ Step(r, "found", "email") /\ UNCHANGED reply
    /\ UNCHANGED <<authVars, userVars, cacheVars>>

ExistsByEmail(r) ==
    /\ h[r].pc = "email"
    /\ \/ user # None /\ Respond(r, 409)
       \/ user = None /\ Step(r, "email", "write") /\ UNCHANGED reply
    /\ UNCHANGED <<authVars, userVars, cacheVars>>

\* Mutant: the event is not written with the transaction's client.
EmitAnyway(r, committed) == events' = [events EXCEPT ![r] = @ + 1]

Emit(r, committed) ==
    events' = [events EXCEPT ![r] = IF committed THEN @ + 1 ELSE @]

\* The transaction: user row, role profile, audit log, user.registered.
WriteAccount(r) ==
    /\ h[r].pc = "write"
    /\ \/ /\ user = None
          /\ user' = r /\ Emit(r, TRUE)
          /\ \/ /\ h' = [h EXCEPT ![r].pc = "lookup", ![r].reread = TRUE]
                /\ UNCHANGED reply
             \/ "dback" \in Faults /\ \E s \in DbError : Respond(r, s)
       \/ /\ user # None
          /\ Emit(r, FALSE) /\ Respond(r, 409) /\ UNCHANGED user
    /\ UNCHANGED <<authVars, cacheVars>>

\* 100 ms, and 60 s or 300 s.
Expire(r) ==
    /\ \/ l1[r] # "miss" /\ l1' = [l1 EXCEPT ![r] = "miss"] /\ UNCHANGED l2
       \/ l2[r] # "miss" /\ l2' = [l2 EXCEPT ![r] = "miss"] /\ UNCHANGED l1
    /\ UNCHANGED <<authVars, userVars, h, reply>>
-----------------------------------------------------------------------------
AuthStep(r) ==
    Call(r) \/ Answer(r) \/ Compensate(r) \/ IssueSession(r)

HandlerStep(r) ==
    \/ VerifyInternalCall(r) \/ CacheLookup(r) \/ CacheFetch(r) \/ CacheFill(r)
    \/ Found(r) \/ ExistsByEmail(r) \/ WriteAccount(r)

Next ==
    \/ \E r \in Reg : \/ CreateCredential(r) \/ AuthStep(r) \/ TimeOut(r)
                      \/ HandlerStep(r) \/ HandlerFails(r) \/ Expire(r)
    \/ UserServiceDies
    \/ AuthServiceDies

Spec == Init /\ [][Next]_vars

\* Both services keep running what they started; clients come or do not.
FairSpec ==
    /\ Spec
    /\ \A r \in Reg : WF_vars(AuthStep(r)) /\ WF_vars(HandlerStep(r))
-----------------------------------------------------------------------------
(***************************************************************************)
(* Properties.                                                             *)
(***************************************************************************)

\* A session is only issued for an account that both services have, under
\* one id: provisionAccount is idempotent by id, never by email.
SessionHasAccount ==
    \A r \in Reg : pc[r] \in {"issue", "session"} => cred = r /\ user = r

\* user.registered is in the outbox exactly for the account that was stored,
\* once, whatever was retried, timed out or rolled back.
EventIffStored == \A r \in Reg : events[r] = (IF user = r THEN 1 ELSE 0)

\* A registration that failed, however the call went, left no credential
\* behind unless the compensating delete itself failed.
FailureIsCompensated == \A r \in Reg : pc[r] = "failed" => cred # r

\* A registration ends: the timeout, the signature's age and the catch block
\* leave no way to wait or to retry for ever.
RegistrationEnds == \A r \in Reg : (pc[r] = "call") ~> (pc[r] \in Ended)
=============================================================================
