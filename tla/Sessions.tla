------------------------------ MODULE Sessions ------------------------------
(***************************************************************************)
(* The sessions of one account in auth-service: password login with its    *)
(* lockout counter, refresh-token families in Redis with rotation and      *)
(* reuse detection, logout, and the consumer that applies user.deleted and *)
(* user.restored to the credential.  Several requests run at once; every   *)
(* database or Redis call ends a step.                                     *)
(*                                                                         *)
(* A refresh token is a JWT without a jti: its claims are the account's,   *)
(* the family and iat in whole seconds, so a family and a second name it.  *)
(* Its hash stands for the token.  isBlocked and isActive are read by      *)
(* completeLogin and written by nothing, and the role a surface asks for   *)
(* is one the account holds: these checks pass and are left out.           *)
(***************************************************************************)
EXTENDS Naturals, FiniteSets

CONSTANTS Family,       \* family ids (random UUIDs, one for each login)
          Request,      \* HTTP requests that may be in flight at once
          MaxAttempts,  \* MAX_LOGIN_ATTEMPTS
          LockDuration, \* LOCK_DURATION_MS, on the model's clock
          JwtTTL,       \* lifetime of a refresh token: REFRESH_TOKEN_EXPIRES_IN
          KeyTTL,       \* lifetime of its Redis key: REFRESH_TOKEN_TTL_SECONDS
          MaxTime,      \* bound: the clock stops here
          MaxFailures,  \* bound: wrong passwords tried
          MaxMessages,  \* bound: messages that wait at once
          Faults        \* failures that happen: "request", "consumer"

ASSUME SessionsAssumption ==
    /\ MaxAttempts \in Nat \ {0}
    /\ LockDuration \in Nat \ {0}
    /\ JwtTTL \in Nat \ {0} /\ KeyTTL \in Nat \ {0}
    /\ MaxTime \in Nat /\ MaxFailures \in Nat /\ MaxMessages \in Nat
    /\ Faults \subseteq {"request", "consumer"}

VARIABLES now,          \* seconds
          row,          \* the account's row of the credentials table
          store,        \* store[f]: the key auth:refresh:<account>:f
          issued,       \* refresh tokens signed so far; clients may hold any
          pc,           \* pc[r]: where request r is
          ctx,          \* ctx[r]: what request r has read
          pending,      \* pending[m]: messages of type m to be consumed
          sync,         \* the consumer's handler
          failures,     \* wrong passwords since the last login (history)
          tried,        \* wrong passwords in all (for the bound)
          rotated,      \* pairs <<old, new>> of successful rotations (history)
          flagged,      \* families whose reuse was detected (history)
          doomed        \* families that lived at a deletion (history)

clientVars  == <<issued, rotated, flagged>>
countVars   == <<failures, tried>>
syncVars    == <<pending, sync, doomed>>
requestVars == <<pc, ctx>>
vars == <<now, row, store, issued, pc, ctx, pending, sync, failures, tried,
          rotated, flagged, doomed>>

Token   == [family : Family, iat : Nat]
Absent  == [iat |-> 0, until |-> 0]
Message == {"user.deleted", "user.restored"}

\* lockedUntil 0 is null: it is never in the future.
Row == [isDeleted : BOOLEAN, failedLoginAttempts : Nat, lockedUntil : Nat]

Nothing    == [kind |-> "nothing"]
LoginCtx   == [kind : {"login"}, row : Row]
RefreshCtx == [kind : {"refresh"}, old : Token, new : Token]
RequestPC  == {"idle", "wrong", "lock", "verified", "issue", "rotate", "revoke"}

Live   == {f \in Family : store[f] # Absent}
Opened == {t.family : t \in issued}

TypeOK ==
    /\ now \in 1..(MaxTime + 1)
    /\ row \in Row
    /\ store \in [Family -> [iat : Nat, until : Nat]]
    /\ issued \subseteq Token
    /\ pc \in [Request -> RequestPC]
    /\ \A r \in Request :
          CASE pc[r] = "idle"                -> ctx[r] = Nothing
            [] pc[r] \in {"rotate", "revoke"} -> ctx[r] \in RefreshCtx
            [] OTHER                         -> ctx[r] \in LoginCtx
    /\ pending \in [Message -> Nat]
    /\ sync \in [pc : {"idle", "redeliver", "marked", "scan", "del"},
                 must : SUBSET Family, page : SUBSET Family, last : BOOLEAN]
    /\ failures \in Nat /\ tried \in Nat
    /\ rotated \subseteq Token \X Token
    /\ flagged \subseteq Family /\ doomed \subseteq Family

Resting(where) == [pc |-> where, must |-> {}, page |-> {}, last |-> FALSE]

Init ==
    /\ now = 1
    /\ row = [isDeleted |-> FALSE, failedLoginAttempts |-> 0, lockedUntil |-> 0]
    /\ store = [f \in Family |-> Absent]
    /\ issued = {}
    /\ pc = [r \in Request |-> "idle"]
    /\ ctx = [r \in Request |-> Nothing]
    /\ pending = [m \in Message |-> 0]
    /\ sync = Resting("idle")
    /\ failures = 0 /\ tried = 0
    /\ rotated = {}
    /\ flagged = {} /\ doomed = {}
-----------------------------------------------------------------------------
Goto(r, where, what) ==
    /\ pc' = [pc EXCEPT ![r] = where]
    /\ ctx' = [ctx EXCEPT ![r] = what]

\* Mutant: what a request has read outlives it.
FinishKeepsContext(r) == Goto(r, "idle", ctx[r])

Finish(r) == Goto(r, "idle", Nothing)

\* A second passes; Redis drops the keys that have expired.
Tick ==
    /\ now <= MaxTime
    /\ now' = now + 1
    /\ store' = [f \in Family |->
                    IF store[f].until > now' THEN store[f] ELSE Absent]
    /\ UNCHANGED <<row, clientVars, requestVars, countVars, syncVars>>

\* The process that serves r dies, or the call r waits for throws.
Abort(r) ==
    /\ "request" \in Faults
    /\ pc[r] # "idle"
    /\ Finish(r)
    /\ UNCHANGED <<now, row, store, clientVars, countVars, syncVars>>
-----------------------------------------------------------------------------
(* Login: verifyCredentials, handleFailedLogin, completeLogin, issueSession. *)

\* Bound: a family id is left for every login under way.
CanOpen ==
    Cardinality({r \in Request : pc[r] \in {"verified", "issue"}})
        < Cardinality(Family \ Opened)

\* findByEmail and the password comparison on the row it returned.
VerifyCredentials(r) ==
    /\ pc[r] = "idle"
    /\ \/ /\ CanOpen
          /\ Goto(r, "verified", [kind |-> "login", row |-> row])
          /\ UNCHANGED tried
       \/ /\ tried < MaxFailures
          /\ tried' = tried + 1
          /\ Goto(r, "wrong", [kind |-> "login", row |-> row])
    /\ UNCHANGED <<now, row, store, clientVars, failures, syncVars>>

\* Mutant: the counter is computed from the row that was read.
HandleFailedLoginStale(r) ==
    /\ pc[r] = "wrong"
    /\ row' = [row EXCEPT !.failedLoginAttempts =
                  ctx[r].row.failedLoginAttempts + 1]
    /\ failures' = failures + 1
    /\ IF row'.failedLoginAttempts >= MaxAttempts
          THEN Goto(r, "lock", ctx[r])
          ELSE Finish(r)
    /\ UNCHANGED <<now, store, clientVars, tried, syncVars>>

\* The increment is the database's; the lock is a second update.
HandleFailedLogin(r) ==
    /\ pc[r] = "wrong"
    /\ row' = [row EXCEPT !.failedLoginAttempts = @ + 1]
    /\ failures' = failures + 1
    /\ IF row'.failedLoginAttempts >= MaxAttempts
          THEN Goto(r, "lock", ctx[r])
          ELSE Finish(r)
    /\ UNCHANGED <<now, store, clientVars, tried, syncVars>>

LockAccount(r) ==
    /\ pc[r] = "lock"
    /\ row' = [row EXCEPT !.lockedUntil = now + LockDuration]
    /\ Finish(r)
    /\ UNCHANGED <<now, store, clientVars, countVars, syncVars>>

\* completeLogin looks at the row verifyCredentials returned.
Admitted(r) == ~ctx[r].row.isDeleted /\ ctx[r].row.lockedUntil <= now

RefuseLogin(r) ==
    /\ pc[r] = "verified"
    /\ ~Admitted(r)
    /\ Finish(r)
    /\ UNCHANGED <<now, row, store, clientVars, countVars, syncVars>>

ResetLoginAttempts(r) ==
    /\ pc[r] = "verified"
    /\ Admitted(r)
    /\ row' = [row EXCEPT !.failedLoginAttempts = 0, !.lockedUntil = 0]
    /\ failures' = 0
    /\ Goto(r, "issue", ctx[r])
    /\ UNCHANGED <<now, store, clientVars, tried, syncVars>>

Key(iat) == [iat |-> iat, until |-> now + KeyTTL]

IssueSession(r) ==
    /\ pc[r] = "issue"
    /\ \E f \in Family \ Opened :
          /\ store' = [store EXCEPT ![f] = Key(now)]
          /\ issued' = issued \cup {[family |-> f, iat |-> now]}
    /\ Finish(r)
    /\ UNCHANGED <<now, row, rotated, flagged, countVars, syncVars>>
-----------------------------------------------------------------------------
(* Refresh and logout.                                                     *)

Valid(t) == now < t.iat + JwtTTL

\* verifyToken and findActiveTokenHash; a match signs the next token.
RefreshRead(r, t) ==
    /\ pc[r] = "idle"
    /\ Valid(t)
    /\ store[t.family] # Absent
    /\ LET next == [kind |-> "refresh", old |-> t,
                    new |-> [family |-> t.family, iat |-> now]]
       IN  IF store[t.family].iat = t.iat
             THEN Goto(r, "rotate", next) /\ UNCHANGED flagged
             ELSE Goto(r, "revoke", next) /\ flagged' = flagged \cup {t.family}
    /\ UNCHANGED <<now, row, store, issued, rotated, countVars, syncVars>>

\* Mutants: the overwrite does not compare; it compares and a key that is
\* gone passes; it keeps the key's expiry.
WinsAlways(c)        == TRUE
WinsIfGone(c)        == store[c.old.family] = Absent
                            \/ store[c.old.family].iat = c.old.iat
KeyKeepsTTL(c)       == [iat |-> c.new.iat, until |-> store[c.old.family].until]

\* ROTATE_SCRIPT: the stored hash is still the presented token's.
Wins(c)   == store[c.old.family] # Absent /\ store[c.old.family].iat = c.old.iat
NewKey(c) == Key(c.new.iat)

RotateOk(r) ==
    /\ pc[r] = "rotate"
    /\ Wins(ctx[r])
    /\ store' = [store EXCEPT ![ctx[r].old.family] = NewKey(ctx[r])]
    /\ issued' = issued \cup {ctx[r].new}
    /\ rotated' = rotated \cup {<<ctx[r].old, ctx[r].new>>}
    /\ Finish(r)
    /\ UNCHANGED <<now, row, flagged, countVars, syncVars>>

RotateLost(r) ==
    /\ pc[r] = "rotate"
    /\ ~Wins(ctx[r])
    /\ Goto(r, "revoke", ctx[r])
    /\ flagged' = flagged \cup {ctx[r].old.family}
    /\ UNCHANGED <<now, row, store, issued, rotated, countVars, syncVars>>

RevokeTokenFamily(r) ==
    /\ pc[r] = "revoke"
    /\ store' = [store EXCEPT ![ctx[r].old.family] = Absent]
    /\ Finish(r)
    /\ UNCHANGED <<now, row, clientVars, countVars, syncVars>>

\* revokeRefreshToken decodes the token without verifying it.
Logout(r, t) ==
    /\ pc[r] = "idle"
    /\ store' = [store EXCEPT ![t.family] = Absent]
    /\ UNCHANGED <<now, row, clientVars, requestVars, countVars, syncVars>>
-----------------------------------------------------------------------------
(* handleRoleSyncMessage for user.deleted and user.restored.               *)

\* Messages are keyed by event id, not by account, and may be duplicated: the
\* consumer meets them in any order.
Arrive(m) ==
    /\ pending["user.deleted"] + pending["user.restored"] < MaxMessages
    /\ pending' = [pending EXCEPT ![m] = @ + 1]
    /\ UNCHANGED <<now, row, store, clientVars, requestVars, countVars, sync, doomed>>

Ack(m) == pending' = [pending EXCEPT ![m] = @ - 1]

MarkDeleted ==
    /\ \/ sync.pc = "redeliver"
       \/ sync.pc = "idle" /\ pending["user.deleted"] > 0
    /\ row' = [row EXCEPT !.isDeleted = TRUE]
    /\ sync' = Resting("marked")
    /\ doomed' = doomed \cup Live
    /\ UNCHANGED <<now, store, clientVars, requestVars, countVars, pending>>

\* Mutant: one SCAN call is taken for the whole iteration.
ScanEnds(unreturned) == TRUE

\* SCAN returns every key that is there from its first call to its last.
ScanMayEnd(unreturned) == unreturned \cap Live = {}

\* One SCAN call: a page of keys, and whether the cursor came back to 0.
RevokeAllScan ==
    /\ sync.pc \in {"marked", "scan"}
    /\ \E page \in SUBSET Live, last \in BOOLEAN :
          LET must == (IF sync.pc = "marked" THEN Live ELSE sync.must) \ page
          IN  /\ last => ScanMayEnd(must)
              /\ IF last /\ page = {}
                   THEN sync' = Resting("idle") /\ Ack("user.deleted")
                   ELSE /\ sync' = [pc |-> IF page = {} THEN "scan" ELSE "del",
                                    must |-> must, page |-> page, last |-> last]
                        /\ UNCHANGED pending
    /\ UNCHANGED <<now, row, store, clientVars, requestVars, countVars, doomed>>

RevokeAllDel ==
    /\ sync.pc = "del"
    /\ store' = [f \in Family |-> IF f \in sync.page THEN Absent ELSE store[f]]
    /\ IF sync.last
         THEN sync' = Resting("idle") /\ Ack("user.deleted")
         ELSE /\ sync' = [sync EXCEPT !.pc = "scan", !.page = {}]
              /\ UNCHANGED pending
    /\ UNCHANGED <<now, row, clientVars, requestVars, countVars, doomed>>

MarkRestored ==
    /\ sync.pc = "idle"
    /\ pending["user.restored"] > 0
    /\ row' = [row EXCEPT !.isDeleted = FALSE]
    /\ Ack("user.restored")
    /\ UNCHANGED <<now, store, clientVars, requestVars, countVars, sync, doomed>>

\* A call throws or the process dies: the broker delivers user.deleted again.
SyncFails ==
    /\ "consumer" \in Faults
    /\ sync.pc \in {"marked", "scan", "del"}
    /\ sync' = Resting("redeliver")
    /\ UNCHANGED <<now, row, store, clientVars, requestVars, countVars,
                   pending, doomed>>
-----------------------------------------------------------------------------
RequestStep(r) ==
    \/ VerifyCredentials(r)
    \/ HandleFailedLogin(r) \/ LockAccount(r)
    \/ RefuseLogin(r) \/ ResetLoginAttempts(r) \/ IssueSession(r)
    \/ \E t \in issued : RefreshRead(r, t) \/ Logout(r, t)
    \/ RotateOk(r) \/ RotateLost(r) \/ RevokeTokenFamily(r)
    \/ Abort(r)

SyncStep ==
    \/ \E m \in Message : Arrive(m)
    \/ MarkDeleted \/ RevokeAllScan \/ RevokeAllDel \/ MarkRestored \/ SyncFails

Next == Tick \/ SyncStep \/ \E r \in Request : RequestStep(r)

Spec == Init /\ [][Next]_vars
-----------------------------------------------------------------------------
(* Properties.                                                             *)

\* A family that was revoked, by logout, reuse detection, deletion or expiry,
\* never comes back, whatever refresh was in flight when it went.
RevokedStaysRevoked ==
    [][\A f \in Opened : store[f] = Absent => store'[f] = Absent]_vars

\* Refresh tokens behave as TokenFamilies has it, though rotations, logouts,
\* reuse detection and the deletion's scan run at once: the good tokens are
\* those whose hash is in Redis.
Promise == INSTANCE TokenFamilies WITH
    good <- {[family |-> f, iat |-> store[f].iat] : f \in Live}

TokensKeepPromise == Promise!Spec

\* Once the request that detected a reuse has finished, the family is dead for
\* every holder of its tokens (no request having died on the way).
ReuseEndsFamily ==
    \A f \in flagged :
        \/ store[f] = Absent
        \/ \E r \in Request : pc[r] = "revoke" /\ ctx[r].old.family = f

\* A token that was exchanged for a different one is never current again, so
\* that presenting it is always taken for reuse.
SpentTokensStayDead ==
    \A pair \in rotated :
        LET old == pair[1]
        IN  old # pair[2] /\ store[old.family] # Absent
              => store[old.family].iat # old.iat

\* A session ends only for a cause: its own client's logout, a detected reuse of
\* its tokens, the deletion of its account, or KeyTTL seconds without a login
\* or rotation.  No refresh under way, no scan of an account restored since and
\* no expiry left over from an earlier rotation ends another.
SessionEndsForCause ==
    [][\A f \in Live : store'[f] = Absent =>
          \/ now' >= store[f].iat + KeyTTL
          \/ f \in flagged
          \/ row.isDeleted /\ f \in sync.page
          \/ \E r \in Request, t \in issued : Logout(r, t) /\ t.family = f]_vars

\* When the consumer is done with user.deleted, every family that lived when
\* the account was marked is revoked, though rotations rewrite keys during
\* the scan and the message may be redelivered half way.
DeletionRevokesExisting ==
    sync.pc = "idle" => doomed \cap Live = {}

\* The counter is the number of wrong passwords since the last login, however
\* many requests count at once; at the limit, the account has a lock date or
\* a request is about to write it (no request having died on the way).
FailuresAreCounted ==
    /\ row.failedLoginAttempts = failures
    /\ row.failedLoginAttempts >= MaxAttempts =>
          \/ row.lockedUntil > 0
          \/ \E r \in Request : pc[r] = "lock"
=============================================================================
