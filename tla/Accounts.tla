------------------------------ MODULE Accounts ------------------------------
(***************************************************************************)
(* One account in both services: user-service's records, and the           *)
(* credential of auth-service as a replica that follows user-service's     *)
(* events.  Events have different keys, so consumers of the group may      *)
(* handle them in any order, at the same time, and more than once.         *)
(* A restore starts in auth-service: an OTP is mailed to the owner of a    *)
(* deleted credential, and verifying it calls user-service.                *)
(*                                                                         *)
(* Sessions has the revocation of refresh tokens in detail; it is one call *)
(* that may fail here.  A wrong OTP changes nothing and is left out.       *)
(***************************************************************************)
EXTENDS UserRecords

CONSTANTS Consumer,  \* members of the group auth-service-user-sync
          Wire       \* what a message carries: "envelope" or "payload"

ASSUME AccountsAssumption == Wire \in {"envelope", "payload"}

VARIABLES cred,     \* the credential's isDeleted and whether it holds SELLER
          otp,      \* the key auth:restore:<id> is set
          handler,  \* handler[w]: "adding" between addRoleToCredential's
                    \* read and its update, else "idle"
          acked,    \* messages acknowledged at least once
          last      \* the change whose event marked the credential last (history)

authVars == <<cred, otp, handler, acked, last>>
vars == <<recordVars, authVars>>

TypeOK ==
    /\ RecordsTypeOK
    /\ pc \in [Request -> UserPC \cup {"verified"}]
    /\ cred \in [isDeleted : BOOLEAN, admin : BOOLEAN, seller : BOOLEAN]
    /\ otp \in BOOLEAN
    /\ handler \in [Consumer -> {"idle", "adding"}]
    /\ acked \subseteq events
    /\ last \in 0..Len(changes)

Init ==
    /\ RecordsInit
    /\ cred = [isDeleted |-> FALSE, admin |-> row.admin, seller |-> FALSE]
    /\ otp = FALSE
    /\ handler = [w \in Consumer |-> "idle"]
    /\ acked = {Registered}
    /\ last = 0
-----------------------------------------------------------------------------
(* handleRoleSyncMessage.                                                  *)

Acknowledge(m) == acked' = acked \cup {m}

Take(w, m) == handler[w] = "idle" /\ m \in events

\* What the handler finds in the message's eventType.
Recognised(m, type) == Wire = "envelope" /\ m.type = type

\* Any other eventType, or none, is acknowledged without effect.
IgnoreMessage(w, m) ==
    /\ Take(w, m)
    /\ \A type \in EventType \ {"user.registered"} : ~Recognised(m, type)
    /\ Acknowledge(m)
    /\ UNCHANGED <<recordVars, cred, otp, handler, last>>

\* Mutant: the tokens are revoked and the credential is not marked.
RevokeOnly(w, m) ==
    /\ Take(w, m) /\ Recognised(m, "user.deleted")
    /\ Acknowledge(m)
    /\ UNCHANGED <<recordVars, cred, otp, handler, last>>

\* The mark, and the revocation, which may fail and leave the message to be
\* delivered again.
MarkDeleted(w, m) ==
    /\ Take(w, m) /\ Recognised(m, "user.deleted")
    /\ cred' = [cred EXCEPT !.isDeleted = TRUE]
    /\ last' = m.change
    /\ \/ Acknowledge(m)
       \/ "request" \in Faults /\ UNCHANGED acked
    /\ UNCHANGED <<recordVars, otp, handler>>

\* Mutant: a restored account is not told apart from a deleted one.
MarkRestoredWrongly(w, m) ==
    /\ Take(w, m) /\ Recognised(m, "user.restored")
    /\ last' = m.change
    /\ Acknowledge(m)
    /\ UNCHANGED <<recordVars, cred, otp, handler>>

MarkRestored(w, m) ==
    /\ Take(w, m) /\ Recognised(m, "user.restored")
    /\ cred' = [cred EXCEPT !.isDeleted = FALSE]
    /\ last' = m.change
    /\ Acknowledge(m)
    /\ UNCHANGED <<recordVars, otp, handler>>

\* addRoleToCredential reads the credential: done if it has the role, or must
\* not have it.
HasOrRefusesRole(w, m) ==
    /\ Take(w, m) /\ Recognised(m, "seller.attached")
    /\ cred.seller \/ cred.admin
    /\ Acknowledge(m)
    /\ UNCHANGED <<recordVars, cred, otp, handler, last>>

\* Otherwise it has read roles without SELLER.
ReadRoles(w, m) ==
    /\ Take(w, m) /\ Recognised(m, "seller.attached")
    /\ ~cred.seller /\ ~cred.admin
    /\ handler' = [handler EXCEPT ![w] = "adding"]
    /\ UNCHANGED <<recordVars, cred, otp, acked, last>>

\* The update is conditional on the roles read, which lacked SELLER.
AddRoleIfUnchanged ==
    IF ~cred.seller THEN [cred EXCEPT !.seller = TRUE] ELSE cred

\* Lost or not, the message is acknowledged; the audit record that follows may
\* fail, and then it is not.
AddRole(w) ==
    /\ handler[w] = "adding"
    /\ cred' = AddRoleIfUnchanged
    /\ \/ Acknowledge([type |-> "seller.attached", change |-> 0])
       \/ "request" \in Faults /\ UNCHANGED acked
    /\ handler' = [handler EXCEPT ![w] = "idle"]
    /\ UNCHANGED <<recordVars, otp, last>>

\* A call throws or the process dies: the message will be delivered again.
HandlerFails(w) ==
    /\ "request" \in Faults
    /\ handler[w] = "adding"
    /\ handler' = [handler EXCEPT ![w] = "idle"]
    /\ UNCHANGED <<recordVars, cred, otp, acked, last>>
-----------------------------------------------------------------------------
(* requestAccountRestore and verifyAccountRestore.                         *)

RequestAccountRestore ==
    /\ cred.isDeleted /\ ~otp
    /\ otp' = TRUE
    /\ UNCHANGED <<recordVars, cred, handler, acked, last>>

OtpExpires ==
    /\ otp
    /\ otp' = FALSE
    /\ UNCHANGED <<recordVars, cred, handler, acked, last>>

\* findByEmail and the key, read and compared.
VerifyAccountRestore(r) ==
    /\ cred.isDeleted /\ otp
    /\ Goto(r, "idle", "verified")
    /\ ctx' = [ctx EXCEPT ![r].op = "restore"]
    /\ UNCHANGED <<userVars, cacheVars, authVars>>

\* The OTP goes before the call that may fail.
ForgetOtp(r) ==
    /\ Goto(r, "verified", "restore")
    /\ otp' = FALSE
    /\ UNCHANGED <<userVars, cacheVars, ctx, cred, handler, acked, last>>

\* The HTTP client repeats a call that was answered 5xx.
CallAgain(r) ==
    /\ "request" \in Faults
    /\ pc[r] \in {"restorable", "restored", "announce"}
    /\ pc' = [pc EXCEPT ![r] = "restore"]
    /\ ctx' = [ctx EXCEPT ![r] = [Idle EXCEPT !.op = "restore"]]
    /\ UNCHANGED <<userVars, cacheVars, authVars>>
-----------------------------------------------------------------------------
Handle(w, m) == \/ IgnoreMessage(w, m) \/ MarkDeleted(w, m)
                \/ MarkRestored(w, m)
                \/ HasOrRefusesRole(w, m) \/ ReadRoles(w, m)

Next ==
    \/ RecordsNext /\ UNCHANGED authVars
    \/ \E r \in Request : \/ VerifyAccountRestore(r) \/ ForgetOtp(r)
                          \/ CallAgain(r)
    \/ \E w \in Consumer : \/ \E m \in events : Handle(w, m)
                           \/ AddRole(w) \/ HandlerFails(w)
    \/ RequestAccountRestore \/ OtpExpires

Spec == Init /\ [][Next]_vars

\* What user-service began goes on, entries expire, and the group goes on until
\* each message is acknowledged; a redelivery need not come, nor a request.
FairSpec ==
    /\ Spec
    /\ \A r \in Request : WF_vars(UserStep(r) /\ UNCHANGED authVars)
    /\ WF_vars(ExpireHit /\ UNCHANGED authVars)
    /\ \A m \in Message :
          WF_vars(m \notin acked /\ \E w \in Consumer : Handle(w, m))
    /\ \A w \in Consumer : WF_vars(AddRole(w))
-----------------------------------------------------------------------------
(* Properties.                                                             *)

\* However becomeSeller requests and redelivered events interleave, SELLER is
\* attached once or not at all in user-service, never to an admin, and is in
\* the credential once the event is acknowledged, and only then possible:
\* losing the compare-and-set costs nothing, as only the same role is added.
SellerIsReplicated ==
    /\ row.sellers = (IF row.profile THEN 1 ELSE 0)
    /\ row.admin => ~row.profile /\ ~cred.seller
    /\ cred.seller => \E m \in events : m.type = "seller.attached"
    /\ Wire = "envelope" =>
          \A m \in acked : m.type = "seller.attached" => cred.seller

\* Every deletion in user-service has an event of its own (a restore may lose
\* its event), and no event announces what did not happen.
ChangesAreAnnounced ==
    /\ \A i \in 1..Len(changes) :
          changes[i] = "deleted" =>
              [type |-> "user.deleted", change |-> i] \in events
    /\ \A m \in events :
          m.type \in {"user.deleted", "user.restored"} =>
              /\ m.change \in 1..Len(changes)
              /\ m.type = (IF changes[m.change] = "deleted"
                             THEN "user.deleted" ELSE "user.restored")

\* The credential agrees with the row whenever the event applied last is the
\* event of the row's latest change: redelivery, reordering and failures make
\* it lag or go back, but never disagree with what it heard.
ReplicaConverges ==
    /\ ChangesAreAnnounced
    /\ row.state # "gone" /\ last = Len(changes)
          => cred.isDeleted = (row.state = "deleted")

\* Once an account is gone for good, its cached record goes too, though a read
\* that began before the deletion may store it after the invalidation.
StaleViewsFade == <>[](row.state # "active") => <>[](hit = "none")

\* ADR 0007: auth-service consumes user.deleted and marks the credential.
DeletionReachesCredential ==
    (row.state = "deleted") ~> (cred.isDeleted \/ row.state # "deleted")
=============================================================================
