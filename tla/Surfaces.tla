------------------------------ MODULE Surfaces ------------------------------
(***************************************************************************)
(* The three applications that sign in to one account of auth-service, and *)
(* the role each of their sessions acts under.  The storefront keeps its   *)
(* tokens itself; the seller and the admin dashboard share the cookies of  *)
(* one browser, so an answer that arrives late replaces a newer session.   *)
(* A session carries the roles its login read and one active role for its  *)
(* life; user-service may attach a role meanwhile.                         *)
(*                                                                         *)
(* Sessions models which tokens are current, Registration and Provisioning *)
(* how the account comes into being; here a registration that succeeds is  *)
(* one step, and a refresh is one that wins.                               *)
(***************************************************************************)
EXTENDS Clients

VARIABLES roles,       \* role of the credential, {} while there is none
          surfReq,     \* surfReq[c]: request c in flight, see Resting
          access,      \* the accessToken cookie
          refresh,     \* the refreshToken cookie
          storefront,  \* the tokens the storefront keeps
          inviters     \* sessions that passed the gate of createInvite (history)

surfVars == <<roles, surfReq, access, refresh, storefront, inviters>>
held == <<access, refresh, storefront, inviters>>

Surface == {"customer-web", "seller-web", "admin-web"}

\* The header X-Client-Type, "none" where there is none.
ClientType == Surface \cup {"none"}

AdminRole == {"ADMIN", "SUPER_ADMIN"}
Role == {"CUSTOMER", "SELLER"} \cup AdminRole

SurfaceOf == [CUSTOMER |-> "customer-web", SELLER |-> "seller-web",
              ADMIN |-> "admin-web", SUPER_ADMIN |-> "admin-web"]

\* What the tokens of a session say, and the surface it began on (history).
Token == [active : Role, roles : SUBSET Role, born : Surface]
NoToken == [active |-> "none", roles |-> {}, born |-> "none"]

\* "gate": the password was right and the row is read; "answer": the tokens
\* are on their way to the surface that asked; "bye": logout's answer is.
Resting == [at |-> "idle", for |-> "none", token |-> NoToken]

SurfTypeOK ==
    /\ roles \subseteq Role
    /\ surfReq \in [Client -> {Resting} \cup
          [at : {"gate", "answer", "bye"}, for : ClientType,
           token : Token \cup {NoToken} \cup
                   [active : {"none"}, roles : SUBSET Role, born : Surface]]]
    /\ {access, refresh, storefront} \subseteq Token \cup {NoToken}
    /\ inviters \subseteq Token

\* An admin was invited or bootstrapped, others register.
FirstRoles == {{}, {"ADMIN"}, {"SUPER_ADMIN"}}

SurfInit ==
    /\ roles \in FirstRoles
    /\ surfReq = [c \in Client |-> Resting]
    /\ access = NoToken /\ refresh = NoToken /\ storefront = NoToken
    /\ inviters = {}
-----------------------------------------------------------------------------
(* Signing in.                                                             *)

\* A wrong surface is refused, and audited when the header was there.
AssertClientSurface(expected, header) == header = expected

\* buildJwtPayload of what was read, answered to the surface that asked.
IssueSession(c, active) ==
    LET read == surfReq[c].token IN
    /\ surfReq' = [surfReq EXCEPT
         ![c].at = "answer", ![c].token = [read EXCEPT !.active = active]]
    /\ UNCHANGED <<roles, held>>

\* The request is refused: no such role, locked out, deleted.
Refuse(c) ==
    /\ surfReq[c].at = "gate"
    /\ surfReq' = [surfReq EXCEPT ![c] = Resting]
    /\ UNCHANGED <<roles, held>>

\* verifyRegistration of the storefront or the dashboard: the credential is
\* created with the one role of the surface.
Register(c, role) ==
    /\ surfReq[c] = Resting /\ roles = {}
    /\ roles' = {role}
    /\ surfReq' = [surfReq EXCEPT ![c] =
         [at |-> "answer", for |-> SurfaceOf[role],
          token |-> [active |-> role, roles |-> {role},
                     born |-> SurfaceOf[role]]]]
    /\ UNCHANGED held

VerifyCustomerRegistration(c, header) ==
    AssertClientSurface("customer-web", header) /\ Register(c, "CUSTOMER")

VerifySellerRegistration(c, header) ==
    AssertClientSurface("seller-web", header) /\ Register(c, "SELLER")

VerifyCredentials(c, surface, header) ==
    /\ AssertClientSurface(surface, header)
    /\ surfReq[c] = Resting /\ roles # {}
    /\ surfReq' = [surfReq EXCEPT ![c] =
         [at |-> "gate", for |-> surface,
          token |-> [active |-> "none", roles |-> roles, born |-> surface]]]
    /\ UNCHANGED <<roles, held>>

AtGate(c, surface) == surfReq[c].at = "gate" /\ surfReq[c].for = surface

CustomerLogin(c) ==
    /\ AtGate(c, "customer-web")
    /\ "CUSTOMER" \in surfReq[c].token.roles
    /\ IssueSession(c, "CUSTOMER")

SellerLogin(c) ==
    /\ AtGate(c, "seller-web")
    /\ "SELLER" \in surfReq[c].token.roles
    /\ IssueSession(c, "SELLER")

\* Mutant: every admin session gets the lower role.
PlainAdmin(read) == "ADMIN"

\* A super admin keeps the higher privilege.
HighestAdmin(read) == IF "SUPER_ADMIN" \in read THEN "SUPER_ADMIN" ELSE "ADMIN"

AdminLogin(c) ==
    /\ AtGate(c, "admin-web")
    /\ surfReq[c].token.roles \cap AdminRole # {}
    /\ IssueSession(c, HighestAdmin(surfReq[c].token.roles))
-----------------------------------------------------------------------------
(* What the browser and the storefront keep.                               *)

\* Tokens go into the body for the storefront and into the cookies for any
\* other header, the missing one included.
SendSessionResponse(c) ==
    LET t == surfReq[c].token IN
    /\ surfReq[c].at = "answer"
    /\ \/ /\ surfReq[c].for = "customer-web"
          /\ storefront' = t /\ UNCHANGED <<access, refresh>>
       \/ /\ surfReq[c].for # "customer-web"
          /\ access' = t /\ refresh' = t /\ UNCHANGED storefront
    /\ surfReq' = [surfReq EXCEPT ![c] = Resting]
    /\ UNCHANGED <<roles, inviters>>

\* A dashboard's request carries the cookie, which is preferred, and one of the
\* storefront its own token.
Carried(cookie) == {cookie, storefront} \ {NoToken}

\* The refreshed tokens say what the presented one said.
RefreshToken(c, header) ==
    /\ surfReq[c] = Resting
    /\ \E t \in Carried(refresh) :
          surfReq' = [surfReq EXCEPT ![c] =
             [at |-> "answer", for |-> header, token |-> t]]
    /\ UNCHANGED <<roles, held>>

Logout(c) ==
    /\ surfReq[c] = Resting
    /\ surfReq' = [surfReq EXCEPT ![c].at = "bye"]
    /\ UNCHANGED <<roles, held>>

\* Both cookies are cleared, whoever set them meanwhile.
ClearCookies(c) ==
    /\ surfReq[c].at = "bye"
    /\ access' = NoToken /\ refresh' = NoToken
    /\ surfReq' = [surfReq EXCEPT ![c] = Resting]
    /\ UNCHANGED <<roles, storefront, inviters>>

\* An hour, seven days, or the storefront forgets.
TokenEnds ==
    /\ \/ access' = NoToken /\ UNCHANGED <<refresh, storefront>>
       \/ refresh' = NoToken /\ UNCHANGED <<access, storefront>>
       \/ storefront' = NoToken /\ UNCHANGED <<access, refresh>>
    /\ UNCHANGED <<roles, surfReq, inviters>>

\* The answer is lost, or the browser does not take its cookies.
AnswerLost(c) ==
    /\ surfReq[c].at \in {"answer", "bye"}
    /\ surfReq' = [surfReq EXCEPT ![c] = Resting]
    /\ UNCHANGED <<roles, held>>
-----------------------------------------------------------------------------
(* What a session may do.                                                  *)

RequireRole(t, allowed) == t.active \in allowed

Authenticated == Carried(access)

\* The gate of createInvite; the invite itself is in Invites.
CreateInviteGate ==
    /\ \E t \in Authenticated :
          /\ RequireRole(t, {"SUPER_ADMIN"})
          /\ inviters' = inviters \cup {t}
    /\ UNCHANGED <<roles, surfReq, access, refresh, storefront>>

\* Admin identities never gain another role.
MayGainRole == roles # {} /\ roles \cap AdminRole = {}

\* addRoleToCredential for seller.profile_attached.
GainSeller ==
    /\ MayGainRole
    /\ roles' = roles \cup {"SELLER"}
    /\ UNCHANGED <<surfReq, held>>

SurfNext ==
    \/ \E c \in Client :
          \/ \E h \in ClientType :
                \/ VerifyCustomerRegistration(c, h)
                \/ VerifySellerRegistration(c, h) \/ RefreshToken(c, h)
                \/ \E s \in Surface : VerifyCredentials(c, s, h)
          \/ CustomerLogin(c) \/ SellerLogin(c) \/ AdminLogin(c) \/ Refuse(c)
          \/ SendSessionResponse(c) \/ AnswerLost(c)
          \/ Logout(c) \/ ClearCookies(c)
    \/ TokenEnds \/ CreateInviteGate \/ GainSeller
-----------------------------------------------------------------------------
\* Every session there is: kept, under way, or used for an invite.
Session ==
    ({access, refresh, storefront} \cup inviters \cup
     {surfReq[c].token : c \in {d \in Client : surfReq[d].at = "answer"}})
        \ {NoToken}

\* However answers overtake each other and roles arrive, a session acts under
\* a role that its login found and its account still has, of the surface it
\* began on; and no account is an admin and a customer or seller at once, so
\* no session of a customer ever created an invite.
SessionsKeepTheirRole ==
    /\ \A t \in Session : /\ t.active \in t.roles /\ t.roles \subseteq roles
                          /\ t.born = SurfaceOf[t.active]
    /\ roles \subseteq AdminRole \/ roles \cap AdminRole = {}
    /\ \A t \in inviters : t.born = "admin-web"
=============================================================================
