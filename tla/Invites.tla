------------------------------ MODULE Invites -------------------------------
(***************************************************************************)
(* The admin invites of one email: created, looked at, and accepted, which *)
(* creates the ADMIN credential and consumes the invite in one             *)
(* transaction, creates the profile in user-service by a call, and undoes  *)
(* the transaction when the call fails.                                    *)
(*                                                                         *)
(* user-service is its row of this email: Provisioning has the call, its   *)
(* retries and its idempotence in detail.  Ids of credentials are 1, 2, ..;*)
(* 0 is none.  The calls of one process run through a circuit breaker,     *)
(* whose refusal is a failed call here.                                    *)
(***************************************************************************)
EXTENDS Clients

CONSTANTS Invite,      \* invites of the email; several may be pending
          MaxAccepts   \* bound: credentials created in all

ASSUME InvitesAssumption == MaxAccepts \in Nat

VARIABLES invites,       \* invites[i]: status, consumedById, and expiresAt past
          adminCred,     \* the credential of the email
          adminProfile,  \* the id of the email's row in user-service
          adminIds,      \* credentials created so far
          acceptPc,      \* acceptPc[c]: where request c is
          acceptOf,      \* acceptOf[c]: the invite and the id c works with
          accepted       \* ids whose acceptInvite returned (history)

inviteVars == <<invites, adminCred, adminProfile, adminIds, acceptPc, acceptOf,
                accepted>>

Id == 0..MaxAccepts

InviteStatus == {"none", "PENDING", "CONSUMED", "EXPIRED"}

InvitesTypeOK ==
    /\ invites \in [Invite -> [status : InviteStatus, by : Id, overdue : BOOLEAN]]
    /\ adminCred \in Id /\ adminProfile \in Id /\ adminIds \in Id
    /\ acceptPc \in [Client -> {"idle", "expire", "findEmail", "consume",
                                "profile", "undo"}]
    /\ acceptOf \in [Client -> [invite : Invite \cup {"none"}, id : Id]]
    /\ accepted \subseteq Id

NoAccept == [invite |-> "none", id |-> 0]

InvitesInit ==
    /\ invites = [i \in Invite |-> [status |-> "none", by |-> 0, overdue |-> FALSE]]
    /\ adminCred = 0 /\ adminProfile = 0 /\ adminIds = 0
    /\ acceptPc = [c \in Client |-> "idle"]
    /\ acceptOf = [c \in Client |-> NoAccept]
    /\ accepted = {}

Leave(c, from) ==
    /\ Moves(acceptPc, c, from, "idle")
    /\ acceptOf' = [acceptOf EXCEPT ![c] = NoAccept]

inviteRows == <<invites, adminCred, adminProfile, adminIds, accepted>>
-----------------------------------------------------------------------------
\* findByEmail, and the transaction of the invite, its audit and its event.
CreateInvite(i) ==
    /\ adminCred = 0
    /\ invites[i].status = "none"
    /\ invites' = [invites EXCEPT ![i].status = "PENDING"]
    /\ UNCHANGED <<adminCred, adminProfile, adminIds, accepted, acceptPc, acceptOf>>

TimePasses(i) ==
    /\ invites[i].status # "none" /\ ~invites[i].overdue
    /\ invites' = [invites EXCEPT ![i].overdue = TRUE]
    /\ UNCHANGED <<adminCred, adminProfile, adminIds, accepted, acceptPc, acceptOf>>

\* validateInvite and acceptInvite find the invite overdue.
FindOverdue(c, i) ==
    /\ invites[i].status = "PENDING" /\ invites[i].overdue
    /\ Moves(acceptPc, c, "idle", "expire")
    /\ acceptOf' = [acceptOf EXCEPT ![c].invite = i]
    /\ UNCHANGED inviteRows

MarkExpired(c) ==
    LET i == acceptOf[c].invite IN
    /\ Leave(c, "expire")
    /\ \/ /\ invites[i].status = "PENDING"
          /\ invites' = [invites EXCEPT ![i].status = "EXPIRED"]
       \/ invites[i].status # "PENDING" /\ UNCHANGED invites
    /\ UNCHANGED <<adminCred, adminProfile, adminIds, accepted>>
-----------------------------------------------------------------------------
(* acceptInvite.                                                           *)

FindInvite(c, i) ==
    /\ invites[i].status = "PENDING" /\ ~invites[i].overdue
    /\ Moves(acceptPc, c, "idle", "findEmail")
    /\ acceptOf' = [acceptOf EXCEPT ![c].invite = i]
    /\ UNCHANGED inviteRows

FindEmail(c) ==
    /\ \/ adminCred # 0 /\ Leave(c, "findEmail")
       \/ adminCred = 0 /\ Moves(acceptPc, c, "findEmail", "consume")
          /\ UNCHANGED acceptOf
    /\ UNCHANGED inviteRows

\* markConsumed's updateMany finds the row.
StillPending(i) == invites[i].status = "PENDING"

\* The transaction; without the row of the invite, or with the email taken, it
\* is rolled back.
Consume(c) ==
    LET i  == acceptOf[c].invite
        id == adminIds + 1
    IN
    /\ Moves(acceptPc, c, "consume", "profile")
    /\ adminCred = 0 /\ StillPending(i)
    /\ adminIds < MaxAccepts
    /\ adminIds' = id
    /\ adminCred' = id
    /\ invites' = [invites EXCEPT ![i].status = "CONSUMED", ![i].by = id]
    /\ acceptOf' = [acceptOf EXCEPT ![c].id = id]
    /\ UNCHANGED <<adminProfile, accepted>>

RollBack(c) ==
    /\ Leave(c, "consume")
    /\ adminCred # 0 \/ ~StillPending(acceptOf[c].invite)
    /\ UNCHANGED inviteRows

\* The row may be created and the answer lost; a row of the email with another
\* id is a conflict.
CreateProfile(c) ==
    LET id == acceptOf[c].id IN
    /\ \/ /\ adminProfile \in {0, id}
          /\ Leave(c, "profile")
          /\ adminProfile' = id
          /\ accepted' = accepted \cup {id}
       \/ /\ Moves(acceptPc, c, "profile", "undo")
          /\ adminProfile' \in {adminProfile, IF adminProfile = 0 THEN id ELSE adminProfile}
          /\ UNCHANGED <<acceptOf, accepted>>
    /\ UNCHANGED <<invites, adminCred, adminIds>>

\* reopen is guarded by consumedById.
Reopen(i, id) ==
    IF invites[i].status = "CONSUMED" /\ invites[i].by = id
    THEN [invites EXCEPT ![i].status = "PENDING", ![i].by = 0]
    ELSE invites

\* Mutant: the compensation forgets the invite.
UndoCredential(c) ==
    /\ Leave(c, "undo")
    /\ adminCred' = IF adminCred = acceptOf[c].id THEN 0 ELSE adminCred
    /\ UNCHANGED <<invites, adminProfile, adminIds, accepted>>

\* The compensation, one transaction; it may fail, and all stays.
Undo(c) ==
    LET id == acceptOf[c].id IN
    /\ Leave(c, "undo")
    /\ \/ /\ adminCred = id
          /\ adminCred' = 0
          /\ invites' = Reopen(acceptOf[c].invite, id)
       \/ UNCHANGED <<adminCred, invites>>
    /\ UNCHANGED <<adminProfile, adminIds, accepted>>

InvitesNext ==
    \/ \E i \in Invite : CreateInvite(i) \/ TimePasses(i)
    \/ \E c \in Client :
          \/ \E i \in Invite : FindOverdue(c, i) \/ FindInvite(c, i)
          \/ MarkExpired(c) \/ FindEmail(c) \/ Consume(c) \/ RollBack(c)
          \/ CreateProfile(c) \/ Undo(c)
-----------------------------------------------------------------------------
\* However acceptances of one or several invites of an email overlap, fail and
\* are undone: the credential there is was bought with exactly one invite, no
\* invite is spent without it, and an acceptance that returned leaves the
\* credential and its profile, which nobody undoes.
InvitesBuyAdmins ==
    /\ \A i \in Invite :
          invites[i].status = "CONSUMED" =>
              invites[i].by # 0 /\ adminCred = invites[i].by
    /\ adminCred # 0 =>
          \E i \in Invite : /\ invites[i].status = "CONSUMED"
                            /\ invites[i].by = adminCred
    /\ \A id \in accepted : adminCred = id /\ adminProfile = id
=============================================================================
