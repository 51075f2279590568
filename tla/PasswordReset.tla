---------------------------- MODULE PasswordReset ---------------------------
(***************************************************************************)
(* One password reset token of auth-service: created, mailed, and used to  *)
(* set a password.  The token is read in one command and marked used in    *)
(* another, in the transaction that writes the password.                   *)
(***************************************************************************)
EXTENDS Clients

VARIABLES resetToken,   \* the row: "none", "fresh" or "used"
          resetOverdue, \* its expiresAt is past
          resetMailed,  \* its event is in the outbox
          resetPc,      \* resetPc[c]: where request c is
          resetUses     \* resetUses[c]: passwords c set with it (history)

resetVars == <<resetToken, resetOverdue, resetMailed, resetPc, resetUses>>

ResetTypeOK ==
    /\ resetToken \in {"none", "fresh", "used"}
    /\ resetOverdue \in BOOLEAN /\ resetMailed \in BOOLEAN
    /\ resetPc \in [Client -> {"idle", "announcing", "hashing"}]
    /\ resetUses \in [Client -> Nat]

ResetInit ==
    /\ resetToken = "none" /\ resetOverdue = FALSE /\ resetMailed = FALSE
    /\ resetPc = [c \in Client |-> "idle"]
    /\ resetUses = [c \in Client |-> 0]

RequestPasswordReset(c) ==
    /\ Moves(resetPc, c, "idle", "announcing")
    /\ resetToken = "none" /\ resetToken' = "fresh"
    /\ UNCHANGED <<resetOverdue, resetMailed, resetUses>>

\* The event has a transaction of its own, which may fail.
AnnounceReset(c) ==
    /\ Moves(resetPc, c, "announcing", "idle")
    /\ resetMailed' \in BOOLEAN
    /\ UNCHANGED <<resetToken, resetOverdue, resetUses>>

ResetExpires ==
    /\ resetToken # "none" /\ ~resetOverdue
    /\ resetOverdue' = TRUE
    /\ UNCHANGED <<resetToken, resetMailed, resetPc, resetUses>>

\* findUnique and the two refusals; the token is known from its mail only.
ReadReset(c) ==
    /\ resetMailed /\ resetToken = "fresh" /\ ~resetOverdue
    /\ Moves(resetPc, c, "idle", "hashing")
    /\ UNCHANGED <<resetToken, resetOverdue, resetMailed, resetUses>>

\* The transaction asks nothing of the row again.
SetPassword(c) ==
    /\ Moves(resetPc, c, "hashing", "idle")
    /\ resetToken' = "used"
    /\ resetUses' = [resetUses EXCEPT ![c] = @ + 1]
    /\ UNCHANGED <<resetOverdue, resetMailed>>

ResetFails(c) ==
    /\ Moves(resetPc, c, "hashing", "idle")
    /\ UNCHANGED <<resetToken, resetOverdue, resetMailed, resetUses>>

ResetNext ==
    \/ \E c \in Client : \/ RequestPasswordReset(c) \/ AnnounceReset(c)
                         \/ ReadReset(c) \/ SetPassword(c) \/ ResetFails(c)
    \/ ResetExpires
-----------------------------------------------------------------------------
\* usedAt is read before the password is hashed and not asked again in the
\* transaction, so a token may set more than one password; but only requests
\* that had read it before its first use do so, and each of them once.
ResetUsesAreBounded == \A c \in Client : resetUses[c] <= 1
=============================================================================
