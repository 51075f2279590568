---------------------------- MODULE Registration ----------------------------
(***************************************************************************)
(* The one-time passwords of auth-service for one email and one purpose:   *)
(* asked for by a registration or a resend, and tried when the             *)
(* registration is completed.  Everything is in Redis keys that other      *)
(* requests read and write between one command and the next.  Provisioning *)
(* models what follows a right code.                                       *)
(*                                                                         *)
(* A key expires at any time; which code it is and the texts of the        *)
(* refusals are left out.                                                  *)
(***************************************************************************)
EXTENDS Clients

CONSTANTS RequestLimit,  \* OTP_REQUEST_LIMIT
          MaxAttempts    \* MAX_ATTEMPTS

ASSUME RegistrationAssumption ==
    RequestLimit \in Nat \ {0} /\ MaxAttempts \in Nat \ {0}

VARIABLES otpKeys,      \* flags that are set: see OtpKey
          otpRequests,  \* auth:otp_request_count, 0 when absent
          otpAttempts,  \* auth:otp_attempts, 0 when absent
          otpPc,        \* otpPc[c]: where request c is
          otpRead,      \* otpRead[c]: the counter as request c read it
          otpResends,   \* requests that came to resendRegistrationOtp
          otpMails,     \* codes mailed since otpRequests was absent (history)
          otpTries      \* wrong codes since otpAttempts was absent (history)

otpVars == <<otpKeys, otpRequests, otpAttempts, otpPc, otpRead, otpResends,
             otpMails, otpTries>>

\* The codes, the cached registration, and the three that refuse a request.
OtpKey == {"code", "registration", "block", "spamBlock", "cooldown"}

OtpTypeOK ==
    /\ otpKeys \subseteq OtpKey
    /\ otpRequests \in 0..RequestLimit /\ otpAttempts \in 0..MaxAttempts
    /\ otpPc \in [Client -> {"idle", "askBlock", "askSpam", "askCooldown",
                             "askAgain", "readRequests", "track", "store",
                             "issue", "tryBlock", "tryCode", "readAttempts",
                             "wrong", "right"}]
    /\ otpRead \in [Client -> 0..RequestLimit \cup 0..MaxAttempts]
    /\ otpResends \subseteq Client
    /\ otpMails \in Nat /\ otpTries \in Nat

OtpInit ==
    /\ otpKeys = {} /\ otpRequests = 0 /\ otpAttempts = 0
    /\ otpPc = [c \in Client |-> "idle"]
    /\ otpRead = [c \in Client |-> 0]
    /\ otpResends = {}
    /\ otpMails = 0 /\ otpTries = 0

otpCounters == <<otpRequests, otpAttempts, otpMails, otpTries>>

\* A read of a key that refuses the request when it is there.
Passes(c, from, key, to) ==
    /\ \/ /\ key \notin otpKeys
          /\ Moves(otpPc, c, from, to)
          /\ UNCHANGED otpResends
       \/ /\ key \in otpKeys
          /\ Moves(otpPc, c, from, "idle")
          /\ otpResends' = otpResends \ {c}
    /\ UNCHANGED <<otpKeys, otpCounters, otpRead>>
-----------------------------------------------------------------------------
(* startRegistration and resendRegistrationOtp.                            *)

StartRegistration(c) ==
    /\ Moves(otpPc, c, "idle", "askBlock")
    /\ UNCHANGED <<otpKeys, otpCounters, otpRead, otpResends>>

ResendRegistrationOtp(c) ==
    /\ Moves(otpPc, c, "idle", "askBlock")
    /\ "registration" \in otpKeys
    /\ otpResends' = otpResends \cup {c}
    /\ UNCHANGED <<otpKeys, otpCounters, otpRead>>

CheckOtpRestrictions(c) ==
    \/ Passes(c, "askBlock", "block", "askSpam")
    \/ Passes(c, "askSpam", "spamBlock", "askCooldown")
    \/ Passes(c, "askCooldown", "cooldown", "askAgain")

ReadRequests(c) ==
    \/ Passes(c, "askAgain", "spamBlock", "readRequests")
    \/ /\ Moves(otpPc, c, "readRequests", "track")
       /\ otpRead' = [otpRead EXCEPT ![c] = otpRequests]
       /\ UNCHANGED <<otpKeys, otpCounters, otpResends>>

\* Mutant: the limit is not looked at.
TrackUnlimited(c) ==
    /\ otpRequests' = otpRead[c] + 1
    /\ otpKeys' = otpKeys \cup {"cooldown"}
    /\ Moves(otpPc, c, "track", IF c \in otpResends THEN "issue" ELSE "store")
    /\ otpRead' = [otpRead EXCEPT ![c] = 0]
    /\ otpResends' = otpResends \ {c}
    /\ UNCHANGED <<otpAttempts, otpMails, otpTries>>

TrackOtpRequests(c) ==
    LET n == otpRead[c] + 1 IN
    /\ \/ /\ n > RequestLimit
          /\ otpKeys' = otpKeys \cup {"spamBlock"}
          /\ Moves(otpPc, c, "track", "idle")
          /\ UNCHANGED otpRequests
       \/ /\ n <= RequestLimit
          /\ otpRequests' = n
          /\ otpKeys' = otpKeys \cup {"cooldown"}
          /\ Moves(otpPc, c, "track",
                   IF c \in otpResends THEN "issue" ELSE "store")
    /\ otpRead' = [otpRead EXCEPT ![c] = 0]
    /\ otpResends' = otpResends \ {c}
    /\ UNCHANGED <<otpAttempts, otpMails, otpTries>>

StoreRegistration(c) ==
    /\ Moves(otpPc, c, "store", "issue")
    /\ otpKeys' = otpKeys \cup {"registration"}
    /\ UNCHANGED <<otpCounters, otpRead, otpResends>>

\* The code is stored, and its mail emitted in a transaction that may fail.
IssueOtp(c) ==
    /\ Moves(otpPc, c, "issue", "idle")
    /\ otpKeys' = otpKeys \cup {"code"}
    /\ otpMails' \in {otpMails, otpMails + 1}
    /\ UNCHANGED <<otpRequests, otpAttempts, otpTries, otpRead, otpResends>>
-----------------------------------------------------------------------------
(* completeRegistration up to the end of verifyOtp.                        *)

CompleteRegistration(c) ==
    /\ Moves(otpPc, c, "idle", "tryBlock")
    /\ "registration" \in otpKeys
    /\ UNCHANGED <<otpKeys, otpCounters, otpRead, otpResends>>

IsBlocked(c) == Passes(c, "tryBlock", "block", "tryCode")

\* The stored code is read and compared.
CompareOtp(c) ==
    /\ \/ "code" \notin otpKeys /\ Moves(otpPc, c, "tryCode", "idle")
          /\ UNCHANGED otpTries
       \/ "code" \in otpKeys /\ Moves(otpPc, c, "tryCode", "right")
          /\ UNCHANGED otpTries
       \/ "code" \in otpKeys /\ Moves(otpPc, c, "tryCode", "readAttempts")
          /\ otpTries' = otpTries + 1
    /\ UNCHANGED <<otpKeys, otpRequests, otpAttempts, otpMails, otpRead,
                   otpResends>>

ReadAttempts(c) ==
    /\ Moves(otpPc, c, "readAttempts", "wrong")
    /\ otpRead' = [otpRead EXCEPT ![c] = otpAttempts]
    /\ UNCHANGED <<otpKeys, otpCounters, otpResends>>

\* The attempt counter is gone, and with it the history of wrong codes.
ForgetAttempts == otpAttempts' = 0 /\ otpTries' = 0

\* Mutant: the counter is written back as it was read.
CountWrongNever(c) ==
    /\ Moves(otpPc, c, "wrong", "idle")
    /\ otpAttempts' = otpRead[c]
    /\ otpRead' = [otpRead EXCEPT ![c] = 0]
    /\ UNCHANGED <<otpKeys, otpTries, otpRequests, otpMails, otpResends>>

CountWrong(c) ==
    LET n == otpRead[c] + 1 IN
    /\ Moves(otpPc, c, "wrong", "idle")
    /\ \/ /\ n > MaxAttempts
          /\ otpKeys' = (otpKeys \cup {"block"}) \ {"code"}
          /\ ForgetAttempts
       \/ /\ n <= MaxAttempts
          /\ otpAttempts' = n
          /\ UNCHANGED <<otpKeys, otpTries>>
    /\ otpRead' = [otpRead EXCEPT ![c] = 0]
    /\ UNCHANGED <<otpRequests, otpMails, otpResends>>

AcceptOtp(c) ==
    /\ Moves(otpPc, c, "right", "idle")
    /\ otpKeys' = otpKeys \ {"code"}
    /\ ForgetAttempts
    /\ UNCHANGED <<otpRequests, otpMails, otpRead, otpResends>>
-----------------------------------------------------------------------------
KeyExpires(k) ==
    /\ k \in otpKeys
    /\ otpKeys' = otpKeys \ {k}
    /\ UNCHANGED <<otpCounters, otpPc, otpRead, otpResends>>

RequestsExpire ==
    /\ otpRequests > 0
    /\ otpRequests' = 0 /\ otpMails' = 0
    /\ UNCHANGED <<otpKeys, otpAttempts, otpTries, otpPc, otpRead, otpResends>>

AttemptsExpire ==
    /\ otpAttempts > 0
    /\ ForgetAttempts
    /\ UNCHANGED <<otpKeys, otpRequests, otpMails, otpPc, otpRead, otpResends>>

OtpNext ==
    \/ \E c \in Client :
          \/ StartRegistration(c) \/ ResendRegistrationOtp(c)
          \/ CheckOtpRestrictions(c) \/ ReadRequests(c) \/ TrackOtpRequests(c)
          \/ StoreRegistration(c) \/ IssueOtp(c)
          \/ CompleteRegistration(c) \/ IsBlocked(c) \/ CompareOtp(c)
          \/ ReadAttempts(c) \/ CountWrong(c) \/ AcceptOtp(c)
    \/ \E k \in OtpKey : KeyExpires(k)
    \/ RequestsExpire \/ AttemptsExpire
-----------------------------------------------------------------------------
\* What two requests can do with a counter of limit m that each of them reads,
\* increments and writes back: one may write a stale count after the other
\* brought it to the limit, once for each value it can have read, and both may
\* be under way at the end.
MostOf(m) == ((m + 1) * (m + 2)) \div 2 + 1

\* The read of a counter and its write are two commands, so two requests at
\* once may try more wrong codes than MAX_ATTEMPTS allows before the block,
\* and get more mails than OTP_REQUEST_LIMIT, but not without bound.
OtpTriesAreBounded ==
    Cardinality(Client) <= 2 =>
        otpTries <= MostOf(MaxAttempts) /\ otpMails <= MostOf(RequestLimit)
=============================================================================
