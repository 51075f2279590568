------------------------------ MODULE Services ------------------------------
(***************************************************************************)
(* The components that share no state with the account data: one-time      *)
(* passwords, password reset, admin invites, bootstrap, circuit breakers,  *)
(* rate limiters, process lifecycle, dead letters, surfaces.               *)
(*                                                                         *)
(* They have no variable in common, so what holds of one alone holds of it *)
(* beside the others, and their interleavings would show nothing.  part,   *)
(* chosen once, says which component runs; its specification is Spec       *)
(* restricted to that part.                                                *)
(***************************************************************************)
EXTENDS Registration, PasswordReset, Invites, Bootstrap, Breakers, Limiters,
        Lifecycle, DeadLetters, Surfaces

VARIABLE part  \* the component that runs

Part == {"registration", "reset", "invites", "bootstrap", "circuit", "mailer",
         "gate", "counter", "window", "lifecycle", "deadLetters", "surfaces"}

vars == <<part, otpVars, resetVars, inviteVars, bootVars, breakerVars,
          limiterVars, lifeVars, dlqVars, surfVars>>

TypeOK ==
    /\ part \in Part
    /\ OtpTypeOK /\ ResetTypeOK /\ InvitesTypeOK /\ BootTypeOK
    /\ BreakersTypeOK /\ LimitersTypeOK /\ LifeTypeOK /\ DeadTypeOK
    /\ SurfTypeOK

Init ==
    /\ part \in Part
    /\ OtpInit /\ ResetInit /\ InvitesInit /\ BootInit
    /\ BreakersInit /\ LimitersInit /\ DeadInit /\ SurfInit
    /\ lifeService \in IF part = "lifecycle" THEN DOMAIN Startup ELSE {"auth"}
    /\ LifeInit
    /\ part # "surfaces" => roles = {}
-----------------------------------------------------------------------------
OtpSteps ==
    /\ part = "registration" /\ OtpNext
    /\ UNCHANGED <<part, resetVars, inviteVars, bootVars, breakerVars,
                   limiterVars, lifeVars, dlqVars, surfVars>>

ResetSteps ==
    /\ part = "reset" /\ ResetNext
    /\ UNCHANGED <<part, otpVars, inviteVars, bootVars, breakerVars,
                   limiterVars, lifeVars, dlqVars, surfVars>>

InviteSteps ==
    /\ part = "invites" /\ InvitesNext
    /\ UNCHANGED <<part, otpVars, resetVars, bootVars, breakerVars,
                   limiterVars, lifeVars, dlqVars, surfVars>>

BootSteps ==
    /\ part = "bootstrap" /\ BootNext
    /\ UNCHANGED <<part, otpVars, resetVars, inviteVars, breakerVars,
                   limiterVars, lifeVars, dlqVars, surfVars>>

In(breaker) ==
    /\ part = breaker
    /\ UNCHANGED <<part, otpVars, resetVars, inviteVars, bootVars,
                   limiterVars, lifeVars, dlqVars, surfVars>>

BreakerSteps ==
    \/ In("circuit") /\ CircuitNext
    \/ In("mailer") /\ MailerNext
    \/ In("gate") /\ GateNext
    \/ \E b \in {"circuit", "mailer", "gate"} : In(b) /\ HealthChanges

LimiterSteps ==
    /\ \/ part = "counter" /\ RlNext
       \/ part = "window" /\ SlNext
    /\ UNCHANGED <<part, otpVars, resetVars, inviteVars, bootVars,
                   breakerVars, lifeVars, dlqVars, surfVars>>

LifeSteps ==
    /\ part = "lifecycle" /\ LifeNext
    /\ UNCHANGED <<part, otpVars, resetVars, inviteVars, bootVars,
                   breakerVars, limiterVars, dlqVars, surfVars>>

DeadSteps ==
    /\ part = "deadLetters" /\ DeadNext
    /\ UNCHANGED <<part, otpVars, resetVars, inviteVars, bootVars,
                   breakerVars, limiterVars, lifeVars, surfVars>>

SurfSteps ==
    /\ part = "surfaces" /\ SurfNext
    /\ UNCHANGED <<part, otpVars, resetVars, inviteVars, bootVars,
                   breakerVars, limiterVars, lifeVars, dlqVars>>

Next == \/ OtpSteps \/ ResetSteps \/ InviteSteps \/ BootSteps
        \/ BreakerSteps \/ LimiterSteps \/ LifeSteps \/ DeadSteps
        \/ SurfSteps

\* Timeouts pass, calls that began end, and each breaker keeps being asked.
BreakersAreUsed ==
    /\ WF_vars(In("circuit") /\ CircuitDue)
    /\ WF_vars(In("mailer") /\ MailerDue)
    /\ WF_vars(In("gate") /\ GateDue)
    /\ WF_vars(In("circuit") /\ \E c \in Client : Execute(c))
    /\ WF_vars(In("mailer") /\ \E c \in Client : MailAllowed(c) \/ MailTrial(c))
    /\ WF_vars(In("gate") /\ \E c \in Client : Forward(c))
    /\ \A c \in Client : /\ WF_vars(In("circuit") /\ CircuitCallEnds(c))
                         /\ WF_vars(In("mailer") /\ MailCallEnds(c))
                         /\ WF_vars(In("gate") /\ GateCallEnds(c))

Spec == Init /\ [][Next]_vars

FairSpec == Spec /\ BreakersAreUsed
-----------------------------------------------------------------------------
\* What auth-service counts by reading and writing back, or checks before it
\* acts: two requests at once may pass the limits of one-time passwords, and a
\* token may be used by each request that read it first, but only that often.
TriesAreBounded == OtpTriesAreBounded /\ ResetUsesAreBounded

\* An admin, invited or bootstrapped, is whole or not there once the last of
\* the racing requests has ended, and no invite is lost or used twice.
AdminsAreWhole == InvitesBuyAdmins /\ BootstrapsAreWhole
=============================================================================
